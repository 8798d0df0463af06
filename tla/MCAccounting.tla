---------------------------- MODULE MCAccounting ----------------------------
(***************************************************************************)
(* Accounting for TLC: CPUs are interchangeable, and so are elements.      *)
(***************************************************************************)
EXTENDS Accounting, TLC

Symmetry == Permutations(Cpus) \cup Permutations(Elements)
=============================================================================
