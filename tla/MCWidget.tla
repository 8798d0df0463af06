------------------------------ MODULE MCWidget ------------------------------
(***************************************************************************)
(* Two applications for the widget; one of them is a group of processes    *)
(* with two names, which goes by the name of whichever of them is active.  *)
(***************************************************************************)
EXTENDS WidgetHistory

CONSTANTS group, single, browser, helper

MCApps == {<<group, browser>>, <<group, helper>>, <<single, helper>>}

MCExclusions == {{}, {browser}}
=============================================================================
