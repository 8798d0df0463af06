----------------------------- MODULE MCGrouping -----------------------------
(***************************************************************************)
(* Processes as the source describes them: a browser whose main process    *)
(* and children are in different cgroups, a script run by an interpreter   *)
(* in the cgroup of an application, a service run by the same interpreter, *)
(* and a process whose executable cannot be read.                          *)
(***************************************************************************)
EXTENDS Grouping

CONSTANTS none, chrome, chromeId, childId, chromeIcon, python, scriptId, serviceId, worker

Leaf(s, p, i) == [suffix |-> s, prefix |-> p, id |-> i]

Browser == [comm |-> chrome, exe |-> chrome, leaf |-> Leaf("scope", "app", chromeId)]
Child   == [comm |-> chrome, exe |-> chrome, leaf |-> Leaf("service", "app", childId)]
Script  == [comm |-> worker, exe |-> python, leaf |-> Leaf("scope", "app", childId)]
Service == [comm |-> python, exe |-> python, leaf |-> Leaf("service", "other", serviceId)]
Foreign == [comm |-> worker, exe |-> none, leaf |-> Leaf("scope", "other", none)]

MCImages == {Browser, Child, Script, Foreign}

MCAllImages == MCImages \cup {Service}

\* What the daemon goes on from: not what it has published.
MCView == <<systemVars, resolverVars, moved, phase, samples, livePids, deadPids, groups,
            lives, resolved>>

MCIcons == {[dir |-> 1, id |-> chromeId, icon |-> chromeIcon]}
=============================================================================
