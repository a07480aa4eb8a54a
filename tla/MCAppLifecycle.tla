--------------------------- MODULE MCAppLifecycle ---------------------------
(***************************************************************************)
(* The life of one process, with budgets that are scaled down, and the     *)
(* start of several on one database, checked in one run: the initial state *)
(* says which of the two moves.  While the one process is looked at, the   *)
(* servers of the other module are all up, with the newer release.         *)
(***************************************************************************)
EXTENDS AppLifecycle, Startup

VARIABLE part

MCInit ==
  /\ Init
  /\ \/ part = "startup" /\ background = "none" /\ StartupInit
     \/ /\ part = "lifecycle"
        /\ schema = [version |-> Latest, dirty |-> FALSE] /\ applied = 1..Latest /\ lock = None
        /\ pc = [p \in Procs |-> IF p \in Servers THEN "serving" ELSE "done"]
        /\ release = [p \in Procs |-> Latest]
        /\ job = [p \in Procs |-> [up |-> TRUE, left |-> Latest]]
        /\ lowered = FALSE /\ faults = 0

MCNext ==
  /\ UNCHANGED part
  /\ \/ part = "startup" /\ StartupNext /\ UNCHANGED vars
     \/ part = "lifecycle" /\ Next /\ UNCHANGED startupVars

(* Whoever does not move is in a state where fairness asks nothing of him. *)
MCSpec == MCInit /\ [][MCNext]_<<vars, startupVars, part>> /\ Fairness /\ StartupFairness
=============================================================================
