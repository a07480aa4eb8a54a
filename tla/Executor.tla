------------------------------ MODULE Executor ------------------------------
(***************************************************************************)
(* What the worker pool (internal/worker) promises its users, with no      *)
(* queue, lock or worker in sight: a job whose Submit returned nil is run  *)
(* to its end at most once, none is accepted once the pool was told to     *)
(* stop, and the pool says it is drained only when nothing is left to run. *)
(***************************************************************************)
CONSTANT Jobs

VARIABLES accepted,  \* jobs the pool took
          finished,  \* jobs run to their end
          phase      \* "running", "stopping" or "drained"

vars == <<accepted, finished, phase>>

Init == accepted = {} /\ finished = {} /\ phase = "running"

Accept(j) == /\ phase = "running"
             /\ j \notin accepted
             /\ accepted' = accepted \cup {j}
             /\ UNCHANGED <<finished, phase>>

Run(j) == /\ j \in accepted \ finished
          /\ finished' = finished \cup {j}
          /\ UNCHANGED <<accepted, phase>>

Stop == /\ phase = "running"
        /\ phase' = "stopping"
        /\ UNCHANGED <<accepted, finished>>

Drain == /\ phase = "stopping"
         /\ finished = accepted
         /\ phase' = "drained"
         /\ UNCHANGED <<accepted, finished>>

Next == Stop \/ Drain \/ \E j \in Jobs : Accept(j) \/ Run(j)

Spec == Init /\ [][Next]_vars
=============================================================================
