---------------------------- MODULE EventDelivery ----------------------------
(***************************************************************************)
(* What the transactional outbox promises for every event, with no table,  *)
(* no dispatcher and no broker connection: an event that is recorded stays *)
(* recorded until it is settled, it is settled as "published" only after   *)
(* an attempt succeeded and as "dead" only after MaxAttempts attempts      *)
(* failed, and what is settled is never touched again.                     *)
(* Outbox.tla is shown to implement this module.                           *)
(***************************************************************************)
EXTENDS Naturals

CONSTANTS Events,      (* the events that may be recorded                  *)
          MaxAttempts  (* failed attempts after which an event is given up *)

VARIABLES outcome,   (* Events -> {"absent", "recorded", "published", "dead"} *)
          handedOver, (* events some attempt handed to the broker             *)
          failed     (* Events -> how many attempts failed                    *)

deliveryVars == <<outcome, handedOver, failed>>

Init == /\ outcome = [e \in Events |-> "absent"]
        /\ handedOver = {}
        /\ failed = [e \in Events |-> 0]

(* The business transaction commits the event together with its data.      *)
Record(e) == /\ outcome[e] = "absent"
             /\ outcome' = [outcome EXCEPT ![e] = "recorded"]
             /\ UNCHANGED <<handedOver, failed>>

(* Only a recorded, unsettled event is ever attempted.                     *)
AttemptSucceeds(e) == /\ outcome[e] = "recorded"
                      /\ handedOver' = handedOver \cup {e}
                      /\ UNCHANGED <<outcome, failed>>

AttemptFails(e) == /\ outcome[e] = "recorded"
                   /\ failed' = [failed EXCEPT ![e] = @ + 1]
                   /\ UNCHANGED <<outcome, handedOver>>

Settle(e, o) == /\ outcome[e] = "recorded"
                /\ outcome' = [outcome EXCEPT ![e] = o]
                /\ UNCHANGED <<handedOver, failed>>

Publish(e) == e \in handedOver /\ Settle(e, "published")
GiveUp(e)  == failed[e] >= MaxAttempts /\ Settle(e, "dead")

Next == \E e \in Events : \/ Record(e) \/ AttemptSucceeds(e) \/ AttemptFails(e)
                          \/ Publish(e) \/ GiveUp(e)

Spec == Init /\ [][Next]_deliveryVars
=============================================================================
