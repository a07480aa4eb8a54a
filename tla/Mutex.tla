------------------------------- MODULE Mutex -------------------------------
(***************************************************************************)
(* What a lock that is worth its name promises, with no Redis, no ttl and  *)
(* no clock in it: it is taken when nobody has it, by one client, and is   *)
(* somebody else's only after that client is through.  The distributed     *)
(* lock (pkg/cache/distributed_lock.go) implements it if its lease         *)
(* outlasts what is done under it.                                         *)
(***************************************************************************)
CONSTANT Clients

VARIABLE holders  \* the clients that were told they have the lock

Init == holders = {}

Take(c) == holders = {} /\ holders' = {c}

GiveBack == holders # {} /\ holders' = {}

Next == GiveBack \/ \E c \in Clients : Take(c)

Spec == Init /\ [][Next]_holders
=============================================================================
