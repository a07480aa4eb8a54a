------------------------------ MODULE MCOutbox ------------------------------
(* Instances of Outbox for TLC; two dispatchers are interchangeable.       *)
EXTENDS Outbox, TLC

MCSymmetry == Permutations(Dispatchers)
=============================================================================
