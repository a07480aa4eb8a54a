-------------------------- MODULE MCDistributedLock --------------------------
(* Instances of DistributedLock for TLC.                                   *)
EXTENDS DistributedLock, TLC

MCSymmetry == Permutations(Clients) \cup Permutations(Tokens)
=============================================================================
