------------------------ MODULE ProfileCache_proofs ------------------------
(***************************************************************************)
(* Proofs about the read-through cache, for any number of requests and     *)
(* instances, of writes and of faults.                                     *)
(***************************************************************************)
EXTENDS ProfileCache, TLAPS

LEMMA Values == MaxVersion \in Nat /\ MaxVersion > 0 /\ Empty \notin Nat /\ None \notin Readers
BY BoundAssumption, NameAssumption

-----------------------------------------------------------------------------
(* Types.                                                                  *)

LEMMA TypeInit == Init => TypeOK
BY Values DEF Init, TypeOK, Versions

LEMMA TypeStepReader ==
  ASSUME TypeOK, NEW r \in Readers, Lookup(r) \/ Serve(r)
  PROVE  TypeOK'
<1> USE Values DEF TypeOK, dbVars, readerVars, writerVars, historyVars, Spend, Excuse, Land
<1>1. CASE Lookup(r)
  BY <1>1 DEF Lookup
<1>2. CASE Join(r)
  BY <1>2 DEF Join
<1>3. CASE RecheckHit(r)
  BY <1>3 DEF RecheckHit, Versions
<1>4. CASE RecheckMiss(r)
  BY <1>4 DEF RecheckMiss
<1>5. CASE Load(r)
  <2>1. Readable \subseteq Versions
    BY DEF Readable, Versions
  <2> QED
    BY <1>5, <2>1 DEF Load
<1>6. CASE LoadFails(r)
  BY <1>6 DEF LoadFails, Versions
<1>7. CASE Fill(r)
  BY <1>7 DEF Fill, Versions
<1> QED
  BY <1>1, <1>2, <1>3, <1>4, <1>5, <1>6, <1>7 DEF Serve

LEMMA TypeStepWriter ==
  ASSUME TypeOK, NEW w \in Writers, Commit(w) \/ Finish(w) \/ WriterDies(w)
  PROVE  TypeOK'
<1> USE Values DEF TypeOK, dbVars, readerVars, writerVars, historyVars, Spend, Excuse, Remove, DeleteIsLost
<1>1. CASE Commit(w)
  BY <1>1 DEF Commit, Versions
<1>2. CASE Delete(w)
  BY <1>2 DEF Delete, AfterDelete
<1>3. CASE DeleteFails(w)
  BY <1>3 DEF DeleteFails
<1>4. CASE SecondDelete(w)
  BY <1>4 DEF SecondDelete
<1>5. CASE WriterDies(w)
  BY <1>5 DEF WriterDies
<1> QED
  BY <1>1, <1>2, <1>3, <1>4, <1>5 DEF Finish

LEMMA TypeStep == TypeOK /\ [Next]_vars => TypeOK'
<1> SUFFICES ASSUME TypeOK, [Next]_vars PROVE TypeOK'
  OBVIOUS
<1> USE Values DEF TypeOK, dbVars, readerVars, writerVars, historyVars
<1>1. ASSUME NEW i \in Instances, InstanceDies(i) PROVE TypeOK'
  BY <1>1 DEF InstanceDies, Spend, Versions
<1>2. CASE Expire
  BY <1>2 DEF Expire, Remove, Excuse
<1>3. CASE Replicate
  BY <1>3 DEF Replicate, Versions
<1>4. CASE UNCHANGED vars
  BY <1>4 DEF vars
<1> QED
  BY <1>1, <1>2, <1>3, <1>4, TypeStepReader, TypeStepWriter DEF Next

-----------------------------------------------------------------------------
(* One flight, one leader.                                                 *)

LEMMA FlightInit == Init => FlightIsLed
BY Values DEF Init, FlightIsLed

LEMMA FlightLands ==
  ASSUME TypeOK, FlightIsLed, NEW r \in Readers, rpc[r] \in {"leading", "loading", "filling"}, Land(r)
  PROVE  FlightIsLed'
<1>1. flight[at[r]] = r /\ at' = at /\ flight' = [flight EXCEPT ![at[r]] = None]
  BY DEF FlightIsLed, Land
<1>2. ASSUME NEW x \in Readers, at[x] = at[r]
      PROVE  rpc'[x] \in {"idle", "missed"}
  BY <1>1, <1>2, Values DEF Land, FlightIsLed, TypeOK
<1>3. ASSUME NEW x \in Readers, at[x] # at[r]
      PROVE  rpc'[x] = rpc[x] /\ flight'[at[x]] = flight[at[x]]
  BY <1>1, <1>3 DEF Land, TypeOK
<1> QED
  BY <1>1, <1>2, <1>3, Values DEF FlightIsLed, TypeOK

LEMMA FlightStep ==
  ASSUME TypeOK, FlightIsLed, [Next]_vars
  PROVE  FlightIsLed'
<1> USE Values DEF TypeOK, readerVars
<1>1. ASSUME NEW r \in Readers, Lookup(r) PROVE FlightIsLed'
  BY <1>1 DEF Lookup, FlightIsLed
<1>2. ASSUME NEW r \in Readers, Join(r) PROVE FlightIsLed'
  BY <1>2 DEF Join, FlightIsLed
<1>3. ASSUME NEW r \in Readers, RecheckHit(r) \/ LoadFails(r) \/ Fill(r) PROVE FlightIsLed'
  BY <1>3, FlightLands DEF RecheckHit, LoadFails, Fill
<1>4. ASSUME NEW r \in Readers, RecheckMiss(r) \/ Load(r) PROVE FlightIsLed'
  BY <1>4 DEF RecheckMiss, Load, FlightIsLed
<1>5. ASSUME NEW i \in Instances, InstanceDies(i) PROVE FlightIsLed'
  BY <1>5 DEF InstanceDies, FlightIsLed
<1>6. ASSUME NEW w \in Writers, Commit(w) \/ Finish(w) \/ WriterDies(w) PROVE FlightIsLed'
  BY <1>6 DEF Commit, Finish, Delete, DeleteFails, SecondDelete, WriterDies, FlightIsLed
<1>7. CASE Expire \/ Replicate \/ UNCHANGED vars
  BY <1>7 DEF Expire, Replicate, vars, FlightIsLed
<1> QED
  BY <1>1, <1>2, <1>3, <1>4, <1>5, <1>6, <1>7 DEF Next, Serve

-----------------------------------------------------------------------------
(* A load that counts is on its way into the entry, or is there.           *)

(* When the counters are reset nothing has to be in hand.                  *)
LEMMA Excused == ASSUME TypeOK, Excuse, TypeOK', at' = at PROVE LoadsInHand'
BY DEF Excuse, LoadsInHand, TypeOK

LEMMA LoadsStepReader ==
  ASSUME TypeOK, TypeOK', FlightIsLed, LoadsInHand, NEW r \in Readers, Lookup(r) \/ Serve(r)
  PROVE  LoadsInHand'
<1> USE Values DEF TypeOK, readerVars, historyVars
<1>1. CASE Lookup(r)
  <2>1. CASE Excuse
    BY <1>1, <2>1, Excused DEF Lookup
  <2>2. CASE loads' = loads
    BY <1>1, <2>2 DEF Lookup, LoadsInHand
  <2> QED
    BY <1>1, <2>1, <2>2 DEF Lookup
<1>2. CASE Join(r)
  BY <1>2 DEF Join, LoadsInHand
<1>3. CASE RecheckHit(r)
  BY <1>3 DEF RecheckHit, Land, LoadsInHand
<1>4. CASE RecheckMiss(r)
  <2>1. CASE Excuse
    BY <1>4, <2>1, Excused DEF RecheckMiss
  <2>2. CASE cache = Empty /\ loads' = loads
    <3>1. \A x \in Readers : at[x] = at[r] => rpc[x] # "filling"
      BY <1>4 DEF RecheckMiss, FlightIsLed
    <3>2. loads[at[r]] = 0
      BY <2>2, <3>1 DEF LoadsInHand
    <3> QED
      BY <1>4, <2>2, <3>2 DEF RecheckMiss, LoadsInHand
  <2> QED
    BY <1>4, <2>1, <2>2 DEF RecheckMiss
<1>5. CASE Load(r)
  <2>1. loads[at[r]] = 0 /\ loads' = [loads EXCEPT ![at[r]] = 1]
    <3>1. loads[at[r]] = 0
      BY <1>5 DEF Load, LoadsInHand
    <3>2. loads' = [loads EXCEPT ![at[r]] = loads[at[r]] + 1]
      BY <1>5 DEF Load
    <3> QED
      BY <3>1, <3>2
  <2>2. rpc'[r] = "filling" /\ at' = at /\ cache' = cache
    BY <1>5 DEF Load
  <2>3. \A x \in Readers : x # r => rpc'[x] = rpc[x] /\ (rpc[x] = "loading" => at[x] # at[r])
    BY <1>5 DEF Load, FlightIsLed
  <2>4. \A i \in Instances :
           loads'[i] = 0 \/ /\ loads'[i] = 1
                            /\ cache' # Empty \/ \E x \in Readers : at'[x] = i /\ rpc'[x] = "filling"
    <3> TAKE i \in Instances
    <3>1. CASE i = at[r]
      BY <2>1, <2>2, <3>1
    <3>2. CASE i # at[r]
      BY <2>1, <2>2, <2>3, <3>2 DEF LoadsInHand
    <3> QED
      BY <3>1, <3>2
  <2>5. \A x \in Readers : rpc'[x] = "loading" => loads'[at'[x]] = 0
    BY <2>1, <2>2, <2>3 DEF LoadsInHand
  <2> QED
    BY <2>4, <2>5 DEF LoadsInHand
<1>6. CASE LoadFails(r)
  BY <1>6 DEF LoadFails, Land, LoadsInHand
<1>7. CASE Fill(r)
  <2>1. CASE Excuse
    BY <1>7, <2>1, Excused DEF Fill, Land
  <2>2. CASE cache' = got[r] /\ loads' = loads
    <3>1. cache' # Empty
      BY <2>2 DEF Versions
    <3> QED
      BY <1>7, <2>2, <3>1 DEF Fill, Land, LoadsInHand
  <2> QED
    BY <1>7, <2>1, <2>2 DEF Fill
<1> QED
  BY <1>1, <1>2, <1>3, <1>4, <1>5, <1>6, <1>7 DEF Serve

LEMMA LoadsStep ==
  ASSUME TypeOK, TypeOK', FlightIsLed, LoadsInHand, [Next]_vars
  PROVE  LoadsInHand'
<1> USE Values DEF TypeOK, readerVars, historyVars
<1>1. ASSUME NEW w \in Writers, Commit(w) \/ Finish(w) \/ WriterDies(w) PROVE LoadsInHand'
  <2>1. CASE Remove
    BY <1>1, <2>1, Excused DEF Remove, Commit, Finish, Delete, DeleteFails, SecondDelete, WriterDies
  <2>2. CASE UNCHANGED <<cache, loads>>
    BY <1>1, <2>2 DEF Commit, Finish, Delete, DeleteFails, SecondDelete, WriterDies, LoadsInHand
  <2> QED
    BY <1>1, <2>1, <2>2 DEF Commit, Finish, Delete, DeleteFails, SecondDelete, WriterDies
<1>2. ASSUME NEW i \in Instances, InstanceDies(i) PROVE LoadsInHand'
  BY <1>2 DEF InstanceDies, LoadsInHand
<1>3. CASE Expire
  BY <1>3, Excused DEF Expire, Remove
<1>4. CASE Replicate \/ UNCHANGED vars
  BY <1>4 DEF Replicate, vars, LoadsInHand
<1> QED
  BY <1>1, <1>2, <1>3, <1>4, LoadsStepReader DEF Next

-----------------------------------------------------------------------------
(* Versions, and the writer of the latest.                                 *)

LEMMA NewerStep ==
  ASSUME TypeOK, TypeOK', NothingNewer, [Next]_vars
  PROVE  NothingNewer'
<1> USE Values DEF TypeOK, readerVars, dbVars, Versions
<1>1. ASSUME NEW r \in Readers, Lookup(r) \/ Serve(r) PROVE NothingNewer'
  <2>1. CASE Load(r)
    BY <2>1 DEF Load, Readable, NothingNewer
  <2>2. CASE Fill(r)
    BY <2>2 DEF Fill, Land, NothingNewer
  <2>3. CASE Lookup(r) \/ Join(r) \/ RecheckHit(r) \/ RecheckMiss(r) \/ LoadFails(r)
    BY <2>3 DEF Lookup, Join, RecheckHit, RecheckMiss, LoadFails, Land, NothingNewer
  <2> QED
    BY <1>1, <2>1, <2>2, <2>3 DEF Serve
<1>2. ASSUME NEW w \in Writers, Commit(w) \/ Finish(w) \/ WriterDies(w) PROVE NothingNewer'
  BY <1>2 DEF Commit, Finish, Delete, DeleteFails, SecondDelete, WriterDies, Remove, NothingNewer
<1>3. ASSUME NEW i \in Instances, InstanceDies(i) PROVE NothingNewer'
  BY <1>3 DEF InstanceDies, NothingNewer
<1>4. CASE Expire \/ Replicate \/ UNCHANGED vars
  BY <1>4 DEF Expire, Remove, Replicate, vars, NothingNewer
<1> QED
  BY <1>1, <1>2, <1>3, <1>4 DEF Next

(* What is left of older versions only gets less, but for a commit.        *)
LEMMA PendingStays ==
  ASSUME TypeOK, LastWriterPending, db' = db, deletes' = deletes,
         faults' = 0 => faults = 0, OldRemains' => OldRemains,
         \A w \in Writers : wrote[w] = db /\ wpc[w] \in {"deleting", "second"} =>
            (wrote'[w] = db /\ wpc'[w] \in {"deleting", "second"})
  PROVE  LastWriterPending'
BY DEF LastWriterPending

LEMMA PendingStepReader ==
  ASSUME TypeOK, TypeOK', LastWriterPending, NEW r \in Readers, Lookup(r) \/ Serve(r)
  PROVE  LastWriterPending'
<1> USE Values DEF TypeOK, readerVars, dbVars, writerVars, Versions, Spend
<1>0. /\ db' = db /\ deletes' = deletes /\ replica' = replica /\ wpc' = wpc /\ wrote' = wrote
      /\ faults' = 0 => faults = 0
  BY DEF Lookup, Serve, Join, RecheckHit, RecheckMiss, Load, LoadFails, Fill
<1>1. OldRemains' => OldRemains
  <2>1. CASE Load(r)
    <3>1. \A x \in Readers : x # r => rpc'[x] = rpc[x] /\ got'[x] = got[x]
      BY <2>1 DEF Load
    <3>2. got'[r] < db => replica < db
      BY <2>1 DEF Load, Readable
    <3>3. cache' = cache
      BY <2>1 DEF Load
    <3> QED
      BY <1>0, <3>1, <3>2, <3>3 DEF OldRemains, Outdated
  <2>2. CASE Fill(r)
    <3>1. rpc[r] = "filling" /\ cache' \in {cache, got[r]}
      BY <2>2 DEF Fill
    <3>2. \A x \in Readers : rpc'[x] = "filling" => rpc[x] = "filling" /\ got'[x] = got[x]
      BY <2>2 DEF Fill, Land
    <3> QED
      BY <1>0, <3>1, <3>2 DEF OldRemains, Outdated
  <2>3. CASE Lookup(r) \/ Join(r) \/ RecheckHit(r) \/ RecheckMiss(r) \/ LoadFails(r)
    <3>1. cache' = cache /\ \A x \in Readers : rpc'[x] = "filling" => rpc[x] = "filling" /\ got'[x] = got[x]
      BY <2>3 DEF Lookup, Join, RecheckHit, RecheckMiss, LoadFails, Land
    <3> QED
      BY <1>0, <3>1 DEF OldRemains, Outdated
  <2> QED
    BY <2>1, <2>2, <2>3 DEF Serve
<1> QED
  BY <1>0, <1>1, PendingStays

LEMMA PendingStep ==
  ASSUME TypeOK, TypeOK', NothingNewer, LastWriterPending, [Next]_vars
  PROVE  LastWriterPending'
<1> USE Values DEF TypeOK, readerVars, dbVars, writerVars, Versions
<1>1. ASSUME NEW w \in Writers, Commit(w) PROVE LastWriterPending'
  BY <1>1 DEF Commit, LastWriterPending
<1>2. ASSUME NEW w \in Writers, Delete(w), deletes = "double" PROVE LastWriterPending'
  <2>1. OldRemains' => OldRemains
    BY <1>2 DEF Delete, Remove, OldRemains, Outdated
  <2>2. \A x \in Writers : wrote[x] = db /\ wpc[x] \in {"deleting", "second"} =>
            (wrote'[x] = db /\ wpc'[x] \in {"deleting", "second"})
    BY <1>2 DEF Delete, AfterDelete
  <2> QED
    BY <1>2, <2>1, <2>2, PendingStays DEF Delete
<1>3. ASSUME NEW w \in Writers, SecondDelete(w), faults' = faults PROVE LastWriterPending'
  <2>1. Remove
    BY <1>3 DEF SecondDelete, Spend
  <2>2. OldRemains' => OldRemains
    BY <1>3, <2>1 DEF SecondDelete, Remove, OldRemains, Outdated
  <2>3. CASE wrote[w] = db
    <3>1. ~OldRemains'
      BY <1>3, <2>1, <2>3 DEF SecondDelete, DelayOver, Remove, NothingNewer, OldRemains, Outdated
    <3> QED
      BY <3>1 DEF LastWriterPending
  <2>4. CASE wrote[w] # db
    BY <1>3, <2>2, <2>4, PendingStays DEF SecondDelete
  <2> QED
    BY <2>3, <2>4
<1>4. ASSUME faults' = faults + 1 PROVE LastWriterPending'
  BY <1>4 DEF LastWriterPending
<1>5. CASE Expire
  <2>1. OldRemains' => OldRemains
    BY <1>5 DEF Expire, Remove, OldRemains, Outdated
  <2> QED
    BY <1>5, <2>1, PendingStays DEF Expire
<1>6. CASE Replicate
  <2>1. OldRemains' => OldRemains
    BY <1>6 DEF Replicate, OldRemains, Outdated
  <2> QED
    BY <1>6, <2>1, PendingStays DEF Replicate
<1>7. CASE UNCHANGED vars
  BY <1>7 DEF vars, LastWriterPending, OldRemains, Outdated
<1>8. ASSUME NEW w \in Writers, Delete(w), deletes # "double" PROVE LastWriterPending'
  BY <1>8 DEF Delete, LastWriterPending
<1>9. ASSUME NEW w \in Writers, Finish(w) \/ WriterDies(w) PROVE LastWriterPending'
  BY <1>2, <1>3, <1>4, <1>8, <1>9 DEF Finish, DeleteFails, SecondDelete, WriterDies, Spend
<1>10. ASSUME NEW i \in Instances, InstanceDies(i) PROVE LastWriterPending'
  BY <1>4, <1>10 DEF InstanceDies, Spend
<1> QED
  BY <1>1, <1>5, <1>6, <1>7, <1>9, <1>10, PendingStepReader DEF Next

-----------------------------------------------------------------------------
(* The state has its types, and CacheInv holds, whatever races and faults  *)
(* there are.                                                              *)
THEOREM CacheInvariant == Spec => [](TypeOK /\ CacheInv)
<1>1. Init => TypeOK /\ CacheInv
  <2>1. Init => LoadsInHand /\ NothingNewer
    BY Values DEF Init, LoadsInHand, NothingNewer
  <2>2. Init => LastWriterPending
    BY Values DEF Init, LastWriterPending, OldRemains, Outdated
  <2> QED
    BY <2>1, <2>2, TypeInit, FlightInit DEF CacheInv
<1>2. TypeOK /\ CacheInv /\ [Next]_vars => (TypeOK /\ CacheInv)'
  BY TypeStep, FlightStep, LoadsStep, NewerStep, PendingStep DEF CacheInv
<1> QED
  BY <1>1, <1>2, PTL DEF Spec

(* Between two removals of the entry an instance loads the profile once.   *)
THEOREM OneLoadPerMissHolds == Spec => []OneLoadPerMiss
<1>1. CacheInv => OneLoadPerMiss
  BY DEF CacheInv, LoadsInHand, OneLoadPerMiss
<1> QED
  BY <1>1, CacheInvariant, PTL

(* A stale entry that no writer is about to delete was filled with a       *)
(* replaced version, or the delete that was due failed.                    *)
THEOREM StaleHasCauseHolds == Spec => []StaleHasCause
<1>1. Init => StaleHasCause
  BY Values DEF Init, StaleHasCause, Outdated
<1>2. ASSUME TypeOK, StaleHasCause, [Next]_vars PROVE StaleHasCause'
  <2> USE Values DEF TypeOK, dbVars, writerVars, historyVars, Versions
  <2>1. ASSUME NEW r \in Readers, Lookup(r) \/ Serve(r) PROVE StaleHasCause'
    <3>1. CASE Fill(r)
      <4>1. /\ db' = db /\ wpc' = wpc
            /\ \/ cache' = got[r] /\ staleBy' = IF got[r] < db THEN "fill" ELSE "none"
               \/ cache' = cache /\ staleBy' = staleBy
        BY <3>1 DEF Fill
      <4> QED
        BY <1>2, <4>1 DEF StaleHasCause, Outdated
    <3>2. CASE Lookup(r) \/ Join(r) \/ RecheckHit(r) \/ RecheckMiss(r) \/ Load(r) \/ LoadFails(r)
      <4>1. cache' = cache /\ staleBy' = staleBy /\ db' = db /\ wpc' = wpc
        BY <3>2 DEF Lookup, Join, RecheckHit, RecheckMiss, Load, LoadFails
      <4> QED
        BY <1>2, <4>1 DEF StaleHasCause, Outdated
    <3> QED
      BY <2>1, <3>1, <3>2 DEF Serve
  <2>2. ASSUME NEW w \in Writers, Commit(w) PROVE StaleHasCause'
    BY <1>2, <2>2 DEF Commit, StaleHasCause
  <2>3. ASSUME NEW w \in Writers, Finish(w) \/ WriterDies(w) PROVE StaleHasCause'
    <3>1. CASE Remove
      BY <3>1 DEF Remove, StaleHasCause, Outdated
    <3>2. CASE ~Remove
      BY <1>2, <2>3, <3>2 DEF Finish, Delete, DeleteFails, SecondDelete, WriterDies, DeleteIsLost,
                              StaleHasCause, Outdated
    <3> QED
      BY <3>1, <3>2
  <2>4. CASE Expire \/ Replicate \/ UNCHANGED vars
    BY <1>2, <2>4 DEF Expire, Remove, Replicate, vars, StaleHasCause, Outdated
  <2>5. ASSUME NEW i \in Instances, InstanceDies(i) PROVE StaleHasCause'
    BY <1>2, <2>5 DEF InstanceDies, StaleHasCause, Outdated
  <2> QED
    BY <1>2, <2>1, <2>2, <2>3, <2>4, <2>5 DEF Next
<1> QED
  BY <1>1, <1>2, CacheInvariant, PTL DEF Spec

(* With the double delete, a delay that is long enough and no fault, the   *)
(* entry is not older than the row when everything has come to rest: the   *)
(* writer of the row's version would still be at it.                       *)
THEOREM DoubleDeleteConsistentHolds == Spec => []DoubleDeleteConsistent
<1>1. ASSUME TypeOK, CacheInv PROVE DoubleDeleteConsistent
  <2> SUFFICES ASSUME deletes = "double", faults = 0, AtRest PROVE cache \in {Empty, db}
    BY DEF DoubleDeleteConsistent, ConsistentAtRest
  <2>1. ~Outdated
    BY <1>1 DEF CacheInv, LastWriterPending, OldRemains, AtRest
  <2>2. cache # Empty => cache <= db /\ cache \in Nat /\ db \in Nat
    BY <1>1 DEF CacheInv, NothingNewer, TypeOK, Versions
  <2> QED
    BY <2>1, <2>2 DEF Outdated
<1> QED
  BY <1>1, CacheInvariant, PTL
=============================================================================
