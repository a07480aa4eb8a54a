---------------------------- MODULE Outbox_proofs ----------------------------
(***************************************************************************)
(* Theorems about Outbox for every set of events and dispatchers, every    *)
(* max_attempts and batch_size, and any finite number of faults.           *)
(***************************************************************************)
EXTENDS Outbox, TLAPS

-----------------------------------------------------------------------------
(* Types: what every column, snapshot and history counter ranges over, for *)
(* every step of dispatchEvent, AcquirePending and the processes' life.    *)
THEOREM TypeCorrect == Spec => []TypeOK
<1>1. Init => TypeOK
  BY DEF Init, TypeOK, Statuses, Places, Unread
<1>2. TypeOK /\ [Next]_vars => TypeOK'
  <2> SUFFICES ASSUME TypeOK, [Next]_vars PROVE TypeOK'
    OBVIOUS
  <2> USE DEF TypeOK, Statuses, Places, faultVars
  <2>1. CASE UNCHANGED vars
    BY <2>1 DEF vars, rowVars, procVars, pubVars
  <2>2. ASSUME NEW e \in Events, Create(e) \/ Elapse(e) \/ LeaseExpire(e) PROVE TypeOK'
    <3>1. faults' \in Nat /\ losses' \in Nat
      BY <2>2 DEF Create, Elapse, LeaseExpire, Spend
    <3> QED BY <2>2, <3>1 DEF Create, Elapse, LeaseExpire, procVars, pubVars
  <2>3. ASSUME NEW d \in Dispatchers,
               Select(d) \/ AcquireCommit(d) \/ AcquireRollback(d) \/ AcquireUnseen(d)
        PROVE  TypeOK'
    <3>1. CASE Select(d)
      <4>1. Oldest(Due(d), BatchSize) \subseteq Events
        BY DEF Oldest, Due
      <4> QED BY <3>1, <4>1 DEF Select, rowVars, pubVars
    <3>2. CASE AcquireCommit(d)
      BY <3>2 DEF AcquireCommit, TakeRows, pubVars
    <3>3. CASE AcquireRollback(d)
      <4>1. faults' \in Nat /\ losses' \in Nat
        BY <3>3 DEF AcquireRollback, CallFails, Spend
      <4> QED BY <3>3, <4>1 DEF AcquireRollback, rowVars, pubVars
    <3>4. CASE AcquireUnseen(d)
      BY <3>4 DEF AcquireUnseen, TakeRows, Spend, pubVars
    <3> QED BY <2>3, <3>1, <3>2, <3>3, <3>4
  <2>4. ASSUME NEW d \in Dispatchers, NEW e \in Events, PublishOk(d, e) \/ PublishErr(d, e)
        PROVE  TypeOK'
    <3>1. faults' \in Nat /\ losses' \in Nat /\ delivered' \subseteq Events
      BY <2>4 DEF PublishOk, PublishErr, CallFails, Spend
    <3>2. CASE PublishOk(d, e)
      BY <3>1, <3>2 DEF PublishOk, rowVars
    <3>3. CASE PublishErr(d, e)
      BY <3>1, <3>3 DEF PublishErr, rowVars
    <3> QED BY <2>4, <3>2, <3>3
  <2>5. ASSUME NEW d \in Dispatchers, NEW e \in Events,
               MarkPublished(d, e) \/ MarkFailed(d, e) \/ MarkLost(d, e)
        PROVE  TypeOK'
    <3>1. Advance(d, e)
      BY <2>5 DEF MarkPublished, MarkFailed, MarkLost
    <3>2. /\ (batch \in [Dispatchers -> SUBSET Events])'
          /\ (seen \in [Dispatchers -> [Events -> Nat]])'
          /\ (pc \in [Dispatchers -> Places])'
      BY <3>1 DEF Advance
    <3>3. (faults \in Nat /\ losses \in Nat)'
      BY <2>5 DEF MarkPublished, MarkFailed, MarkLost, CallFails, Spend
    <3>4. CASE MarkPublished(d, e)
      BY <3>1, <3>2, <3>3, <3>4 DEF MarkPublished, Advance, pubVars
    <3>5. CASE MarkFailed(d, e)
      BY <3>1, <3>2, <3>3, <3>5 DEF MarkFailed, Advance, AttemptsAfter, pubVars
    <3>6. CASE MarkLost(d, e)
      BY <3>1, <3>2, <3>3, <3>6 DEF MarkLost, Advance, rowVars, pubVars
    <3> QED BY <2>5, <3>4, <3>5, <3>6
  <2>6. ASSUME NEW d \in Dispatchers, Life(d) PROVE TypeOK'
    <3>1. CASE Stop(d)
      BY <3>1 DEF Stop, Spend, rowVars, pubVars
    <3>2. CASE Exit(d)
      BY <3>2 DEF Exit, rowVars, pubVars
    <3>3. CASE Crash(d)
      BY <3>3 DEF Crash, Spend, Unread, rowVars, pubVars
    <3>4. CASE Restart(d)
      BY <3>4 DEF Restart, rowVars, pubVars
    <3>5. CASE ChannelClose(d)
      BY <3>5 DEF ChannelClose, Spend, rowVars, pubVars
    <3>6. CASE NextTask(d)
      BY <3>6 DEF NextTask, rowVars, pubVars
    <3> QED BY <2>6, <3>1, <3>2, <3>3, <3>4, <3>5, <3>6 DEF Life
  <2> QED BY <2>1, <2>2, <2>3, <2>4, <2>5, <2>6 DEF Next, Work
<1> QED BY <1>1, <1>2, PTL DEF Spec

-----------------------------------------------------------------------------
(* Evidence is inductive: no interleaving of dispatchers and faults breaks *)
(* the count of failures behind an attempts column or a "published" row.   *)
LEMMA EvidenceInit == Init => Evidence
BY ConfigAssumption DEF Init, Evidence, RowEvidence, BatchEvidence, LockEvidence,
   PublishedWasSent, Settled, Current, Unread

LEMMA EvidenceStep == TypeOK /\ Evidence /\ [Next]_vars => Evidence'
<1> SUFFICES ASSUME TypeOK, Evidence, [Next]_vars PROVE Evidence'
  OBVIOUS
<1> USE ConfigAssumption DEF TypeOK, Evidence, RowEvidence, BatchEvidence, LockEvidence,
        PublishedWasSent, Settled, Current, faultVars
<1>1. CASE UNCHANGED vars
  BY <1>1 DEF vars, rowVars, procVars, pubVars
<1>2. ASSUME NEW e \in Events, Create(e) PROVE Evidence'
  BY <1>2 DEF Create, procVars, pubVars
<1>3. ASSUME NEW e \in Events, Elapse(e) PROVE Evidence'
  BY <1>3 DEF Elapse, procVars, pubVars
<1>4. ASSUME NEW e \in Events, LeaseExpire(e) PROVE Evidence'
  BY <1>4 DEF LeaseExpire, procVars, pubVars
<1>5. ASSUME NEW d \in Dispatchers, Select(d) PROVE Evidence'
  <2>1. Oldest(Due(d), BatchSize) \subseteq {e \in Events : status[e] \in {"pending", "publishing"}}
    BY DEF Oldest, Due
  <2> QED BY <1>5, <2>1 DEF Select, rowVars, pubVars
<1>6. ASSUME NEW d \in Dispatchers, AcquireCommit(d) PROVE Evidence'
  BY <1>6 DEF AcquireCommit, TakeRows, pubVars
<1>7. ASSUME NEW d \in Dispatchers, AcquireRollback(d) PROVE Evidence'
  BY <1>7 DEF AcquireRollback, rowVars, pubVars
<1>8. ASSUME NEW d \in Dispatchers, AcquireUnseen(d) PROVE Evidence'
  BY <1>8 DEF AcquireUnseen, TakeRows, pubVars
<1>9. ASSUME NEW d \in Dispatchers, NEW e \in Events, PublishOk(d, e) PROVE Evidence'
  <2>1. RowEvidence'
    BY <1>9 DEF PublishOk, rowVars
  <2>2. BatchEvidence'
    <3>1. ASSUME NEW x \in Events, Current(d, x) PROVE x = e
      BY <1>9, <3>1, EventsAssumption DEF PublishOk
    <3> QED BY <1>9, <3>1 DEF PublishOk, rowVars
  <2>3. LockEvidence'
    BY <1>9 DEF PublishOk, rowVars
  <2> QED BY <2>1, <2>2, <2>3
<1>10. ASSUME NEW d \in Dispatchers, NEW e \in Events, PublishErr(d, e) PROVE Evidence'
  <2>1. RowEvidence'
    BY <1>10 DEF PublishErr, rowVars
  <2>2. BatchEvidence'
    <3>1. ASSUME NEW x \in Events, Current(d, x) PROVE x = e
      BY <1>10, <3>1, EventsAssumption DEF PublishErr
    <3> QED BY <1>10, <3>1 DEF PublishErr, rowVars
  <2>3. LockEvidence'
    BY <1>10 DEF PublishErr, rowVars
  <2> QED BY <2>1, <2>2, <2>3
<1>11. ASSUME NEW d \in Dispatchers, NEW e \in Events, MarkPublished(d, e) PROVE Evidence'
  BY <1>11 DEF MarkPublished, Advance, CanUpdate, LockedByOthers, pubVars
<1>12. ASSUME NEW d \in Dispatchers, NEW e \in Events, MarkFailed(d, e) PROVE Evidence'
  <2>1. RowEvidence'
    <3>0. seen[d][e] \in Nat /\ failures[e] \in Nat /\ MaxAttempts \in Nat
      OBVIOUS
    <3>1. /\ seen[d][e] \in Nat
          /\ seen[d][e] + 1 <= failures[e]
          /\ seen[d][e] + 1 <= MaxAttempts
      <4>1. seen[d][e] < failures[e] /\ seen[d][e] < MaxAttempts
        BY <1>12 DEF MarkFailed
      <4> QED BY <3>0, <4>1
    <3>2. /\ attempts' = [attempts EXCEPT ![e] = seen[d][e] + 1]
          /\ status' = [status EXCEPT ![e] =
                          IF seen[d][e] + 1 >= MaxAttempts THEN "dead" ELSE "pending"]
          /\ sent' = sent /\ failures' = failures
      BY <1>12 DEF MarkFailed, Advance, AttemptsAfter, Exhausted, pubVars
    <3>3. PublishedWasSent'
      BY <3>2
    <3>4. ASSUME NEW x \in Events
          PROVE  /\ attempts'[x] <= failures'[x] /\ attempts'[x] <= MaxAttempts
                 /\ status'[x] = "dead" => attempts'[x] = MaxAttempts
                 /\ status'[x] \notin {"published", "dead"} => attempts'[x] < MaxAttempts
      <4>1. CASE x = e
        <5>1. attempts'[e] = seen[d][e] + 1 /\ failures'[e] = failures[e]
          BY <3>2
        <5>2. status'[e] = IF seen[d][e] + 1 >= MaxAttempts THEN "dead" ELSE "pending"
          BY <3>2
        <5>3. IF seen[d][e] + 1 >= MaxAttempts THEN seen[d][e] + 1 = MaxAttempts
                                              ELSE seen[d][e] + 1 < MaxAttempts
          BY <3>0, <3>1
        <5> QED BY <3>1, <4>1, <5>1, <5>2, <5>3
      <4>2. CASE x # e
        <5>1. attempts'[x] = attempts[x] /\ status'[x] = status[x] /\ failures'[x] = failures[x]
          BY <3>2, <4>2
        <5> QED BY <5>1
      <4> QED BY <4>1, <4>2
    <3> QED BY <3>3, <3>4
  <2>2. BatchEvidence'
    BY <1>12 DEF MarkFailed, Advance, pubVars
  <2>3. LockEvidence'
    <3>1. ASSUME NEW o \in Dispatchers PROVE e \notin rowLocks[o]
      BY <1>12 DEF MarkFailed, CanUpdate, LockedByOthers
    <3>2. /\ rowLocks' = rowLocks
          /\ \A o \in Dispatchers : pc'[o] = "acquiring" <=> pc[o] = "acquiring"
          /\ \A x \in Events \ {e} : status'[x] = status[x]
      BY <1>12 DEF MarkFailed, Advance
    <3> QED BY <3>1, <3>2
  <2> QED BY <2>1, <2>2, <2>3
<1>13. ASSUME NEW d \in Dispatchers, NEW e \in Events, MarkLost(d, e) PROVE Evidence'
  BY <1>13 DEF MarkLost, Advance, rowVars, pubVars
<1>14. ASSUME NEW d \in Dispatchers, Stop(d) PROVE Evidence'
  BY <1>14 DEF Stop, rowVars, pubVars
<1>15. ASSUME NEW d \in Dispatchers, Exit(d) PROVE Evidence'
  BY <1>15 DEF Exit, rowVars, pubVars
<1>16. ASSUME NEW d \in Dispatchers, Crash(d) PROVE Evidence'
  BY <1>16 DEF Crash, rowVars, pubVars, Unread
<1>17. ASSUME NEW d \in Dispatchers, Restart(d) PROVE Evidence'
  BY <1>17 DEF Restart, rowVars, pubVars
<1>18. ASSUME NEW d \in Dispatchers, ChannelClose(d) PROVE Evidence'
  BY <1>18 DEF ChannelClose, rowVars, pubVars
<1>19. ASSUME NEW d \in Dispatchers, NextTask(d) PROVE Evidence'
  BY <1>19 DEF NextTask, rowVars, pubVars
<1> QED
  BY <1>1, <1>2, <1>3, <1>4, <1>5, <1>6, <1>7, <1>8, <1>9, <1>10, <1>11, <1>12,
     <1>13, <1>14, <1>15, <1>16, <1>17, <1>18, <1>19 DEF Next, Work, Life

(* Evidence holds in every reachable state, whatever faults happen.        *)
THEOREM EvidenceHolds == Spec => []Evidence
<1> QED BY EvidenceInit, EvidenceStep, TypeCorrect, PTL DEF Spec

(* A "published" row was sent: dispatchEvent calls MarkPublished only      *)
(* after its own Publish returned nil.                                     *)
THEOREM PublishedWasSentHolds == Spec => []PublishedWasSent
<1>1. Evidence => PublishedWasSent
  BY DEF Evidence, RowEvidence
<1> QED BY <1>1, EvidenceHolds, PTL

(* A "dead" row had max_attempts real failures, even when dispatchers      *)
(* overwrite each other's attempts with stale snapshots.                   *)
THEOREM DeadOnlyWhenExhaustedHolds == Spec => []DeadOnlyWhenExhausted
<1>1. TypeOK /\ Evidence => DeadOnlyWhenExhausted
  BY ConfigAssumption DEF TypeOK, Evidence, RowEvidence, DeadOnlyWhenExhausted
<1> QED BY <1>1, TypeCorrect, EvidenceHolds, PTL

-----------------------------------------------------------------------------
(* Ownership is inductive when no lease is outrun by its holder.           *)
LEMMA OwnershipInit == Init => Ownership
BY DEF Init, Ownership, ExclusiveHolder

LEMMA OwnershipStep ==
  ASSUME "slow" \notin Faults, TypeOK, Evidence, Ownership, [Next]_vars
  PROVE  Ownership'
<1> USE DEF TypeOK, Ownership, ExclusiveHolder, faultVars
<1>1. CASE UNCHANGED vars
  BY <1>1 DEF vars, rowVars, procVars
<1>2. ASSUME NEW e \in Events, Create(e) PROVE Ownership'
  BY <1>2 DEF Create, procVars
<1>3. ASSUME NEW e \in Events, Elapse(e) PROVE Ownership'
  BY <1>3 DEF Elapse, procVars
<1>4. ASSUME NEW e \in Events, LeaseExpire(e) PROVE Ownership'
  <2>1. \A d \in Dispatchers : e \notin batch[d]
    BY <1>4 DEF LeaseExpire, Held, Spend
  <2> QED BY <1>4, <2>1 DEF LeaseExpire, procVars
<1>5. ASSUME NEW d \in Dispatchers, Select(d) PROVE Ownership'
  <2>1. /\ Oldest(Due(d), BatchSize) \subseteq Due(d)
        /\ \A e \in Due(d) : /\ e \in Events
                             /\ status[e] = "publishing" => ~leased[e]
                             /\ \A o \in Dispatchers \ {d} : e \notin rowLocks[o]
    BY DEF Oldest, Due, LockedByOthers
  <2>2. \A o \in Dispatchers \ {d}, e \in Due(d) : e \notin batch[o]
    BY <2>1
  <2> QED BY <1>5, <2>1, <2>2 DEF Select, rowVars
<1>6. ASSUME NEW d \in Dispatchers, AcquireCommit(d) PROVE Ownership'
  BY <1>6 DEF AcquireCommit, TakeRows
<1>7. ASSUME NEW d \in Dispatchers, AcquireRollback(d) PROVE Ownership'
  BY <1>7 DEF AcquireRollback, rowVars
<1>8. ASSUME NEW d \in Dispatchers, AcquireUnseen(d) PROVE Ownership'
  BY <1>8 DEF AcquireUnseen, TakeRows
<1>9. ASSUME NEW d \in Dispatchers, NEW e \in Events, PublishOk(d, e) PROVE Ownership'
  BY <1>9 DEF PublishOk, rowVars
<1>10. ASSUME NEW d \in Dispatchers, NEW e \in Events, PublishErr(d, e) PROVE Ownership'
  BY <1>10 DEF PublishErr, rowVars
<1>11. ASSUME NEW d \in Dispatchers, NEW e \in Events, MarkPublished(d, e) PROVE Ownership'
  BY <1>11 DEF MarkPublished, Advance, Current
<1>12. ASSUME NEW d \in Dispatchers, NEW e \in Events, MarkFailed(d, e) PROVE Ownership'
  BY <1>12 DEF MarkFailed, Advance, Current
<1>13. ASSUME NEW d \in Dispatchers, NEW e \in Events, MarkLost(d, e) PROVE Ownership'
  BY <1>13 DEF MarkLost, Advance, Current, rowVars
<1>14. ASSUME NEW d \in Dispatchers, Stop(d) PROVE Ownership'
  BY <1>14 DEF Stop, rowVars
<1>15. ASSUME NEW d \in Dispatchers, Exit(d) PROVE Ownership'
  BY <1>15 DEF Exit, rowVars
<1>16. ASSUME NEW d \in Dispatchers, Crash(d) PROVE Ownership'
  BY <1>16 DEF Crash, rowVars
<1>17. ASSUME NEW d \in Dispatchers, Restart(d) PROVE Ownership'
  BY <1>17 DEF Restart, rowVars
<1>18. ASSUME NEW d \in Dispatchers, ChannelClose(d) PROVE Ownership'
  BY <1>18 DEF ChannelClose, rowVars
<1>19. ASSUME NEW d \in Dispatchers, NextTask(d) PROVE Ownership'
  BY <1>19 DEF NextTask, rowVars
<1> QED
  BY <1>1, <1>2, <1>3, <1>4, <1>5, <1>6, <1>7, <1>8, <1>9, <1>10, <1>11, <1>12,
     <1>13, <1>14, <1>15, <1>16, <1>17, <1>18, <1>19 DEF Next, Work, Life

THEOREM OwnershipHolds == ASSUME "slow" \notin Faults PROVE Spec => []Ownership
<1>1. TypeOK /\ Evidence /\ Ownership /\ [Next]_vars => Ownership'
  BY OwnershipStep
<1> QED BY <1>1, OwnershipInit, TypeCorrect, EvidenceHolds, PTL DEF Spec

(* SKIP LOCKED, the "publishing" status and the lease hand an event to one *)
(* dispatcher at a time, provided no batch outruns its lease.              *)
THEOREM ExclusiveHolderHolds ==
  ASSUME "slow" \notin Faults PROVE Spec => []ExclusiveHolder
<1>1. Ownership => ExclusiveHolder
  BY DEF Ownership
<1> QED BY <1>1, OwnershipHolds, PTL

-----------------------------------------------------------------------------
(* The balance of Publish calls is kept: one case per group of actions,    *)
(* and what each does to the calls in flight and to the charged ones.      *)
LEMMA CallsStep ==
  ASSUME "slow" \notin Faults, TypeOK, Evidence, Ownership, CallsCounted, [Next]_vars
  PROVE  CallsCounted'
<1> USE DEF TypeOK, faultVars
<1>0. /\ \A c, d \in Dispatchers, e \in Events : e \in batch[c] /\ e \in batch[d] => c = d
      /\ \A d \in Dispatchers : pc[d] \in {"down", "idle", "acquiring"} => batch[d] = {}
      /\ \A d \in Dispatchers : \A e \in batch[d] : status[e] = "publishing" /\ seen[d][e] = attempts[e]
  BY DEF Ownership, ExclusiveHolder
<1>1. \A d \in Dispatchers : \A e \in rowLocks[d] : status[e] # "published"
  BY DEF Evidence, LockEvidence
<1>2. \A d \in Dispatchers, x, e \in Events : Current(d, e) /\ Current(d, x) => x = e
  BY EventsAssumption DEF Current
<1>3. ASSUME UNCHANGED <<calls, attempts, losses>>,
             \A e \in Events : /\ Charged(e)' => Charged(e)
                               /\ InFlight(e) => InFlight(e)'
                               /\ status[e] = "published" <=> status'[e] = "published"
      PROVE  CallsCounted'
  <2>1. ASSUME NEW e \in Events
        PROVE  /\ calls[e] + One(Charged(e)') <=
                    attempts[e] + losses + One(InFlight(e)' \/ status'[e] = "published")
               /\ status'[e] = "published" => attempts[e] < MaxAttempts
    <3>1. /\ Charged(e)' => Charged(e)
          /\ InFlight(e) => InFlight(e)'
          /\ status[e] = "published" <=> status'[e] = "published"
      BY <1>3
    <3>2. calls[e] \in Nat /\ attempts[e] \in Nat /\ losses \in Nat
      OBVIOUS
    <3> QED BY <3>1, <3>2 DEF CallsCounted, One
  <2> QED BY <1>3, <2>1 DEF CallsCounted
<1>4. CASE UNCHANGED vars
  BY <1>3, <1>4 DEF vars, rowVars, procVars, pubVars, Charged, InFlight, Current
<1>5. ASSUME NEW e \in Events, Create(e) \/ Elapse(e) \/ LeaseExpire(e) PROVE CallsCounted'
  <2>1. UNCHANGED <<calls, attempts, losses, pc, batch, cancelled>>
    <3>1. CASE Create(e) \/ Elapse(e)
      BY <3>1 DEF Create, Elapse, procVars, pubVars
    <3>2. CASE LeaseExpire(e)
      <4>1. UNCHANGED faultVars
        BY <3>2 DEF LeaseExpire, Spend
      <4> QED BY <3>2, <4>1 DEF LeaseExpire, procVars, pubVars
    <3> QED BY <1>5, <3>1, <3>2
  <2>2. \A x \in Events : status[x] = "published" <=> status'[x] = "published"
    BY <1>5 DEF Create, Elapse, LeaseExpire
  <2> QED BY <1>3, <2>1, <2>2 DEF Charged, InFlight, Current
<1>6. ASSUME NEW d \in Dispatchers, Select(d) \/ AcquireRollback(d) \/ AcquireUnseen(d)
      PROVE  CallsCounted'
  <2>1. /\ UNCHANGED <<calls, attempts, losses, batch, cancelled>>
        /\ batch[d] = {} /\ \A c \in Dispatchers \ {d} : pc'[c] = pc[c]
    BY <1>0, <1>6 DEF Select, AcquireRollback, AcquireUnseen, TakeRows, CallFails, Spend, rowVars, pubVars
  <2>2. \A x \in Events : status[x] = "published" <=> status'[x] = "published"
    BY <1>1, <1>6 DEF Select, AcquireRollback, AcquireUnseen, TakeRows, rowVars
  <2> QED BY <1>3, <2>1, <2>2 DEF Charged, InFlight, Current
<1>7. ASSUME NEW d \in Dispatchers, AcquireCommit(d) PROVE CallsCounted'
  <2>1. /\ UNCHANGED <<calls, attempts, losses, cancelled>> /\ ~cancelled[d] /\ batch[d] = {}
        /\ \A c \in Dispatchers \ {d} : pc'[c] = pc[c] /\ batch'[c] = batch[c]
    BY <1>0, <1>7 DEF AcquireCommit, TakeRows, pubVars
  <2>2. \A x \in Events : status[x] = "published" <=> status'[x] = "published"
    BY <1>1, <1>7 DEF AcquireCommit, TakeRows
  <2> QED BY <1>3, <2>1, <2>2 DEF Charged, InFlight, Current
<1>8. ASSUME NEW d \in Dispatchers, NEW e \in Events, PublishOk(d, e) \/ PublishErr(d, e)
      PROVE  CallsCounted'
  <2>1. /\ pc[d] = "publishing" /\ Current(d, e) /\ pc'[d] \in {"markPublished", "markFailed"}
        /\ UNCHANGED <<attempts, status, batch, cancelled>>
        /\ \A c \in Dispatchers \ {d} : pc'[c] = pc[c]
        /\ losses' = losses
        /\ calls' = [calls EXCEPT ![e] = @ + 1]
    BY <1>8 DEF PublishOk, PublishErr, CallFails, Spend, rowVars
  <2>2. ~InFlight(e) /\ status[e] = "publishing"
    BY <1>0, <2>1 DEF InFlight, Current
  <2>3. \A x \in Events : Charged(x)' <=> Charged(x)
    BY <2>1 DEF Charged
  <2>4. \A x \in Events : InFlight(x) => InFlight(x)'
    BY <2>1 DEF InFlight, Current
  <2>5. InFlight(e)'
    BY <2>1 DEF InFlight, Current
  <2> QED BY <2>1, <2>2, <2>3, <2>4, <2>5 DEF CallsCounted, One
<1>9. ASSUME NEW d \in Dispatchers, NEW e \in Events, Current(d, e), Advance(d, e),
             pc[d] \in {"markPublished", "markFailed"}
      PROVE  /\ calls' = calls /\ status[e] = "publishing" /\ InFlight(e)
             /\ ~Charged(e)' /\ ~InFlight(e)' /\ (cancelled[d] => Charged(e))
             /\ \A x \in Events \ {e} : (Charged(x)' => Charged(x)) /\ (InFlight(x) => InFlight(x)')
  <2>1. /\ UNCHANGED <<calls, cancelled>> /\ pc'[d] \in {"idle", "publishing"}
        /\ batch'[d] = batch[d] \ {e}
        /\ \A c \in Dispatchers \ {d} : pc'[c] = pc[c] /\ batch'[c] = batch[c]
    BY <1>9 DEF Advance, pubVars
  <2>2. e \in batch[d] /\ \A c \in Dispatchers \ {d} : e \notin batch[c] /\ e \notin batch'[c]
    BY <1>0, <1>9, <2>1 DEF Current
  <2>3. ~Charged(e)' /\ ~InFlight(e)' /\ (cancelled[d] => Charged(e)) /\ InFlight(e)
    BY <1>9, <2>1, <2>2 DEF Charged, InFlight, Current
  <2>4. ASSUME NEW x \in Events \ {e} PROVE (Charged(x)' => Charged(x)) /\ (InFlight(x) => InFlight(x)')
    <3>1. ~Current(d, x)
      BY <1>2, <1>9
    <3> QED BY <2>1, <3>1 DEF Charged, InFlight, Current
  <2> QED BY <1>0, <2>1, <2>2, <2>3, <2>4
<1>10. ASSUME NEW d \in Dispatchers, NEW e \in Events, MarkPublished(d, e) PROVE CallsCounted'
  <2>1. /\ Current(d, e) /\ Advance(d, e) /\ pc[d] = "markPublished"
        /\ UNCHANGED <<attempts, losses>>
        /\ status'[e] = "published" /\ \A x \in Events \ {e} : status'[x] = status[x]
    BY <1>10 DEF MarkPublished
  <2>2. attempts[e] < MaxAttempts
    BY <1>9, <2>1 DEF Evidence, RowEvidence, Settled
  <2> QED BY <1>9, <2>1, <2>2 DEF CallsCounted, One
<1>11. ASSUME NEW d \in Dispatchers, NEW e \in Events, MarkFailed(d, e) PROVE CallsCounted'
  <2>1. /\ Current(d, e) /\ Advance(d, e) /\ pc[d] = "markFailed"
        /\ losses' = losses /\ seen[d][e] = attempts[e]
        /\ attempts'[e] = attempts[e] + 1 /\ \A x \in Events \ {e} : attempts'[x] = attempts[x]
        /\ status'[e] # "published" /\ \A x \in Events \ {e} : status'[x] = status[x]
    BY <1>0, <1>11 DEF MarkFailed, AttemptsAfter, Current
  <2> QED BY <1>9, <2>1 DEF CallsCounted, One
<1>12. ASSUME NEW d \in Dispatchers, NEW e \in Events, MarkLost(d, e) PROVE CallsCounted'
  <2>1. /\ Current(d, e) /\ Advance(d, e) /\ pc[d] \in {"markPublished", "markFailed"}
        /\ UNCHANGED <<attempts, status>>
        /\ (cancelled[d] /\ losses' = losses) \/ losses' = losses + 1
    BY <1>12 DEF MarkLost, CallFails, Spend, rowVars
  <2>2. CASE losses' = losses + 1
    <3> SUFFICES ASSUME NEW x \in Events
                 PROVE  /\ calls[x] + One(Charged(x)') <=
                             attempts[x] + losses + 1 + One(InFlight(x)' \/ status[x] = "published")
                        /\ status[x] = "published" => attempts[x] < MaxAttempts
      BY <1>9, <2>1, <2>2 DEF CallsCounted, One
    <3>1. calls[x] \in Nat /\ attempts[x] \in Nat /\ losses \in Nat
      OBVIOUS
    <3>2. CASE x = e
      BY <1>9, <2>1, <3>1, <3>2 DEF CallsCounted, One
    <3>3. CASE x # e
      BY <1>9, <2>1, <3>1, <3>3 DEF CallsCounted, One
    <3> QED BY <3>2, <3>3
  <2>3. CASE cancelled[d] /\ losses' = losses
    <3> SUFFICES ASSUME NEW x \in Events
                 PROVE  /\ calls[x] + One(Charged(x)') <=
                             attempts[x] + losses + One(InFlight(x)' \/ status[x] = "published")
                        /\ status[x] = "published" => attempts[x] < MaxAttempts
      BY <1>9, <2>1, <2>3 DEF CallsCounted, One
    <3>1. calls[x] \in Nat /\ attempts[x] \in Nat /\ losses \in Nat
      OBVIOUS
    <3>2. CASE x = e
      BY <1>9, <2>1, <2>3, <3>1, <3>2 DEF CallsCounted, One
    <3>3. CASE x # e
      BY <1>9, <2>1, <2>3, <3>1, <3>3 DEF CallsCounted, One
    <3> QED BY <3>2, <3>3
  <2> QED BY <2>1, <2>2, <2>3
<1>13. ASSUME NEW d \in Dispatchers, Stop(d) \/ Crash(d) PROVE CallsCounted'
  <2>1. /\ UNCHANGED <<calls, attempts, status>> /\ losses' = losses + 1
        /\ \A c \in Dispatchers \ {d} : /\ pc'[c] = pc[c] /\ batch'[c] = batch[c]
                                       /\ cancelled'[c] = cancelled[c]
    BY <1>13 DEF Stop, Crash, Spend, rowVars, pubVars
  <2> SUFFICES ASSUME NEW e \in Events
               PROVE  calls[e] + One(Charged(e)') <=
                        attempts[e] + losses + 1 + One(InFlight(e)' \/ status[e] = "published")
    BY <2>1 DEF CallsCounted, One
  <2>2. /\ calls[e] + One(Charged(e)) <= attempts[e] + losses + One(InFlight(e) \/ status[e] = "published")
        /\ \A b \in BOOLEAN : One(b) \in {0, 1}
        /\ Charged(e) \in BOOLEAN /\ Charged(e)' \in BOOLEAN
        /\ InFlight(e) \in BOOLEAN /\ InFlight(e)' \in BOOLEAN
    BY DEF CallsCounted, One, Charged, InFlight
  <2>3. calls[e] \in Nat /\ attempts[e] \in Nat /\ losses \in Nat
    OBVIOUS
  <2>4. CASE Stop(d)
    <3>1. InFlight(e) => InFlight(e)'
      BY <2>4 DEF Stop, InFlight, Current
    <3> QED BY <2>2, <2>3, <3>1 DEF One
  <2>5. CASE Crash(d)
    <3>1. batch'[d] = {} /\ cancelled' = cancelled
      BY <2>5 DEF Crash
    <3>2. Charged(e)' => Charged(e)
      BY <2>1, <3>1 DEF Charged
    <3> QED BY <2>2, <2>3, <3>2 DEF One
  <2> QED BY <1>13, <2>4, <2>5
<1>14. ASSUME NEW d \in Dispatchers, Exit(d) \/ NextTask(d) \/ Restart(d) \/ ChannelClose(d)
       PROVE  CallsCounted'
  <2>1. CASE ChannelClose(d)
    BY <1>3, <2>1 DEF ChannelClose, Spend, rowVars, pubVars, Charged, InFlight, Current
  <2>2. CASE Exit(d) \/ NextTask(d) \/ Restart(d)
    <3>1. /\ batch[d] = {} /\ UNCHANGED <<calls, attempts, losses, status, batch>>
          /\ \A c \in Dispatchers \ {d} : pc'[c] = pc[c] /\ cancelled'[c] = cancelled[c]
      BY <1>0, <2>2 DEF Exit, NextTask, Restart, rowVars, pubVars
    <3> QED BY <1>3, <3>1 DEF Charged, InFlight, Current
  <2> QED BY <1>14, <2>1, <2>2
<1> QED
  BY <1>4, <1>5, <1>6, <1>7, <1>8, <1>10, <1>11, <1>12, <1>13, <1>14 DEF Next, Work, Life

(* DispatchOnce calls Publish for an event no more than max_attempts times *)
(* and once for each loss: a row that has not been settled has an attempt  *)
(* to spare, so the bound holds also for the call that is under way.       *)
THEOREM PublishesBoundedHolds ==
  ASSUME "slow" \notin Faults PROVE Spec => []PublishesBounded
<1>1. Init => CallsCounted
  BY DEF Init, CallsCounted, One, Charged, InFlight
<1>2. TypeOK /\ Evidence /\ Ownership /\ CallsCounted /\ [Next]_vars => CallsCounted'
  BY CallsStep
<1>3. TypeOK /\ Evidence /\ Ownership /\ CallsCounted => PublishesBounded
  <2> SUFFICES ASSUME TypeOK, Evidence, Ownership, CallsCounted, NEW e \in Events
               PROVE  calls[e] <= MaxAttempts + losses
    BY DEF PublishesBounded
  <2> USE ConfigAssumption DEF TypeOK, CallsCounted, One
  <2>1. CASE status[e] = "dead"
    <3>1. ~InFlight(e) /\ attempts[e] = MaxAttempts
      BY <2>1 DEF InFlight, Current, Ownership, Evidence, RowEvidence
    <3> QED BY <2>1, <3>1
  <2>2. CASE status[e] # "dead"
    <3>1. attempts[e] < MaxAttempts
      BY <2>2 DEF Evidence, RowEvidence, Settled
    <3> QED BY <3>1
  <2> QED BY <2>1, <2>2
<1> QED BY <1>1, <1>2, <1>3, OwnershipHolds, TypeCorrect, EvidenceHolds, PTL DEF Spec

-----------------------------------------------------------------------------
(* What one step does to a row, the shape both action properties need.     *)
LEMMA RowStep ==
  ASSUME "slow" \notin Faults, TypeOK, Evidence, Ownership, [Next]_vars,
         NEW e \in Events
  PROVE  /\ Settled(e) => status'[e] = status[e]
         /\ attempts'[e] \in {attempts[e], attempts[e] + 1}
<1> USE DEF TypeOK, Settled, faultVars
<1>1. CASE UNCHANGED <<status, attempts>>
  BY <1>1
<1>2. ASSUME NEW x \in Events, Create(x) \/ Elapse(x) \/ LeaseExpire(x)
      PROVE  /\ Settled(e) => status'[e] = status[e]
             /\ attempts'[e] \in {attempts[e], attempts[e] + 1}
  BY <1>2 DEF Create, Elapse, LeaseExpire
<1>3. ASSUME NEW d \in Dispatchers, AcquireCommit(d) \/ AcquireUnseen(d)
      PROVE  /\ Settled(e) => status'[e] = status[e]
             /\ attempts'[e] \in {attempts[e], attempts[e] + 1}
  <2>1. e \in rowLocks[d] => ~Settled(e)
    BY DEF Evidence, LockEvidence
  <2> QED BY <1>3, <2>1 DEF AcquireCommit, AcquireUnseen, TakeRows
<1>4. ASSUME NEW d \in Dispatchers, NEW x \in Events, MarkPublished(d, x) \/ MarkFailed(d, x)
      PROVE  /\ Settled(e) => status'[e] = status[e]
             /\ attempts'[e] \in {attempts[e], attempts[e] + 1}
  <2>1. status[x] = "publishing" /\ seen[d][x] = attempts[x]
    BY <1>4 DEF MarkPublished, MarkFailed, Current, Ownership
  <2>2. CASE MarkPublished(d, x)
    BY <2>1, <2>2 DEF MarkPublished
  <2>3. CASE MarkFailed(d, x)
    BY <2>1, <2>3 DEF MarkFailed, AttemptsAfter
  <2> QED BY <1>4, <2>2, <2>3
<1>5. ASSUME NEW d \in Dispatchers,
             \/ Select(d) \/ AcquireRollback(d) \/ Life(d)
             \/ \E x \in Events : PublishOk(d, x) \/ PublishErr(d, x) \/ MarkLost(d, x)
      PROVE  UNCHANGED <<status, attempts>>
  BY <1>5 DEF Select, AcquireRollback, Life, Stop, Exit, NextTask, Crash, Restart, ChannelClose,
              PublishOk, PublishErr, MarkLost, rowVars
<1> QED BY <1>1, <1>2, <1>3, <1>4, <1>5 DEF Next, Work, vars, rowVars

(* Although MarkPublished and MarkFailed are not fenced, no late update    *)
(* reopens a settled event while leases are not outrun.                    *)
THEOREM SettledIsFinalHolds ==
  ASSUME "slow" \notin Faults PROVE Spec => SettledIsFinal
<1>1. TypeOK /\ Evidence /\ Ownership /\ [Next]_vars
        => [\A e \in Events : status[e] \in {"published", "dead"} => status'[e] = status[e]]_vars
  BY RowStep DEF Settled
<1> QED BY <1>1, TypeCorrect, EvidenceHolds, OwnershipHolds, PTL DEF Spec, SettledIsFinal

(* The attempts column counts failures one at a time: MarkFailed writes    *)
(* snapshot + 1, and the snapshot is current while leases are not outrun.  *)
THEOREM AttemptsCountUpHolds ==
  ASSUME "slow" \notin Faults PROVE Spec => AttemptsCountUp
<1>1. TypeOK /\ Evidence /\ Ownership /\ [Next]_vars
        => [\A e \in Events : attempts'[e] \in {attempts[e], attempts[e] + 1}]_vars
  BY RowStep
<1> QED BY <1>1, TypeCorrect, EvidenceHolds, OwnershipHolds, PTL DEF Spec, AttemptsCountUp

-----------------------------------------------------------------------------
(* Every step of the outbox is a step of EventDelivery or a stutter.       *)
LEMMA DeliveryInit == Init => Delivery!Init
BY DEF Init, Outcome, Delivery!Init

LEMMA DeliveryStep ==
  ASSUME "slow" \notin Faults, TypeOK, Evidence, Ownership, [Next]_vars
  PROVE  [Delivery!Next]_(Delivery!deliveryVars)
<1> DEFINE mapped == [e \in Events |-> Outcome(status[e])]
<1> USE DEF TypeOK, Delivery!deliveryVars, faultVars
<1>1. CASE UNCHANGED <<status, pubVars>>
  BY <1>1 DEF pubVars
<1>2. ASSUME NEW e \in Events, Create(e) PROVE Delivery!Next
  <2>1. mapped[e] = "absent" /\ mapped' = [mapped EXCEPT ![e] = "recorded"]
    BY <1>2 DEF Create, Outcome
  <2> QED BY <1>2, <2>1 DEF Create, pubVars, Delivery!Next, Delivery!Record
<1>3. ASSUME NEW d \in Dispatchers, AcquireCommit(d) \/ AcquireUnseen(d)
      PROVE  mapped' = mapped /\ UNCHANGED pubVars
  <2>1. \A e \in rowLocks[d] : Outcome(status[e]) = "recorded"
    BY DEF Evidence, LockEvidence, Outcome
  <2>2. Outcome("publishing") = "recorded"
    BY DEF Outcome
  <2>3. status' = [e \in Events |-> IF e \in rowLocks[d] THEN "publishing" ELSE status[e]]
    BY <1>3 DEF AcquireCommit, AcquireUnseen, TakeRows
  <2>4. \A e \in Events : Outcome(status'[e]) = Outcome(status[e])
    BY <2>1, <2>2, <2>3
  <2> QED BY <1>3, <2>4 DEF AcquireCommit, AcquireUnseen
<1>4. ASSUME NEW d \in Dispatchers, NEW e \in Events,
             PublishOk(d, e) \/ PublishErr(d, e) \/ MarkPublished(d, e) \/ MarkFailed(d, e)
      PROVE  mapped[e] = "recorded"
  <2>1. status[e] = "publishing"
    BY <1>4 DEF PublishOk, PublishErr, MarkPublished, MarkFailed, Current, Ownership
  <2> QED BY <2>1 DEF Outcome
<1>5. ASSUME NEW d \in Dispatchers, NEW e \in Events, PublishOk(d, e) PROVE Delivery!Next
  BY <1>4, <1>5 DEF PublishOk, rowVars, Delivery!Next, Delivery!AttemptSucceeds
<1>6. ASSUME NEW d \in Dispatchers, NEW e \in Events, PublishErr(d, e) PROVE Delivery!Next
  BY <1>4, <1>6 DEF PublishErr, rowVars, Delivery!Next, Delivery!AttemptFails
<1>7. ASSUME NEW d \in Dispatchers, NEW e \in Events, MarkPublished(d, e) PROVE Delivery!Next
  <2>1. mapped' = [mapped EXCEPT ![e] = "published"]
    BY <1>7 DEF MarkPublished, Outcome
  <2>2. e \in sent
    BY <1>7 DEF MarkPublished, Evidence, BatchEvidence
  <2> QED BY <1>4, <1>7, <2>1, <2>2 DEF MarkPublished, Advance, pubVars, Delivery!Next,
                                     Delivery!Publish, Delivery!Settle
<1>8. ASSUME NEW d \in Dispatchers, NEW e \in Events, MarkFailed(d, e)
      PROVE  [Delivery!Next]_(Delivery!deliveryVars)
  <2>1. CASE Exhausted(AttemptsAfter(d, e))
    <3>1. mapped' = [mapped EXCEPT ![e] = "dead"]
      BY <1>8, <2>1 DEF MarkFailed, Outcome
    <3>2. seen[d][e] \in Nat /\ failures[e] \in Nat /\ seen[d][e] < failures[e]
      BY <1>8 DEF MarkFailed, Evidence, BatchEvidence
    <3>3. failures[e] >= MaxAttempts
      BY <2>1, <3>2, ConfigAssumption DEF Exhausted, AttemptsAfter
    <3> QED BY <1>4, <1>8, <3>1, <3>3 DEF MarkFailed, Advance, pubVars, Delivery!Next,
                                       Delivery!GiveUp, Delivery!Settle
  <2>2. CASE ~Exhausted(AttemptsAfter(d, e))
    <3>1. status' = [status EXCEPT ![e] = "pending"] /\ status[e] = "publishing"
      BY <1>8, <2>2 DEF MarkFailed, Current, Ownership
    <3>2. mapped' = mapped
      BY <3>1 DEF Outcome
    <3> QED BY <1>8, <3>2 DEF MarkFailed, Advance, pubVars
  <2> QED BY <2>1, <2>2
<1>9. ASSUME NEW e \in Events, Elapse(e) \/ LeaseExpire(e) PROVE UNCHANGED <<status, pubVars>>
  BY <1>9 DEF Elapse, LeaseExpire
<1>10. ASSUME NEW d \in Dispatchers,
              \/ Select(d) \/ AcquireRollback(d) \/ Life(d)
              \/ \E x \in Events : MarkLost(d, x)
       PROVE  UNCHANGED <<status, pubVars>>
  BY <1>10 DEF Select, AcquireRollback, Life, Stop, Exit, NextTask, Crash, Restart, ChannelClose,
               MarkLost, Advance, rowVars
<1> QED
  <2>1. CASE UNCHANGED vars
    BY <1>1, <2>1 DEF vars, rowVars
  <2> QED BY <1>1, <1>2, <1>3, <1>5, <1>6, <1>7, <1>8, <1>9, <1>10, <2>1
          DEF Next, Work, pubVars

(* The table, the dispatchers and the broker implement what the outbox     *)
(* promises of each event, under every fault but an outrun lease.          *)
THEOREM OutboxImplementsDelivery ==
  ASSUME "slow" \notin Faults PROVE Spec => DeliverySpec
<1>1. TypeOK /\ Evidence /\ Ownership /\ [Next]_vars
        => [Delivery!Next]_(Delivery!deliveryVars)
  BY DeliveryStep
<1> QED BY <1>1, DeliveryInit, TypeCorrect, EvidenceHolds, OwnershipHolds, PTL
        DEF Spec, DeliverySpec, Delivery!Spec

-----------------------------------------------------------------------------
(* Sent once.                                                              *)

Steady == Faults \cap {"mark", "stop", "crash", "slow"} = {}

LEMMA SentStep ==
  ASSUME Steady, TypeOK, Evidence, Ownership, SentIsMarked, [Next]_vars
  PROVE  SentIsMarked' /\ \A d \in Dispatchers, e \in Events : PublishOk(d, e) => e \notin sent
<1> USE DEF TypeOK, SentIsMarked, Current, faultVars
<1>0. \A c, d \in Dispatchers, e \in Events : e \in batch[c] /\ e \in batch[d] \cup rowLocks[d] => c = d
  BY DEF Ownership, ExclusiveHolder
<1>1. \A d \in Dispatchers : \A e \in batch[d] : status[e] = "publishing"
  BY DEF Ownership
<1>2. \A d \in Dispatchers : \A e \in rowLocks[d] : status[e] \in {"pending", "publishing"}
  BY DEF Evidence, LockEvidence
<1>3. ASSUME NEW d \in Dispatchers, NEW e \in Events, e \in batch[d], pc[d] # "markPublished"
      PROVE  e \notin sent
  BY <1>0, <1>1, <1>3
<1>4. ASSUME NEW d \in Dispatchers, NEW e \in Events, e \in rowLocks[d], pc[d] = "acquiring"
      PROVE  e \notin sent
  BY <1>0, <1>2, <1>4
<1>5. \A d \in Dispatchers, e \in Events : PublishOk(d, e) => e \notin sent
  BY <1>3 DEF PublishOk
<1>6. CASE UNCHANGED vars
  BY <1>5, <1>6 DEF vars, rowVars, procVars, pubVars
<1>7. ASSUME NEW e \in Events, Create(e) \/ Elapse(e) \/ LeaseExpire(e) PROVE SentIsMarked'
  BY <1>7 DEF Create, Elapse, LeaseExpire, procVars, pubVars
<1>8. ASSUME NEW d \in Dispatchers, Select(d) \/ AcquireRollback(d) PROVE SentIsMarked'
  BY <1>8 DEF Select, AcquireRollback, rowVars, pubVars
<1>9. ASSUME NEW d \in Dispatchers, AcquireCommit(d) \/ AcquireUnseen(d) PROVE SentIsMarked'
  <2>1. /\ pc[d] = "acquiring" /\ TakeRows(rowLocks[d])
        /\ \A c \in Dispatchers \ {d} : pc'[c] = pc[c] /\ batch'[c] = batch[c]
        /\ UNCHANGED <<sent, cancelled>>
    BY <1>9 DEF AcquireCommit, AcquireUnseen, pubVars
  <2>2. \A e \in sent : status'[e] = status[e]
    BY <1>4, <2>1 DEF TakeRows
  <2> QED
    BY <2>1, <2>2
<1>10. ASSUME NEW d \in Dispatchers, NEW e \in Events, PublishOk(d, e) PROVE SentIsMarked'
  BY <1>10 DEF PublishOk, rowVars
<1>11. ASSUME NEW d \in Dispatchers, NEW e \in Events, PublishErr(d, e) PROVE SentIsMarked'
  BY <1>11 DEF PublishErr, rowVars
<1>12. ASSUME NEW d \in Dispatchers, NEW e \in Events, MarkPublished(d, e) PROVE SentIsMarked'
  <2>1. /\ status'[e] = "published" /\ \A x \in Events \ {e} : status'[x] = status[x]
        /\ \A c \in Dispatchers \ {d} : pc'[c] = pc[c] /\ batch'[c] = batch[c]
        /\ UNCHANGED <<sent, cancelled>>
    BY <1>12 DEF MarkPublished, Advance, pubVars
  <2>2. \A x \in Events : Current(d, x) => x = e
    BY <1>12, EventsAssumption DEF MarkPublished
  <2> QED
    BY <2>1, <2>2
<1>13. ASSUME NEW d \in Dispatchers, NEW e \in Events, MarkFailed(d, e) PROVE SentIsMarked'
  <2>1. /\ pc[d] = "markFailed" /\ e \in batch[d] /\ \A x \in Events \ {e} : status'[x] = status[x]
        /\ \A c \in Dispatchers \ {d} : pc'[c] = pc[c] /\ batch'[c] = batch[c]
        /\ UNCHANGED <<sent, cancelled>>
    BY <1>13 DEF MarkFailed, Advance, pubVars
  <2>2. e \notin sent
    BY <1>3, <2>1
  <2> QED
    BY <2>1, <2>2
<1>14. ASSUME NEW d \in Dispatchers, NEW e \in Events, MarkLost(d, e) PROVE FALSE
  BY <1>14 DEF MarkLost, CallFails, Spend, Steady
<1>15. ASSUME NEW d \in Dispatchers, Life(d) PROVE SentIsMarked'
  <2>1. ~Stop(d) /\ ~Crash(d) /\ ~Exit(d) /\ ~NextTask(d)
    BY DEF Stop, Crash, Exit, NextTask, Spend, Steady
  <2>2. CASE Restart(d)
    BY <2>2 DEF Restart, rowVars, pubVars
  <2>3. CASE ChannelClose(d)
    BY <2>3 DEF ChannelClose, rowVars, pubVars
  <2> QED
    BY <1>15, <2>1, <2>2, <2>3 DEF Life
<1> QED
  BY <1>5, <1>6, <1>7, <1>8, <1>9, <1>10, <1>11, <1>12, <1>13, <1>14, <1>15 DEF Next, Work

(* A second publication after a successful one has a cause: an update that *)
(* failed, a dispatcher cancelled or dead before it, or an outrun lease.   *)
THEOREM SentOnceHolds == ASSUME Steady PROVE Spec => SentOnce
<1>1. Init => SentIsMarked
  BY DEF Init, SentIsMarked
<1>2. TypeOK /\ Evidence /\ Ownership /\ SentIsMarked /\ [Next]_vars =>
        SentIsMarked' /\ [\A d \in Dispatchers, e \in Events : PublishOk(d, e) => e \notin sent]_vars
  BY SentStep
<1>3. Spec => []Ownership
  BY OwnershipHolds DEF Steady
<1> QED
  BY <1>1, <1>2, <1>3, TypeCorrect, EvidenceHolds, PTL DEF Spec, SentOnce
=============================================================================
