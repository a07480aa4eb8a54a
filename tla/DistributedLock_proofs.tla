----------------------- MODULE DistributedLock_proofs -----------------------
(***************************************************************************)
(* Mutual exclusion of the Redis lock for any number of clients and every  *)
(* choice of durations that satisfies TaskFitsLease or WatchdogInTime.     *)
(***************************************************************************)
EXTENDS DistributedLock, TLAPS

LEMMA IntervalPositive == Interval \in Nat \ {0}
BY DurationAssumption DEF Interval

-----------------------------------------------------------------------------
(* Types of the key, of the clients' and watchdogs' places and timers, and *)
(* of the requests that calls given up have left behind.                   *)
LEMMA CallTypes == ASSUME NEW call \in Calls PROVE call[1] \in {"setnx", "renew", "release"} /\ call[2] \in Tokens
BY DEF Calls

LEMMA GiveUpType ==
  ASSUME late \subseteq Calls, NEW k \in {"setnx", "renew", "release"},
         NEW t \in Tokens, GiveUp(k, t)
  PROVE  late' \subseteq Calls
BY DEF GiveUp, Calls

LEMMA ServeType ==
  ASSUME TypeOK, NEW call \in Calls, Serve(call)
  PROVE  (key \in Tokens \cup {None})' /\ (left \in 0..TTL)' /\ (key # None => left > 0)'
<1> USE DurationAssumption DEF TypeOK
<1>1. CASE call[1] = "setnx"
  BY <1>1, CallTypes DEF Serve, SetNX, lockVars
<1>2. CASE call[1] = "renew"
  BY <1>2, CallTypes DEF Serve, Renew, lockVars
<1>3. CASE call[1] = "release"
  BY <1>3, CallTypes DEF Serve, Delete, lockVars
<1> QED BY <1>1, <1>2, <1>3, CallTypes

(* WithLock's return leaves its client typed, whatever happened before.    *)
LEMMA DoneType ==
  ASSUME TypeOK, NEW c \in Clients, Done(c)
  PROVE  /\ (phase \in [Clients -> Phases])' /\ (token \in [Clients -> Tokens \cup {None}])'
         /\ (age \in [Clients -> Nat])' /\ (cancelled \in [Clients -> BOOLEAN])'
         /\ (timer \in [Clients -> Nat])' /\ (dog \in [Clients -> Dogs])'
         /\ (dogAge \in [Clients -> Nat])'
         /\ \A d \in Clients : (phase[d] # "idle" \/ dog[d] # "off" => token[d] # None)'
BY DEF TypeOK, Done, Phases, Dogs

THEOREM TypeCorrect == Spec => []TypeOK
<1> USE DurationAssumption, NoneAssumption DEF TypeOK
<1>1. Init => TypeOK
  BY DEF Init, Phases, Dogs
<1>2. TypeOK /\ [Next]_vars => TypeOK'
  <2> SUFFICES ASSUME TypeOK, [Next]_vars PROVE TypeOK'
    OBVIOUS
  <2>1. CASE UNCHANGED vars
    BY <2>1 DEF vars, lockVars, dogVars, clientVars
  <2>2. CASE Tick
    <3>1. (left \in 0..TTL)' /\ (key \in Tokens \cup {None})' /\ (key # None => left > 0)'
      BY <2>2 DEF Tick
    <3>2. /\ (age \in [Clients -> Nat])' /\ (timer \in [Clients -> Nat])'
          /\ (dogAge \in [Clients -> Nat])'
      BY <2>2 DEF Tick
    <3> QED BY <2>2, <3>1, <3>2 DEF Tick
  <2>3. CASE ServeLate
    BY <2>3, ServeType DEF ServeLate, clientVars, dogVars
  <2>4. CASE LoseLate
    BY <2>4 DEF LoseLate, lockVars, clientVars, dogVars
  <2>5. ASSUME NEW c \in Clients, Start(c) PROVE TypeOK'
    BY <2>5 DEF Start, lockVars, dogVars, Phases
  <2>6. ASSUME NEW c \in Clients, Grant(c) PROVE TypeOK'
    BY <2>6 DEF Grant, SetNX, lockVars, dogVars, Phases
  <2>7. ASSUME NEW c \in Clients, Refuse(c) PROVE TypeOK'
    BY <2>7, DoneType DEF Refuse, lockVars
  <2>8. ASSUME NEW c \in Clients, Enter(c) PROVE TypeOK'
    BY <2>8 DEF Enter, lockVars, Phases, Dogs
  <2>9. ASSUME NEW c \in Clients, RenewSend(c) \/ Renewed(c) PROVE TypeOK'
    BY <2>9 DEF RenewSend, Renewed, lockVars, clientVars, Dogs
  <2>10. ASSUME NEW c \in Clients, RenewServe(c) PROVE TypeOK'
    BY <2>10 DEF RenewServe, Renew, lockVars, clientVars, Dogs
  <2>11. ASSUME NEW c \in Clients, Leave(c) PROVE TypeOK'
    BY <2>11 DEF Leave, lockVars, dogVars, Phases
  <2>12. ASSUME NEW c \in Clients, StopWatchdog(c) PROVE TypeOK'
    BY <2>12 DEF StopWatchdog, lockVars, Phases, Dogs
  <2>13. ASSUME NEW c \in Clients, Release(c) PROVE TypeOK'
    BY <2>13, DoneType DEF Release, Delete, lockVars
  <2>14. ASSUME NEW c \in Clients, AcquireFails(c) PROVE TypeOK'
    <3>1. late' \subseteq Calls
      BY <2>14, GiveUpType DEF AcquireFails
    <3> QED BY <2>14, <3>1, DoneType DEF AcquireFails, lockVars
  <2>15. ASSUME NEW c \in Clients, RenewFails(c) PROVE TypeOK'
    <3>1. late' \subseteq Calls
      BY <2>15, GiveUpType DEF RenewFails
    <3> QED BY <2>15, <3>1 DEF RenewFails, CancelFn, lockVars, Dogs
  <2>16. ASSUME NEW c \in Clients, ReleaseFails(c) PROVE TypeOK'
    <3>1. late' \subseteq Calls
      BY <2>16, GiveUpType DEF ReleaseFails
    <3> QED BY <2>16, <3>1, DoneType DEF ReleaseFails, lockVars
  <2>17. ASSUME NEW c \in Clients, Crash(c) PROVE TypeOK'
    <3>1. late' \subseteq Calls
      BY <2>17, GiveUpType DEF Crash
    <3> QED BY <2>17, <3>1, DoneType DEF Crash, lockVars
  <2> QED
    BY <2>1, <2>2, <2>3, <2>4, <2>5, <2>6, <2>7, <2>8, <2>9, <2>10, <2>11, <2>12,
       <2>13, <2>14, <2>15, <2>16, <2>17 DEF Next, Progress
<1> QED BY <1>1, <1>2, PTL DEF Spec

-----------------------------------------------------------------------------
(* Tokens: two acquisitions never share one, and no late SETNX or release  *)
(* carries the token of an acquisition that is still running.              *)
LEMMA TokensStep == TypeOK /\ TokensUnique /\ [Next]_vars => TokensUnique'
<1> SUFFICES ASSUME TypeOK, TokensUnique, [Next]_vars PROVE TokensUnique'
  OBVIOUS
<1> USE DEF TypeOK, TokensUnique
<1>1. CASE UNCHANGED <<token, late>>
  BY <1>1
<1>2. CASE ServeLate \/ LoseLate
  BY <1>2 DEF ServeLate, LoseLate, clientVars
<1>3. ASSUME NEW c \in Clients, Start(c) PROVE TokensUnique'
  BY <1>3, NoneAssumption DEF Start, Fresh
<1>4. ASSUME NEW c \in Clients, Done(c), late' = late PROVE TokensUnique'
  <2>1. \A d \in Clients : token'[d] = token[d] \/ token'[d] = None
    BY <1>4 DEF Done
  <2>2. \A call \in late : call[2] # None
    BY NoneAssumption, CallTypes
  <2> QED BY <1>4, <2>1, <2>2
<1>5. ASSUME NEW c \in Clients, phase[c] # "idle" \/ dog[c] # "off", Done(c),
             NEW k \in {"setnx", "renew", "release"}, GiveUp(k, token[c])
      PROVE  TokensUnique'
  <2>1. late' \subseteq late \cup {<<k, token[c]>>}
    BY <1>5 DEF GiveUp
  <2>2. token'[c] = None /\ \A d \in Clients \ {c} : token'[d] = token[d]
    BY <1>5 DEF Done
  <2>3. token[c] # None /\ \A d \in Clients \ {c} : token[d] # token[c]
    BY <1>5
  <2>4. \A call \in late : call[2] # None
    BY NoneAssumption, CallTypes
  <2> QED BY <2>1, <2>2, <2>3, <2>4
<1>6. ASSUME NEW c \in Clients, RenewFails(c) PROVE TokensUnique'
  <2>1. token' = token /\ late' \subseteq late \cup {<<"renew", token[c]>>}
    BY <1>6 DEF RenewFails, CancelFn, GiveUp
  <2> QED BY <2>1
<1>7. ASSUME NEW c \in Clients, Refuse(c) \/ Release(c) PROVE TokensUnique'
  BY <1>4, <1>7 DEF Refuse, Release
<1>8. ASSUME NEW c \in Clients, AcquireFails(c) \/ ReleaseFails(c) \/ Crash(c)
      PROVE  TokensUnique'
  <2>1. Done(c) /\ (phase[c] # "idle" \/ dog[c] # "off")
    BY <1>8 DEF AcquireFails, ReleaseFails, Crash
  <2>2. \/ late' = late
        \/ \E k \in {"setnx", "renew", "release"} : GiveUp(k, token[c])
    BY <1>8 DEF AcquireFails, ReleaseFails, Crash
  <2> QED BY <1>4, <1>5, <2>1, <2>2
<1>9. ASSUME NEW c \in Clients,
             \/ Grant(c) \/ Enter(c) \/ RenewSend(c) \/ RenewServe(c) \/ Renewed(c)
             \/ Leave(c) \/ StopWatchdog(c)
      PROVE  UNCHANGED <<token, late>>
  BY <1>9 DEF Grant, Enter, RenewSend, RenewServe, Renewed, Leave, StopWatchdog, clientVars
<1>10. CASE Tick
  BY <1>1, <1>10 DEF Tick
<1> QED BY <1>1, <1>2, <1>3, <1>6, <1>7, <1>8, <1>9, <1>10 DEF Next, Progress, vars, clientVars

THEOREM TokensUniqueHolds == Spec => []TokensUnique
<1>1. Init => TokensUnique
  BY DEF Init, TokensUnique
<1> QED BY <1>1, TokensStep, TypeCorrect, PTL DEF Spec

-----------------------------------------------------------------------------
(* Ages: how long each wait can be when Tick respects the timeouts.        *)
LEMMA AgeStep == TypeOK /\ AgeBounds /\ [Next]_vars => AgeBounds'
<1> SUFFICES ASSUME TypeOK, AgeBounds, [Next]_vars PROVE AgeBounds'
  OBVIOUS
<1> USE DurationAssumption, WatchdogAssumption DEF TypeOK, AgeBounds
<1>1. CASE UNCHANGED <<clientVars, dogVars>>
  BY <1>1 DEF clientVars, dogVars
<1>2. CASE Tick
  BY <1>2 DEF Tick, MayWait, Busy
<1>3. CASE ServeLate \/ LoseLate
  BY <1>1, <1>3 DEF ServeLate, LoseLate
<1>4. ASSUME NEW c \in Clients, Done(c) PROVE AgeBounds'
  BY <1>4 DEF Done
<1>5. ASSUME NEW c \in Clients, Start(c) \/ Grant(c) PROVE AgeBounds'
  BY <1>5 DEF Start, Grant, dogVars
<1>6. ASSUME NEW c \in Clients, Enter(c) PROVE AgeBounds'
  BY <1>6 DEF Enter
<1>7. ASSUME NEW c \in Clients, RenewSend(c) \/ RenewServe(c) \/ Renewed(c) PROVE AgeBounds'
  BY <1>7 DEF RenewSend, RenewServe, Renewed, clientVars
<1>8. ASSUME NEW c \in Clients, RenewFails(c) PROVE AgeBounds'
  BY <1>8 DEF RenewFails, CancelFn
<1>9. ASSUME NEW c \in Clients, Leave(c) \/ StopWatchdog(c) PROVE AgeBounds'
  BY <1>9 DEF Leave, StopWatchdog, dogVars
<1>10. ASSUME NEW c \in Clients,
              \/ Refuse(c) \/ AcquireFails(c) \/ Release(c) \/ ReleaseFails(c) \/ Crash(c)
       PROVE  Done(c)
  BY <1>10 DEF Refuse, AcquireFails, Release, ReleaseFails, Crash
<1> QED BY <1>1, <1>2, <1>3, <1>4, <1>5, <1>6, <1>7, <1>8, <1>9, <1>10
        DEF Next, Progress, vars

THEOREM AgeBoundsHold == Spec => []AgeBounds
<1>1. Init => AgeBounds
  BY DurationAssumption DEF Init, AgeBounds
<1> QED BY <1>1, AgeStep, TypeCorrect, PTL DEF Spec

-----------------------------------------------------------------------------
(* A key held by a running client is not touched by anybody else.          *)
LEMMA OthersLeaveKey ==
  ASSUME TypeOK, TokensUnique, NEW c \in Clients, phase[c] # "idle", key = token[c],
         NEW t \in Tokens, t # token[c], SetNX(t) \/ Renew(t) \/ Delete(t)
  PROVE  UNCHANGED lockVars
BY NoneAssumption DEF TypeOK, SetNX, Renew, Delete, lockVars

LEMMA LateLeavesKey ==
  ASSUME TypeOK, TokensUnique, ServeLate, NEW c \in Clients, phase[c] # "idle", key = token[c]
  PROVE  key' = key /\ left' \in Nat /\ left' >= left
<1>1. PICK call \in late : Serve(call)
  BY DEF ServeLate
<1>2. /\ call \in Calls
      /\ call[1] # "renew" => call[2] # token[c]
  BY <1>1 DEF TypeOK, TokensUnique
<1>3. key # None
  BY DEF TypeOK
<1> USE DurationAssumption DEF TypeOK, lockVars
<1>4. CASE call[1] = "setnx"
  BY <1>1, <1>3, <1>4 DEF Serve, SetNX
<1>5. CASE call[1] = "renew"
  BY <1>1, <1>5 DEF Serve, Renew
<1>6. CASE call[1] = "release"
  BY <1>1, <1>2, <1>6 DEF Serve, Delete
<1> QED BY <1>2, <1>4, <1>5, <1>6, CallTypes

-----------------------------------------------------------------------------
(* WithLock: the lease a client acquired outlives its age.                 *)
LEMMA TaskLeaseStep ==
  ASSUME TaskFitsLease, TypeOK, TokensUnique, AgeBounds, TaskLease, [Next]_vars
  PROVE  TaskLease'
<1> DEFINE Holds(c) == phase[c] \in {"granted", "critical"}
<1> USE DurationAssumption, NoneAssumption DEF TypeOK, TaskLease, TaskFitsLease
<1>1. CASE UNCHANGED <<lockVars, phase, token, age>>
  BY <1>1 DEF lockVars
<1>2. CASE Tick
  <2>1. ASSUME NEW c \in Clients, Holds(c)
        PROVE  /\ left >= 2 /\ key' = key /\ left' = left - 1 /\ age'[c] = age[c] + 1
    <3>1. age[c] < TaskTimeout + Linger
      BY <1>2, <2>1 DEF Tick, MayWait
    <3> QED BY <1>2, <2>1, <3>1 DEF Tick, Busy
  <2> QED BY <1>2, <2>1 DEF Tick
<1>3. CASE ServeLate
  <2>1. \A c \in Clients : Holds(c) => key' = key /\ left' \in Nat /\ left' >= left
    BY <1>3, LateLeavesKey
  <2> QED BY <1>3, <2>1 DEF ServeLate, clientVars
<1>4. CASE LoseLate
  BY <1>1, <1>4 DEF LoseLate, clientVars
<1>5. ASSUME NEW c \in Clients, Done(c), UNCHANGED lockVars PROVE TaskLease'
  BY <1>5 DEF Done, lockVars
<1>6. ASSUME NEW c \in Clients, Grant(c) PROVE TaskLease'
  BY <1>6 DEF Grant, Vacant, SetNX
<1>7. ASSUME NEW c \in Clients, Release(c) PROVE TaskLease'
  <2>1. \A d \in Clients : Holds(d) => UNCHANGED lockVars
    BY <1>7, OthersLeaveKey DEF Release, TokensUnique
  <2> QED BY <1>7, <2>1 DEF Release, Done, lockVars
<1>8. ASSUME NEW c \in Clients, Start(c) \/ Enter(c) \/ Leave(c) \/ StopWatchdog(c)
      PROVE  TaskLease'
  BY <1>8 DEF Start, Enter, Leave, StopWatchdog, lockVars
<1>9. ASSUME NEW c \in Clients, RenewSend(c) \/ RenewServe(c) \/ Renewed(c) \/ RenewFails(c)
      PROVE  TaskLease'
  BY <1>9 DEF RenewSend, RenewServe, Renewed, RenewFails, AgeBounds
<1>10. ASSUME NEW c \in Clients, Refuse(c) \/ AcquireFails(c) \/ ReleaseFails(c) \/ Crash(c)
       PROVE  TaskLease'
  BY <1>5, <1>10 DEF Refuse, AcquireFails, ReleaseFails, Crash
<1> QED BY <1>1, <1>2, <1>3, <1>4, <1>6, <1>7, <1>8, <1>9, <1>10
        DEF Next, Progress, vars, clientVars

THEOREM TaskLeaseHolds == ASSUME TaskFitsLease PROVE Spec => []TaskLease
<1>1. Init => TaskLease
  BY DEF Init, TaskLease
<1>2. TypeOK /\ TokensUnique /\ AgeBounds /\ TaskLease /\ [Next]_vars => TaskLease'
  BY TaskLeaseStep
<1> QED BY <1>1, <1>2, TypeCorrect, TokensUniqueHolds, AgeBoundsHold, PTL DEF Spec

-----------------------------------------------------------------------------
(* WithLockAndWatchdog: the lease left when fn runs covers the rest of the *)
(* interval, the renewal that may fail, and fn's lingering.                *)
LEMMA WatchdogLeaseStep ==
  ASSUME WatchdogInTime, TypeOK, TokensUnique, AgeBounds, WatchdogLease, [Next]_vars
  PROVE  WatchdogLease'
<1> DEFINE Holds(c) == phase[c] \in {"granted", "critical"}
<1>0. Gap \in Nat /\ Gap >= Interval /\ Gap >= CallTimeout /\ Interval \in Nat
  BY DurationAssumption, IntervalPositive DEF Gap
<1> USE <1>0, DurationAssumption, NoneAssumption DEF TypeOK, WatchdogLease, WatchdogInTime
<1>1. CASE UNCHANGED <<lockVars, clientVars, dogVars>>
  BY <1>1 DEF lockVars, clientVars, dogVars
<1>2. CASE Tick
  <2>1. ASSUME NEW c \in Clients, Holds(c) PROVE left >= 2
    BY <1>2, <2>1 DEF Tick, MayWait, Dogs
  <2>2. ASSUME NEW c \in Clients, Holds(c) PROVE key' = key /\ left' = left - 1
    BY <1>2, <2>1, <2>2 DEF Tick
  <2>3. \A c \in Clients : Holds(c) => age'[c] = age[c] + 1
    BY <1>2 DEF Tick, Busy
  <2>4. \A c \in Clients : Holds(c) => dogAge'[c] = IF dog[c] = "off" THEN dogAge[c] ELSE dogAge[c] + 1
    BY <1>2 DEF Tick
  <2>5. \A c \in Clients : phase[c] = "critical" =>
          timer'[c] = IF cancelled[c] THEN timer[c] + 1 ELSE timer[c]
    BY <1>2 DEF Tick
  <2> QED BY <1>2, <2>2, <2>3, <2>4, <2>5 DEF Tick, MayWait
<1>3. CASE ServeLate
  <2>1. \A c \in Clients : Holds(c) => key' = key /\ left' \in Nat /\ left' >= left
    BY <1>3, LateLeavesKey
  <2> QED BY <1>3, <2>1 DEF ServeLate, clientVars, dogVars
<1>4. CASE LoseLate
  BY <1>1, <1>4 DEF LoseLate
<1>5. ASSUME NEW c \in Clients, Done(c), UNCHANGED lockVars PROVE WatchdogLease'
  BY <1>5 DEF Done, lockVars
<1>6. ASSUME NEW c \in Clients, Grant(c) PROVE WatchdogLease'
  BY <1>6 DEF Grant, Vacant, SetNX, dogVars
<1>7. ASSUME NEW c \in Clients, Release(c) PROVE WatchdogLease'
  <2>1. \A d \in Clients : Holds(d) => UNCHANGED lockVars
    BY <1>7, OthersLeaveKey DEF Release, TokensUnique
  <2> QED BY <1>7, <2>1 DEF Release, Done, lockVars
<1>8. ASSUME NEW c \in Clients, Start(c) \/ Leave(c) \/ StopWatchdog(c) PROVE WatchdogLease'
  BY <1>8 DEF Start, Leave, StopWatchdog, lockVars, dogVars
<1>9. ASSUME NEW c \in Clients, Enter(c) PROVE WatchdogLease'
  BY <1>9 DEF Enter, lockVars, AgeBounds
<1>10. ASSUME NEW c \in Clients, RenewSend(c) PROVE WatchdogLease'
  BY <1>10 DEF RenewSend, lockVars, clientVars
<1>11. ASSUME NEW c \in Clients, RenewServe(c) PROVE WatchdogLease'
  <2>1. \A d \in Clients : Holds(d) => key' = key /\ left' \in Nat /\ left' >= left
    BY <1>11, OthersLeaveKey DEF RenewServe, Renew, TokensUnique, lockVars
  <2>2. phase[c] = "critical" => left' = TTL /\ dog'[c] = "renewed"
    BY <1>11 DEF RenewServe, Renew
  <2>3. \A d \in Clients \ {c} : dog'[d] = dog[d]
    BY <1>11 DEF RenewServe
  <2> QED BY <1>11, <2>1, <2>2, <2>3 DEF RenewServe, clientVars
<1>12. ASSUME NEW c \in Clients, Renewed(c) PROVE WatchdogLease'
  BY <1>12 DEF Renewed, lockVars, clientVars
<1>13. ASSUME NEW c \in Clients, RenewFails(c) PROVE WatchdogLease'
  BY <1>13 DEF RenewFails, CancelFn, lockVars, AgeBounds
<1>14. ASSUME NEW c \in Clients, Refuse(c) \/ AcquireFails(c) \/ ReleaseFails(c) \/ Crash(c)
       PROVE  WatchdogLease'
  BY <1>5, <1>14 DEF Refuse, AcquireFails, ReleaseFails, Crash
<1> QED BY <1>1, <1>2, <1>3, <1>4, <1>6, <1>7, <1>8, <1>9, <1>10, <1>11, <1>12, <1>13, <1>14
        DEF Next, Progress, vars

THEOREM WatchdogLeaseHolds == ASSUME WatchdogInTime PROVE Spec => []WatchdogLease
<1>1. Init => WatchdogLease
  BY DEF Init, WatchdogLease
<1>2. TypeOK /\ TokensUnique /\ AgeBounds /\ WatchdogLease /\ [Next]_vars => WatchdogLease'
  BY WatchdogLeaseStep
<1> QED BY <1>1, <1>2, TypeCorrect, TokensUniqueHolds, AgeBoundsHold, PTL DEF Spec

-----------------------------------------------------------------------------
(* What the lock is for: one fn at a time.  WithLock gives it if the task  *)
(* ends before the lease of its Acquire ...                                *)
THEOREM TaskMutualExclusion == ASSUME TaskFitsLease PROVE Spec => []MutualExclusion
<1>1. TypeOK /\ TokensUnique /\ TaskLease => MutualExclusion
  BY DEF TypeOK, TokensUnique, TaskLease, MutualExclusion
<1> QED BY <1>1, TypeCorrect, TokensUniqueHolds, TaskLeaseHolds, PTL

(* ... WithLockAndWatchdog if a failing renewal is noticed in time, however*)
(* long fn runs.                                                           *)
THEOREM WatchdogMutualExclusion == ASSUME WatchdogInTime PROVE Spec => []MutualExclusion
<1>1. TypeOK /\ TokensUnique /\ WatchdogLease => MutualExclusion
  BY DEF TypeOK, TokensUnique, WatchdogLease, MutualExclusion
<1> QED BY <1>1, TypeCorrect, TokensUniqueHolds, WatchdogLeaseHolds, PTL

(* The promise in WithLockAndWatchdog's comment: a live context means the  *)
(* lock is held.                                                           *)
THEOREM WatchdogProtects == ASSUME WatchdogInTime PROVE Spec => []ProtectedWhileLive
<1>1. WatchdogLease => ProtectedWhileLive
  BY DEF WatchdogLease, ProtectedWhileLive
<1> QED BY <1>1, WatchdogLeaseHolds, PTL

(* Whatever the durations: the token comparison of the two Lua scripts and *)
(* fresh tokens leave the key to its holder until it expires.              *)
THEOREM LostToExpiryOnlyHolds == Spec => LostToExpiryOnly
<1> DEFINE Loses(c) == phase[c] = "critical" /\ key = token[c] /\ key' # token[c]
<1>1. TypeOK /\ TokensUnique /\ [Next]_vars => [\A c \in Clients : Loses(c) => left = 1]_vars
  <2> SUFFICES ASSUME TypeOK, TokensUnique, Next, NEW c \in Clients, Loses(c)
               PROVE  left = 1
    BY DEF vars, lockVars
  <2>1. key # None /\ key \in Tokens
    BY DEF TypeOK
  <2>2. CASE Tick
    BY <2>1, <2>2, DurationAssumption DEF Tick, TypeOK
  <2>3. CASE ServeLate
    BY <2>3, LateLeavesKey
  <2>4. CASE UNCHANGED lockVars
    BY <2>4 DEF lockVars
  <2>5. ASSUME NEW d \in Clients, Grant(d) PROVE FALSE
    BY <2>1, <2>5 DEF Grant, Vacant
  <2>6. ASSUME NEW d \in Clients, Release(d) PROVE UNCHANGED lockVars
    <3>1. token[d] \in Tokens /\ Delete(token[d]) /\ d # c
      BY <2>6, Loses(c) DEF Release, TypeOK
    <3>2. token[d] # token[c]
      BY <3>1, NoneAssumption DEF TokensUnique
    <3>3. phase[c] # "idle" /\ key = token[c]
      OBVIOUS
    <3> QED BY <3>1, <3>2, <3>3, OthersLeaveKey
  <2>7. ASSUME NEW d \in Clients, RenewServe(d) PROVE FALSE
    BY <2>7 DEF RenewServe, Renew, lockVars
  <2>8. ASSUME NEW d \in Clients,
               \/ Start(d) \/ Crash(d) \/ Refuse(d) \/ AcquireFails(d) \/ Enter(d)
               \/ RenewSend(d) \/ Renewed(d) \/ RenewFails(d) \/ Leave(d)
               \/ StopWatchdog(d) \/ ReleaseFails(d)
        PROVE  UNCHANGED lockVars
    BY <2>8 DEF Start, Crash, Refuse, AcquireFails, Enter, RenewSend, Renewed, RenewFails,
                Leave, StopWatchdog, ReleaseFails
  <2> QED BY <2>2, <2>3, <2>4, <2>5, <2>6, <2>7, <2>8 DEF Next, Progress, LoseLate
<1> QED BY <1>1, TypeCorrect, TokensUniqueHolds, PTL DEF Spec, LostToExpiryOnly

-----------------------------------------------------------------------------
(* The refinement.  Who has the lock has its own token under the key, so   *)
(* nobody else has it, and Redis grants it to nobody else.                 *)
KeyIsHolders == \A c \in Clients : phase[c] \in {"granted", "critical"} => key = token[c]

LEMMA OneHolder ==
  ASSUME TypeOK, TokensUnique, KeyIsHolders, NEW c \in Holders
  PROVE  Holders = {c} /\ key # None
<1>1. token[c] # None
  BY DEF Holders, TypeOK
<1>2. \A d \in Holders : token[d] = token[c]
  BY DEF KeyIsHolders, Holders
<1> QED
  BY <1>1, <1>2 DEF Holders, TokensUnique, KeyIsHolders

LEMMA MutexInit == Init => Lock!Init
BY DEF Init, Lock!Init, Holders

LEMMA MutexStep ==
  ASSUME TypeOK, TokensUnique, KeyIsHolders, [Next]_vars
  PROVE  [Lock!Next]_Holders
<1> USE DEF TypeOK
<1>1. ASSUME UNCHANGED phase PROVE Holders' = Holders
  BY <1>1 DEF Holders
<1>2. CASE UNCHANGED vars \/ Tick \/ ServeLate \/ LoseLate
  BY <1>1, <1>2 DEF vars, clientVars, Tick, ServeLate, LoseLate
<1>3. ASSUME NEW c \in Clients, Grant(c) PROVE Lock!Take(c)
  <2>1. Holders = {}
    BY <1>3, OneHolder DEF Grant, Vacant
  <2>2. phase' = [phase EXCEPT ![c] = "granted"]
    BY <1>3 DEF Grant
  <2>3. Holders' = {c}
    BY <2>1, <2>2 DEF Holders
  <2> QED
    BY <2>1, <2>3 DEF Lock!Take
<1>4. ASSUME NEW c \in Clients, NEW place \in Phases \ {"granted", "critical"},
             phase' = [phase EXCEPT ![c] = place]
      PROVE  Lock!GiveBack \/ UNCHANGED Holders
  <2>1. Holders' = Holders \ {c}
    BY <1>4 DEF Holders, Phases
  <2>2. CASE c \in Holders
    <3>1. Holders = {c}
      BY <2>2, OneHolder
    <3> QED
      BY <2>1, <3>1 DEF Lock!GiveBack
  <2>3. CASE c \notin Holders
    BY <2>1, <2>3
  <2> QED
    BY <2>2, <2>3
<1>5. ASSUME NEW c \in Clients, Enter(c) PROVE UNCHANGED Holders
  BY <1>5 DEF Enter, Holders
<1>6. ASSUME NEW c \in Clients,
             RenewSend(c) \/ RenewServe(c) \/ Renewed(c) \/ RenewFails(c)
      PROVE  UNCHANGED Holders
  BY <1>1, <1>6 DEF RenewSend, RenewServe, Renewed, RenewFails, CancelFn, clientVars
<1>7. ASSUME NEW c \in Clients,
             \/ Start(c) \/ Refuse(c) \/ AcquireFails(c) \/ Leave(c) \/ StopWatchdog(c)
             \/ Release(c) \/ ReleaseFails(c) \/ Crash(c)
      PROVE  \E place \in Phases \ {"granted", "critical"} : phase' = [phase EXCEPT ![c] = place]
  <2>1. {"idle", "acquiring", "stopping", "releasing"} \subseteq Phases \ {"granted", "critical"}
    BY DEF Phases
  <2> QED
    BY <1>7, <2>1 DEF Start, Refuse, AcquireFails, Leave, StopWatchdog, Release, ReleaseFails, Crash, Done
<1> QED
  BY <1>2, <1>3, <1>4, <1>5, <1>6, <1>7 DEF Next, Progress, Lock!Next

(* WithLock is a mutex if the task ends before the lease of its Acquire.   *)
THEOREM TaskImplementsMutex == ASSUME TaskFitsLease PROVE Spec => MutexSpec
<1>1. TaskLease => KeyIsHolders
  BY DEF TaskLease, KeyIsHolders
<1> QED
  BY <1>1, MutexInit, MutexStep, TypeCorrect, TokensUniqueHolds, TaskLeaseHolds, PTL
     DEF Spec, MutexSpec, Lock!Spec

(* So is WithLockAndWatchdog, if a failing renewal is noticed in time.     *)
THEOREM WatchdogImplementsMutex == ASSUME WatchdogInTime PROVE Spec => MutexSpec
<1>1. WatchdogLease => KeyIsHolders
  BY DEF WatchdogLease, KeyIsHolders
<1> QED
  BY <1>1, MutexInit, MutexStep, TypeCorrect, TokensUniqueHolds, WatchdogLeaseHolds, PTL
     DEF Spec, MutexSpec, Lock!Spec
=============================================================================
