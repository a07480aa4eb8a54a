------------------------ MODULE AppLifecycle_proofs ------------------------
(***************************************************************************)
(* Proofs about the lifecycle of a process, for all budgets and any number *)
(* of requests: LifeInv is inductive, and the properties follow from it.   *)
(***************************************************************************)
EXTENDS AppLifecycle, TLAPS

(* The places of the cleanups.                                             *)
LEMMA Order ==
  /\ Len(CleanupOrder) = 6
  /\ CleanupOrder[1] = "mq" /\ CleanupOrder[2] = "rbac" /\ CleanupOrder[3] = "redis"
  /\ CleanupOrder[4] = "db" /\ CleanupOrder[5] = "pool" /\ CleanupOrder[6] = "tracing"
BY DEF CleanupOrder

LEMMA AtStep ==
  ASSUME TypeOK
  PROVE  /\ step \in 1..6
         /\ At("mq") => step = 1     /\ main = "cleanup"
         /\ At("rbac") => step = 2   /\ main = "cleanup"
         /\ At("redis") => step = 3  /\ main = "cleanup"
         /\ At("db") => step = 4     /\ main = "cleanup"
         /\ At("pool") => step = 5   /\ main = "cleanup"
         /\ At("tracing") => step = 6 /\ main = "cleanup"
<1>1. step \in 1..6
  BY Order DEF TypeOK
<1>2. step = 1 \/ step = 2 \/ step = 3 \/ step = 4 \/ step = 5 \/ step = 6
  BY <1>1
<1> QED
  BY <1>1, <1>2, Order DEF At

LEMMA MinimumNat == ASSUME NEW a \in Nat, NEW b \in Nat
                    PROVE  Minimum(a, b) \in Nat /\ Minimum(a, b) <= a /\ Minimum(a, b) <= b
BY DEF Minimum

-----------------------------------------------------------------------------
(* InTime is needed: the rest of the budget is no negative number.         *)
LEMMA StepType == TypeOK /\ InTime /\ [Next]_vars => TypeOK'
<1> SUFFICES ASSUME TypeOK, InTime, [Next]_vars PROVE TypeOK'
  OBVIOUS
<1>0. Len(CleanupOrder) = 6 /\ step \in 1..6
  BY Order, AtStep
<1> USE BudgetAssumption DEF TypeOK, Stages, waitVars, Connections
<1>1. CASE Serve
  BY <1>0, <1>1 DEF Serve, asynqVars, poolVars
<1>2. CASE StartFails
  BY <1>0, <1>2 DEF StartFails, Panic, asynqVars, loopVars, poolVars
<1>3. CASE ServerFails
  BY <1>0, <1>3 DEF ServerFails, Panic, asynqVars, loopVars, poolVars
<1>4. CASE Signal
  BY <1>0, <1>4, MinimumNat DEF Signal, asynqVars, loopVars, poolVars
<1>5. CASE HTTPReturns
  <2>1. clock <= TotalBudget
    BY <1>5, MinimumNat DEF HTTPReturns, InTime
  <2>2. TotalBudget - clock \in Nat
    BY <2>1
  <2>3. Remaining(WorkerBudget) \in Nat
    BY <2>2, MinimumNat DEF Remaining
  <2>4. late' \subseteq Stages
    BY <1>5 DEF HTTPReturns, Ends
  <2>5. asynq' \in {"off", "up", "asked", "stopping", "stopped"} /\ haltAt' \in Nat
    BY <1>5 DEF HTTPReturns
  <2> QED
    BY <1>0, <1>5, <2>3, <2>4, <2>5 DEF HTTPReturns, loopVars, poolVars
<1>6. CASE SchedulerReturns
  <2>1. late' \subseteq Stages
    BY <1>6 DEF SchedulerReturns, Ends
  <2> QED
    BY <1>0, <1>6, <2>1 DEF SchedulerReturns, asynqVars, poolVars
<1>7. CASE OutboxReturns
  <2>1. late' \subseteq Stages
    BY <1>7 DEF OutboxReturns, Ends
  <2> QED
    BY <1>0, <1>7, <2>1 DEF OutboxReturns, AskForLock, asynqVars, loopVars, poolVars
<1>8. CASE PoolReturns
  <2>1. late' \subseteq Stages
    BY <1>8 DEF PoolReturns
  <2>2. main' \in {"cleanup", "exited"}
    BY <1>8 DEF PoolReturns, AfterShutdown
  <2>3. /\ accepted' = accepted /\ finished' = finished
        /\ phase' \in {phase, "drained"}
    BY <1>8 DEF PoolReturns, Drained, NotDrained, Pool!Drain, poolVars
  <2> QED
    BY <1>0, <1>8, <2>1, <2>2, <2>3 DEF PoolReturns, asynqVars, loopVars
<1>9. ASSUME NEW c \in Connections, Close(c) PROVE TypeOK'
  <2>1. main' \in {"cleanup", "exited"} /\ step' \in 1..6
    BY <1>0, <1>9 DEF Close, NextCleanup
  <2> QED
    BY <1>0, <1>9, <2>1 DEF Close, asynqVars, loopVars, poolVars
<1>10. CASE StopReload
  <2>1. main' \in {"cleanup", "exited"} /\ step' \in 1..6
    BY <1>0, <1>10 DEF StopReload, NextCleanup
  <2> QED
    BY <1>0, <1>10, <2>1 DEF StopReload, asynqVars, loopVars, poolVars
<1>11. CASE PoolAlreadyClosed
  <2>1. main' \in {"cleanup", "exited"} /\ step' \in 1..6
    BY <1>0, <1>11 DEF PoolAlreadyClosed, NextCleanup
  <2> QED
    BY <1>0, <1>11, <2>1 DEF PoolAlreadyClosed, asynqVars, loopVars, poolVars
<1>12. CASE StopPool
  BY <1>0, <1>12 DEF StopPool, AskForLock, asynqVars, loopVars, poolVars
<1>13. CASE DrainReturns
  <2>1. main' \in {"cleanup", "exited"} /\ step' \in 1..6
    BY <1>0, <1>13 DEF DrainReturns, NextCleanup
  <2>2. /\ accepted' = accepted /\ finished' = finished
        /\ phase' \in {phase, "drained"}
    BY <1>13 DEF DrainReturns, Drained, NotDrained, Pool!Drain, poolVars
  <2> QED
    BY <1>0, <1>13, <2>1, <2>2 DEF DrainReturns, asynqVars, loopVars
<1>14. CASE StopTracing
  <2>1. main' \in {"cleanup", "exited"} /\ step' \in 1..6
    BY <1>0, <1>14 DEF StopTracing, NextCleanup
  <2> QED
    BY <1>0, <1>14, <2>1 DEF StopTracing, asynqVars, loopVars, poolVars
<1>15. CASE Tick
  BY <1>0, <1>15 DEF Tick, asynqVars, loopVars, poolVars
<1>16. ASSUME NEW r \in Requests, Accept(r) PROVE TypeOK'
  BY <1>0, <1>16 DEF Accept, mainVars, asynqVars, loopVars, poolVars
<1>17. ASSUME NEW r \in Requests, Submit(r) PROVE TypeOK'
  BY <1>0, <1>17 DEF Submit, Pool!Accept, mainVars, asynqVars, loopVars
<1>18. ASSUME NEW r \in Requests, Respond(r) PROVE TypeOK'
  BY <1>0, <1>18 DEF Respond, mainVars, asynqVars, loopVars, poolVars
<1>19. ASSUME NEW r \in Requests, RunJob(r) PROVE TypeOK'
  BY <1>0, <1>19 DEF RunJob, Pool!Run, mainVars, asynqVars, loopVars
<1>20. CASE TaskStart
  BY <1>0, <1>20 DEF TaskStart, mainVars, loopVars, poolVars
<1>21. CASE TaskEnd
  BY <1>0, <1>21 DEF TaskEnd, mainVars, loopVars, poolVars
<1>22. CASE Halted
  BY <1>0, <1>22 DEF Halted, mainVars, loopVars, poolVars
<1>23. CASE Dispatch
  BY <1>0, <1>23 DEF Dispatch, mainVars, asynqVars, poolVars
<1>24. CASE Dispatched
  BY <1>0, <1>24 DEF Dispatched, mainVars, asynqVars, poolVars
<1>25. CASE LoopEnds
  BY <1>0, <1>25 DEF LoopEnds, mainVars, asynqVars, poolVars
<1>26. CASE Reload
  BY <1>0, <1>26 DEF Reload, mainVars, asynqVars, loopVars, poolVars
<1>27. CASE Reloaded
  BY <1>0, <1>27 DEF Reloaded, mainVars, asynqVars, loopVars, poolVars
<1>28. CASE ClosePool
  BY <1>0, <1>28 DEF ClosePool, Pool!Stop, asynqVars, loopVars
<1>29. CASE StopServer
  BY <1>0, <1>29 DEF StopServer, mainVars, loopVars, poolVars
<1>30. CASE UNCHANGED vars
  BY <1>0, <1>30 DEF vars, mainVars, asynqVars, loopVars, poolVars
<1> QED
  BY <1>1, <1>2, <1>3, <1>4, <1>5, <1>6, <1>7, <1>8, <1>9, <1>10, <1>11, <1>12, <1>13,
     <1>14, <1>15, <1>16, <1>17, <1>18, <1>19, <1>20, <1>21, <1>22, <1>23, <1>24,
     <1>25, <1>26, <1>27, <1>28, <1>29, <1>30 DEF Next, Shutdown, Cleanup
-----------------------------------------------------------------------------
LEMMA InitLife == Init => LifeInv
BY BudgetAssumption DEF Init, Pool!Init, LifeInv, Shape, HTTPLeft, SchedulerLeft, OutboxLeft,
   PoolLeft, ReloadLeft, InTime, ExitInTime, Past, Leaving, Stages

(* One case per action, and in it one step per part that it can disturb.   *)
LEMMA StepLife == TypeOK /\ LifeInv /\ [Next]_vars => LifeInv'
<1> SUFFICES ASSUME TypeOK, LifeInv, [Next]_vars PROVE LifeInv'
  OBVIOUS
<1>0. Len(CleanupOrder) = 6 /\ step \in 1..6
  BY Order, AtStep
<1> USE BudgetAssumption DEF TypeOK, LifeInv, Stages, waitVars, Connections
<1>1. CASE Serve
  <2>1. SchedulerLeft'
    BY <1>0, <1>1
       DEF Serve, asynqVars, poolVars, SchedulerLeft, Past, Leaving,
           OutOfPatience
  <2>2. OutboxLeft'
    BY <1>0, <1>1
       DEF Serve, asynqVars, poolVars, OutboxLeft, Past, Leaving
  <2>3. Shape' /\ HTTPLeft' /\ PoolLeft' /\ ReloadLeft' /\ InTime'
    BY <1>0, <1>1
       DEF Serve, asynqVars, poolVars, Shape, PoolLeft, Past, Leaving,
           HTTPLeft, Quiet, ReloadLeft, InTime, ExitInTime, Maximum, Budget, Minimum, Remaining,
           CtxDone
  <2> QED
    BY <2>1, <2>2, <2>3
<1>2. CASE StartFails
  BY <1>0, <1>2
  DEF StartFails, Panic, asynqVars, loopVars, poolVars, Shape, PoolLeft,
           Past, Leaving, HTTPLeft, Quiet, SchedulerLeft, OutOfPatience,
           OutboxLeft, ReloadLeft, InTime, ExitInTime, Maximum, Budget, Minimum, Remaining,
           CtxDone
<1>3. CASE ServerFails
  BY <1>0, <1>3
  DEF ServerFails, Panic, asynqVars, loopVars, poolVars, Shape,
           PoolLeft, Past, Leaving, HTTPLeft, Quiet, SchedulerLeft,
           OutOfPatience, OutboxLeft, ReloadLeft, InTime, ExitInTime, Maximum, Budget, Minimum,
           Remaining, CtxDone
<1>4. CASE Signal
  <2>1. InTime'
    BY <1>0, <1>4
       DEF Signal, asynqVars, loopVars, poolVars, InTime, ExitInTime, Maximum, Shape, Budget,
           Minimum, Remaining, CtxDone
  <2>2. Shape' /\ HTTPLeft' /\ SchedulerLeft' /\ OutboxLeft' /\ PoolLeft' /\ ReloadLeft'
    BY <1>0, <1>4
       DEF Signal, asynqVars, loopVars, poolVars, Shape, PoolLeft, Past,
           Leaving, HTTPLeft, Quiet, SchedulerLeft, OutOfPatience,
           OutboxLeft, ReloadLeft
  <2> QED
    BY <2>1, <2>2
<1>5. CASE HTTPReturns
  <2>1. HTTPLeft'
    BY <1>0, <1>5
       DEF HTTPReturns, Ends, loopVars, poolVars, HTTPLeft, Past, Leaving,
           Quiet
  <2>2. SchedulerLeft'
    BY <1>0, <1>5
       DEF HTTPReturns, Ends, loopVars, poolVars, SchedulerLeft, Past,
           Leaving, OutOfPatience
  <2>3. InTime'
    BY <1>0, <1>5
       DEF HTTPReturns, Ends, loopVars, poolVars, InTime, ExitInTime, Maximum, Shape, Budget,
           Minimum, Remaining, CtxDone
  <2>4. Shape' /\ OutboxLeft' /\ PoolLeft' /\ ReloadLeft'
    BY <1>0, <1>5
       DEF HTTPReturns, Ends, loopVars, poolVars, Shape, PoolLeft, Past,
           Leaving, OutboxLeft, ReloadLeft
  <2> QED
    BY <2>1, <2>2, <2>3, <2>4
<1>6. CASE SchedulerReturns
  <2>1. SchedulerLeft'
    BY <1>0, <1>6
       DEF SchedulerReturns, Ends, asynqVars, poolVars, SchedulerLeft, Past,
           Leaving, OutOfPatience
  <2>2. OutboxLeft'
    BY <1>0, <1>6
       DEF SchedulerReturns, Ends, asynqVars, poolVars, OutboxLeft, Past,
           Leaving
  <2>3. Shape' /\ HTTPLeft' /\ PoolLeft' /\ ReloadLeft' /\ InTime'
    BY <1>0, <1>6
       DEF SchedulerReturns, Ends, asynqVars, poolVars, Shape, PoolLeft,
           Past, Leaving, HTTPLeft, Quiet, ReloadLeft, InTime, ExitInTime, Maximum, Budget,
           Minimum, Remaining, CtxDone
  <2> QED
    BY <2>1, <2>2, <2>3
<1>7. CASE OutboxReturns
  <2>1. OutboxLeft'
    BY <1>0, <1>7
       DEF OutboxReturns, Ends, AskForLock, asynqVars, loopVars, poolVars, OutboxLeft,
           Past, Leaving
  <2>2. PoolLeft'
    BY <1>0, <1>7
       DEF OutboxReturns, Ends, AskForLock, asynqVars, loopVars, poolVars, PoolLeft,
           Past, Leaving
  <2>3. Shape' /\ HTTPLeft' /\ SchedulerLeft' /\ ReloadLeft' /\ InTime'
    BY <1>0, <1>7
       DEF OutboxReturns, Ends, AskForLock, asynqVars, loopVars, poolVars, Shape,
           PoolLeft, Past, Leaving, HTTPLeft, Quiet, SchedulerLeft,
           OutOfPatience, ReloadLeft, InTime, ExitInTime, Maximum, Budget, Minimum, Remaining,
           CtxDone
  <2> QED
    BY <2>1, <2>2, <2>3
<1>8. CASE PoolReturns
  <2>1. PoolLeft'
    BY <1>0, <1>8
       DEF PoolReturns, AfterShutdown, Drained, NotDrained, Pool!Drain,
           asynqVars, loopVars, poolVars, PoolLeft, Past, Leaving
  <2>2. InTime'
    BY <1>0, <1>8
       DEF PoolReturns, AfterShutdown, Drained, NotDrained, Pool!Drain,
           asynqVars, loopVars, poolVars, InTime, ExitInTime, Maximum, Shape, Budget, Minimum,
           Remaining, CtxDone
  <2>3. Shape' /\ HTTPLeft' /\ SchedulerLeft' /\ OutboxLeft' /\ ReloadLeft'
    BY <1>0, <1>8
       DEF PoolReturns, AfterShutdown, Drained, NotDrained, Pool!Drain,
           asynqVars, loopVars, poolVars, Shape, PoolLeft, Past, Leaving,
           HTTPLeft, Quiet, SchedulerLeft, OutOfPatience, OutboxLeft,
           ReloadLeft
  <2> QED
    BY <2>1, <2>2, <2>3
<1>9. ASSUME NEW c \in Connections, Close(c) PROVE LifeInv'
  <2>1. ReloadLeft'
    BY <1>0, <1>9, AtStep
       DEF Close, NextCleanup, asynqVars, loopVars, poolVars, ReloadLeft,
           Shape
  <2>2. Shape' /\ HTTPLeft' /\ SchedulerLeft' /\ OutboxLeft' /\ PoolLeft' /\ InTime'
    BY <1>0, <1>9, AtStep
       DEF Close, NextCleanup, asynqVars, loopVars, poolVars, Shape,
           PoolLeft, Past, Leaving, HTTPLeft, Quiet, SchedulerLeft,
           OutOfPatience, OutboxLeft, InTime, ExitInTime, Maximum, Budget, Minimum, Remaining,
           CtxDone
  <2> QED
    BY <2>1, <2>2
<1>10. CASE StopReload
  <2>1. ReloadLeft'
    BY <1>0, <1>10, AtStep
       DEF StopReload, NextCleanup, asynqVars, loopVars, poolVars,
           ReloadLeft, Shape
  <2>2. Shape' /\ HTTPLeft' /\ SchedulerLeft' /\ OutboxLeft' /\ PoolLeft' /\ InTime'
    BY <1>0, <1>10, AtStep
       DEF StopReload, NextCleanup, asynqVars, loopVars, poolVars, Shape,
           PoolLeft, Past, Leaving, HTTPLeft, Quiet, SchedulerLeft,
           OutOfPatience, OutboxLeft, InTime, ExitInTime, Maximum, Budget, Minimum, Remaining,
           CtxDone
  <2> QED
    BY <2>1, <2>2
<1>11. CASE PoolAlreadyClosed
  <2>1. InTime'
    BY <1>0, <1>11, AtStep
       DEF PoolAlreadyClosed, NextCleanup, asynqVars, loopVars, poolVars,
           InTime, ExitInTime, Maximum, Shape, Budget, Minimum, Remaining, CtxDone
  <2>2. Shape' /\ HTTPLeft' /\ SchedulerLeft' /\ OutboxLeft' /\ PoolLeft' /\ ReloadLeft'
    BY <1>0, <1>11, AtStep
       DEF PoolAlreadyClosed, NextCleanup, asynqVars, loopVars, poolVars,
           Shape, PoolLeft, Past, Leaving, HTTPLeft, Quiet, SchedulerLeft,
           OutOfPatience, OutboxLeft, ReloadLeft
  <2> QED
    BY <2>1, <2>2
<1>12. CASE StopPool
  <2>1. Shape'
    BY <1>0, <1>12, AtStep
       DEF StopPool, AskForLock, asynqVars, loopVars, poolVars, Shape, PoolLeft, Past,
           Leaving
  <2>2. InTime'
    <3>1. main = "cleanup" /\ step = 5 /\ phase = "running"
      BY <1>12, AtStep DEF StopPool
    <3>2. how = "failed"
      BY <3>1 DEF Shape, PoolLeft, Past, Leaving
    <3>3. clock <= waited
      BY <3>1, <3>2 DEF InTime
    <3>4. /\ main' = "locking" /\ how' = "failed" /\ clock' = clock /\ waited' = waited
          /\ ctxEnd' = clock + PoolBudget /\ lockBy' = clock + SubmitTimeout
      BY <1>12, <3>2 DEF StopPool, AskForLock
    <3> QED
      BY <3>3, <3>4 DEF InTime, ExitInTime, Maximum
  <2>3. PoolLeft'
    BY <1>0, <1>12, AtStep
       DEF StopPool, AskForLock, asynqVars, loopVars, poolVars, PoolLeft, Past, Leaving
  <2>4. HTTPLeft' /\ SchedulerLeft' /\ OutboxLeft' /\ ReloadLeft'
    BY <1>0, <1>12, AtStep
       DEF StopPool, AskForLock, asynqVars, loopVars, poolVars, HTTPLeft, Past, Leaving,
           Quiet, SchedulerLeft, OutOfPatience, OutboxLeft, ReloadLeft,
           Shape
  <2> QED
    BY <2>1, <2>2, <2>3, <2>4
<1>13. CASE DrainReturns
  <2>1. InTime'
    BY <1>0, <1>13, AtStep
       DEF DrainReturns, NextCleanup, Drained, NotDrained, Pool!Drain,
           asynqVars, loopVars, poolVars, InTime, ExitInTime, Maximum, Shape, Budget, Minimum,
           Remaining, CtxDone
  <2>2. ReloadLeft'
    BY <1>0, <1>13, AtStep
       DEF DrainReturns, NextCleanup, Drained, NotDrained, Pool!Drain,
           asynqVars, loopVars, poolVars, ReloadLeft, Shape
  <2>3. Shape' /\ HTTPLeft' /\ SchedulerLeft' /\ OutboxLeft' /\ PoolLeft'
    BY <1>0, <1>13, AtStep
       DEF DrainReturns, NextCleanup, Drained, NotDrained, Pool!Drain,
           asynqVars, loopVars, poolVars, Shape, PoolLeft, Past, Leaving,
           HTTPLeft, Quiet, SchedulerLeft, OutOfPatience, OutboxLeft
  <2> QED
    BY <2>1, <2>2, <2>3
<1>14. CASE StopTracing
  <2>1. InTime'
    BY <1>0, <1>14, AtStep
       DEF StopTracing, NextCleanup, asynqVars, loopVars, poolVars, InTime, ExitInTime,
           Maximum, Shape, Budget, Minimum, Remaining, CtxDone
  <2>2. Shape' /\ HTTPLeft' /\ SchedulerLeft' /\ OutboxLeft' /\ PoolLeft' /\ ReloadLeft'
    BY <1>0, <1>14, AtStep
       DEF StopTracing, NextCleanup, asynqVars, loopVars, poolVars, Shape,
           PoolLeft, Past, Leaving, HTTPLeft, Quiet, SchedulerLeft,
           OutOfPatience, OutboxLeft, ReloadLeft
  <2> QED
    BY <2>1, <2>2
<1>15. CASE Tick
  <2>1. SchedulerLeft'
    BY <1>0, <1>15, AtStep
       DEF Tick, asynqVars, loopVars, poolVars, SchedulerLeft, Past, Leaving,
           OutOfPatience
  <2>2. InTime'
    <3>1. /\ clock' = clock + 1
          /\ UNCHANGED <<main, how, step, ctxEnd, lockBy>>
      BY <1>15 DEF Tick
    <3>2. Budget \in Nat /\ Minimum(HTTPBudget, TotalBudget) <= Budget
      BY DEF Budget, Minimum
    <3>3. Maximum(PoolBudget, SubmitTimeout) \in Nat
      BY DEF Maximum
    <3>4. CASE Waiting /\ ~CtxDone /\ UNCHANGED waited
      <4>1. clock < ctxEnd /\ waited' = waited
        BY <3>4 DEF CtxDone
      <4>2. main \in Stages \cup {"draining"} \/ (main = "cleanup" /\ step = 6)
        BY <3>4, AtStep DEF Waiting
      <4>3. CASE main \in Stages
        BY <3>1, <3>2, <4>1, <4>3 DEF InTime, ExitInTime, Shape
      <4>4. CASE main = "draining"
        BY <3>1, <3>3, <4>1, <4>4, SMT DEF InTime, ExitInTime, Shape, Maximum
      <4>5. CASE main = "cleanup" /\ step = 6
        BY <3>1, <3>2, <3>3, <4>1, <4>5 DEF InTime, ExitInTime, Shape
      <4> QED
        BY <4>2, <4>3, <4>4, <4>5
    <3>5. CASE main = "locking" /\ clock < lockBy /\ UNCHANGED waited
      BY <3>1, <3>2, <3>5 DEF InTime, ExitInTime, Shape, Maximum
    <3>6. CASE Blocked /\ waited' = waited + 1
      <4>1. main = "cleanup" /\ step <= 4
        BY <3>6, AtStep DEF Blocked
      <4> QED
        BY <3>1, <3>2, <3>3, <3>6, <4>1 DEF InTime, ExitInTime, Shape
    <3> QED
      BY <1>15, <3>4, <3>5, <3>6 DEF Tick
  <2>3. Shape' /\ HTTPLeft' /\ OutboxLeft' /\ PoolLeft' /\ ReloadLeft'
    BY <1>0, <1>15, AtStep
       DEF Tick, asynqVars, loopVars, poolVars, Shape, PoolLeft, Past,
           Leaving, HTTPLeft, Quiet, OutboxLeft, ReloadLeft
  <2> QED
    BY <2>1, <2>2, <2>3
<1>16. ASSUME NEW r \in Requests, Accept(r) PROVE LifeInv'
  <2>1. HTTPLeft'
    BY <1>0, <1>16
       DEF Accept, mainVars, asynqVars, loopVars, poolVars, HTTPLeft, Past,
           Leaving, Quiet
  <2>2. Shape' /\ SchedulerLeft' /\ OutboxLeft' /\ PoolLeft' /\ ReloadLeft' /\ InTime'
    BY <1>0, <1>16
       DEF Accept, mainVars, asynqVars, loopVars, poolVars, Shape, PoolLeft,
           Past, Leaving, SchedulerLeft, OutOfPatience, OutboxLeft,
           ReloadLeft, InTime, ExitInTime, Maximum, Budget, Minimum, Remaining, CtxDone
  <2> QED
    BY <2>1, <2>2
<1>17. ASSUME NEW r \in Requests, Submit(r) PROVE LifeInv'
  <2>1. PoolLeft'
    BY <1>0, <1>17
       DEF Submit, Pool!Accept, mainVars, asynqVars, loopVars, PoolLeft,
           Past, Leaving
  <2>2. Shape' /\ HTTPLeft' /\ SchedulerLeft' /\ OutboxLeft' /\ ReloadLeft' /\ InTime'
    BY <1>0, <1>17
       DEF Submit, Pool!Accept, mainVars, asynqVars, loopVars, Shape,
           PoolLeft, Past, Leaving, HTTPLeft, Quiet, SchedulerLeft,
           OutOfPatience, OutboxLeft, ReloadLeft, InTime, ExitInTime, Maximum, Budget, Minimum,
           Remaining, CtxDone
  <2> QED
    BY <2>1, <2>2
<1>18. ASSUME NEW r \in Requests, Respond(r) PROVE LifeInv'
  <2>1. HTTPLeft'
    BY <1>0, <1>18
       DEF Respond, mainVars, asynqVars, loopVars, poolVars, HTTPLeft, Past,
           Leaving, Quiet
  <2>2. Shape' /\ SchedulerLeft' /\ OutboxLeft' /\ PoolLeft' /\ ReloadLeft' /\ InTime'
    BY <1>0, <1>18
       DEF Respond, mainVars, asynqVars, loopVars, poolVars, Shape, PoolLeft,
           Past, Leaving, SchedulerLeft, OutOfPatience, OutboxLeft,
           ReloadLeft, InTime, ExitInTime, Maximum, Budget, Minimum, Remaining, CtxDone
  <2> QED
    BY <2>1, <2>2
<1>19. ASSUME NEW r \in Requests, RunJob(r) PROVE LifeInv'
  <2>1. PoolLeft'
    BY <1>0, <1>19
       DEF RunJob, Pool!Run, mainVars, asynqVars, loopVars, PoolLeft, Past,
           Leaving
  <2>2. Shape' /\ HTTPLeft' /\ SchedulerLeft' /\ OutboxLeft' /\ ReloadLeft' /\ InTime'
    BY <1>0, <1>19
       DEF RunJob, Pool!Run, mainVars, asynqVars, loopVars, Shape, PoolLeft,
           Past, Leaving, HTTPLeft, Quiet, SchedulerLeft, OutOfPatience,
           OutboxLeft, ReloadLeft, InTime, ExitInTime, Maximum, Budget, Minimum, Remaining,
           CtxDone
  <2> QED
    BY <2>1, <2>2
<1>20. CASE TaskStart
  <2>1. SchedulerLeft'
    BY <1>0, <1>20
       DEF TaskStart, mainVars, loopVars, poolVars, SchedulerLeft, Past,
           Leaving, OutOfPatience
  <2>2. Shape' /\ HTTPLeft' /\ OutboxLeft' /\ PoolLeft' /\ ReloadLeft' /\ InTime'
    BY <1>0, <1>20
       DEF TaskStart, mainVars, loopVars, poolVars, Shape, PoolLeft, Past,
           Leaving, HTTPLeft, Quiet, OutboxLeft, ReloadLeft, InTime, ExitInTime, Maximum, Budget,
           Minimum, Remaining, CtxDone
  <2> QED
    BY <2>1, <2>2
<1>21. CASE TaskEnd
  <2>1. SchedulerLeft'
    BY <1>0, <1>21
       DEF TaskEnd, mainVars, loopVars, poolVars, SchedulerLeft, Past,
           Leaving, OutOfPatience
  <2>2. Shape' /\ HTTPLeft' /\ OutboxLeft' /\ PoolLeft' /\ ReloadLeft' /\ InTime'
    BY <1>0, <1>21
       DEF TaskEnd, mainVars, loopVars, poolVars, Shape, PoolLeft, Past,
           Leaving, HTTPLeft, Quiet, OutboxLeft, ReloadLeft, InTime, ExitInTime, Maximum, Budget,
           Minimum, Remaining, CtxDone
  <2> QED
    BY <2>1, <2>2
<1>22. CASE Halted
  <2>1. SchedulerLeft'
    BY <1>0, <1>22
       DEF Halted, mainVars, loopVars, poolVars, SchedulerLeft, Past,
           Leaving, OutOfPatience
  <2>2. Shape' /\ HTTPLeft' /\ OutboxLeft' /\ PoolLeft' /\ ReloadLeft' /\ InTime'
    BY <1>0, <1>22
       DEF Halted, mainVars, loopVars, poolVars, Shape, PoolLeft, Past,
           Leaving, HTTPLeft, Quiet, OutboxLeft, ReloadLeft, InTime, ExitInTime, Maximum, Budget,
           Minimum, Remaining, CtxDone
  <2> QED
    BY <2>1, <2>2
<1>23. CASE Dispatch
  <2>1. OutboxLeft'
    BY <1>0, <1>23
       DEF Dispatch, mainVars, asynqVars, poolVars, OutboxLeft, Past,
           Leaving
  <2>2. Shape' /\ HTTPLeft' /\ SchedulerLeft' /\ PoolLeft' /\ ReloadLeft' /\ InTime'
    BY <1>0, <1>23
       DEF Dispatch, mainVars, asynqVars, poolVars, Shape, PoolLeft, Past,
           Leaving, HTTPLeft, Quiet, SchedulerLeft, OutOfPatience,
           ReloadLeft, InTime, ExitInTime, Maximum, Budget, Minimum, Remaining, CtxDone
  <2> QED
    BY <2>1, <2>2
<1>24. CASE Dispatched
  <2>1. OutboxLeft'
    BY <1>0, <1>24
       DEF Dispatched, mainVars, asynqVars, poolVars, OutboxLeft, Past,
           Leaving
  <2>2. Shape' /\ HTTPLeft' /\ SchedulerLeft' /\ PoolLeft' /\ ReloadLeft' /\ InTime'
    BY <1>0, <1>24
       DEF Dispatched, mainVars, asynqVars, poolVars, Shape, PoolLeft, Past,
           Leaving, HTTPLeft, Quiet, SchedulerLeft, OutOfPatience,
           ReloadLeft, InTime, ExitInTime, Maximum, Budget, Minimum, Remaining, CtxDone
  <2> QED
    BY <2>1, <2>2
<1>25. CASE LoopEnds
  <2>1. OutboxLeft'
    BY <1>0, <1>25
       DEF LoopEnds, mainVars, asynqVars, poolVars, OutboxLeft, Past,
           Leaving
  <2>2. Shape' /\ HTTPLeft' /\ SchedulerLeft' /\ PoolLeft' /\ ReloadLeft' /\ InTime'
    BY <1>0, <1>25
       DEF LoopEnds, mainVars, asynqVars, poolVars, Shape, PoolLeft, Past,
           Leaving, HTTPLeft, Quiet, SchedulerLeft, OutOfPatience,
           ReloadLeft, InTime, ExitInTime, Maximum, Budget, Minimum, Remaining, CtxDone
  <2> QED
    BY <2>1, <2>2
<1>26. CASE Reload
  <2>1. ReloadLeft'
    BY <1>0, <1>26
       DEF Reload, mainVars, asynqVars, loopVars, poolVars, ReloadLeft,
           Shape
  <2>2. Shape' /\ HTTPLeft' /\ SchedulerLeft' /\ OutboxLeft' /\ PoolLeft' /\ InTime'
    BY <1>0, <1>26
       DEF Reload, mainVars, asynqVars, loopVars, poolVars, Shape, PoolLeft,
           Past, Leaving, HTTPLeft, Quiet, SchedulerLeft, OutOfPatience,
           OutboxLeft, InTime, ExitInTime, Maximum, Budget, Minimum, Remaining, CtxDone
  <2> QED
    BY <2>1, <2>2
<1>27. CASE Reloaded
  <2>1. ReloadLeft'
    BY <1>0, <1>27
       DEF Reloaded, mainVars, asynqVars, loopVars, poolVars, ReloadLeft,
           Shape
  <2>2. Shape' /\ HTTPLeft' /\ SchedulerLeft' /\ OutboxLeft' /\ PoolLeft' /\ InTime'
    BY <1>0, <1>27
       DEF Reloaded, mainVars, asynqVars, loopVars, poolVars, Shape,
           PoolLeft, Past, Leaving, HTTPLeft, Quiet, SchedulerLeft,
           OutOfPatience, OutboxLeft, InTime, ExitInTime, Maximum, Budget, Minimum, Remaining,
           CtxDone
  <2> QED
    BY <2>1, <2>2
<1>28. CASE ClosePool
  <2>1. PoolLeft'
    BY <1>0, <1>28
       DEF ClosePool, Pool!Stop, asynqVars, loopVars, PoolLeft, Past, Leaving
  <2>2. InTime'
    BY <1>0, <1>28
       DEF ClosePool, Pool!Stop, asynqVars, loopVars, InTime, ExitInTime, Shape,
           Budget, Minimum, Maximum
  <2>3. Shape' /\ HTTPLeft' /\ SchedulerLeft' /\ OutboxLeft' /\ ReloadLeft'
    BY <1>0, <1>28
       DEF ClosePool, Pool!Stop, asynqVars, loopVars, Shape, HTTPLeft, Past,
           Leaving, Quiet, SchedulerLeft, OutOfPatience, OutboxLeft, ReloadLeft
  <2> QED
    BY <2>1, <2>2, <2>3
<1>29. CASE StopServer
  <2>1. SchedulerLeft'
    BY <1>0, <1>29
       DEF StopServer, mainVars, loopVars, poolVars, SchedulerLeft, Past,
           Leaving, OutOfPatience
  <2>2. Shape' /\ HTTPLeft' /\ OutboxLeft' /\ PoolLeft' /\ ReloadLeft' /\ InTime'
    BY <1>0, <1>29
       DEF StopServer, mainVars, loopVars, poolVars, Shape, PoolLeft, Past,
           Leaving, HTTPLeft, Quiet, OutboxLeft, ReloadLeft, InTime, ExitInTime, Maximum, Budget,
           Minimum, Remaining, CtxDone
  <2> QED
    BY <2>1, <2>2
<1>30. CASE UNCHANGED vars
  BY <1>0, <1>30
  DEF vars, mainVars, asynqVars, loopVars, poolVars, Shape, PoolLeft,
           Past, Leaving, HTTPLeft, Quiet, SchedulerLeft, OutOfPatience,
           OutboxLeft, ReloadLeft, InTime, ExitInTime, Maximum, Budget, Minimum, Remaining,
           CtxDone
<1> QED
  BY <1>1, <1>2, <1>3, <1>4, <1>5, <1>6, <1>7, <1>8, <1>9, <1>10, <1>11, <1>12, <1>13,
     <1>14, <1>15, <1>16, <1>17, <1>18, <1>19, <1>20, <1>21, <1>22, <1>23, <1>24,
     <1>25, <1>26, <1>27, <1>28, <1>29, <1>30 DEF Next, Shutdown, Cleanup

-----------------------------------------------------------------------------
LEMMA LifeInvariant == Spec => [](TypeOK /\ LifeInv)
<1>1. Init => TypeOK /\ LifeInv
  <2>1. Init => TypeOK
    <3> SUFFICES ASSUME Init PROVE TypeOK
      OBVIOUS
    <3>1. step \in 1..Len(CleanupOrder)
      BY Order DEF Init
    <3>2. /\ req \in [Requests -> {"absent", "running", "done"}]
          /\ cancelled \in BOOLEAN
      BY DEF Init
    <3> QED
      BY <3>1, <3>2 DEF Init, Pool!Init, TypeOK
  <2> QED
    BY <2>1, InitLife
<1>2. TypeOK /\ LifeInv /\ [Next]_vars => (TypeOK /\ LifeInv)'
  BY StepType, StepLife DEF LifeInv
<1> QED
  BY <1>1, <1>2, PTL DEF Spec

(* The state keeps its types: above all, the time left for the stages is   *)
(* never negative, so no context is done before its stage has begun for    *)
(* want of a budget (App.Shutdown derives one from the other).             *)
THEOREM TypeCorrect == Spec => []TypeOK
BY LifeInvariant, PTL

(* Whoever App.Shutdown or the exit cuts off after a signal, requests, the *)
(* outbox loop or jobs, made its stage return an error; the scheduler's    *)
(* task may also be one that asynq gave up on.                             *)
THEOREM CutOffIsReportedHolds == Spec => []CutOffIsReported
<1>1. TypeOK /\ LifeInv => CutOffIsReported
  <2> SUFFICES ASSUME TypeOK, LifeInv, how = "signal", Leaving
               PROVE  /\ ~Quiet => "http" \in late
                      /\ task = "running" => "scheduler" \in late \/ GaveUp
                      /\ loop # "off" => "outbox" \in late
                      /\ accepted # finished => "pool" \in late
    BY DEF CutOffIsReported
  <2>1. ~Quiet => "http" \in late
    BY DEF LifeInv, HTTPLeft, Past
  <2>2. task = "running" => "scheduler" \in late \/ GaveUp
    BY DEF TypeOK, LifeInv, SchedulerLeft, Past, GaveUp
  <2>3. loop # "off" => "outbox" \in late
    BY DEF LifeInv, OutboxLeft, Past
  <2>4. accepted # finished => "pool" \in late
    BY DEF LifeInv, PoolLeft, Past
  <2> QED
    BY <2>1, <2>2, <2>3, <2>4
<1> QED
  BY <1>1, LifeInvariant, PTL

(* However late a stage of App.Shutdown is, asynq, the outbox loop and the *)
(* pool have been told to stop when the cleanups close connections.        *)
THEOREM StagesAllRunHolds == Spec => []StagesAllRun
<1>1. LifeInv => StagesAllRun
  BY DEF LifeInv, SchedulerLeft, OutboxLeft, PoolLeft, Past, StagesAllRun
<1> QED
  BY <1>1, LifeInvariant, PTL

(* From the signal, and from a panic, to the exit main takes no longer     *)
(* than the budgets of App.Shutdown and of the cleanups, a Submit's        *)
(* timeout, in which it may have to wait for the pool's lock, and what the *)
(* closing of connections and a load of the policy take, however long.     *)
THEOREM ExitInTimeHolds == Spec => []ExitInTime
<1>1. LifeInv => ExitInTime
  BY DEF LifeInv, InTime, ExitInTime, Maximum, Budget, ExitInTime
<1> QED
  BY <1>1, LifeInvariant, PTL

(* wire's cleanups stop the reloading of the policy before they close the  *)
(* database, on every way to the exit.                                     *)
THEOREM ReloadHasDatabaseHolds == Spec => []ReloadHasDatabase
<1>1. TypeOK /\ LifeInv => ReloadHasDatabase
  BY AtStep DEF TypeOK, LifeInv, ReloadLeft, ReloadHasDatabase
<1> QED
  BY <1>1, LifeInvariant, PTL
=============================================================================
