---------------------------- MODULE AppLifecycle ----------------------------
(***************************************************************************)
(* One process from start to exit: main (cmd/server/main.go), App.Start    *)
(* and App.Shutdown (internal/app/app.go), the cleanups that wire chains   *)
(* in reverse order (internal/wire_gen.go), and what still runs meanwhile: *)
(* requests, their jobs in the pool, the scheduler's task or the outbox    *)
(* loop, and the reloading of the RBAC policy.                             *)
(*                                                                         *)
(* The pool is taken as what it promises, Executor.tla, which WorkerPool   *)
(* is shown to implement.  Time is counted from the moment main leaves its *)
(* select.  Requests, jobs, tasks and dispatches may take for ever, and so *)
(* may the closing of a connection and a load of the policy.               *)
(***************************************************************************)
EXTENDS Naturals, Sequences

CONSTANTS Requests,       (* one job each, at most                         *)
          HTTPBudget,     (* for draining requests                         *)
          WorkerBudget,   (* shared by scheduler, outbox and pool          *)
          TotalBudget,    (* app.shutdown_timeout_sec                      *)
          PoolBudget,     (* of the pool's cleanup                         *)
          SubmitTimeout,  (* how long a Submit may hold the pool's lock    *)
          TracingTimeout, (* tracing.timeout_sec, of its cleanup           *)
          AbortAfter,     (* asynq's own patience with running tasks       *)
          MaxWait         (* bound: the time of waits that nothing bounds  *)

(* validateApp asks for no more of shutdown_timeout_sec.                   *)
ASSUME BudgetAssumption ==
  /\ HTTPBudget \in Nat /\ WorkerBudget \in Nat /\ TotalBudget \in Nat \ {0}
  /\ PoolBudget \in Nat /\ TracingTimeout \in Nat /\ AbortAfter \in Nat
  /\ SubmitTimeout \in Nat /\ MaxWait \in Nat

VARIABLES
  background, \* who dispatches the outbox: "loop", "scheduler" or "none"
  main,      \* where main is
  how,       \* why it left its select: "none", "signal" or "failed"
  step,      \* the cleanup it is at
  clock,     \* ticks since it left its select
  ctxEnd,    \* when the context it waits on is done
  lockBy,    \* when the Submits that keep it from the pool's lock are over
  waited,    \* ticks of waits that nothing bounds, so far
  late,      \* stages of the shutdown that returned an error
  closed,    \* connections closed by their cleanups
  req,       \* Requests -> "absent", "running" or "done"
  task,      \* the scheduler's task: "idle" or "running"
  asynq,     \* "off", "up", "asked" to stop, its server "stopping" or "stopped"
  haltAt,    \* when the server's shutdown began
  loop,      \* the outbox loop: "off", "waiting" or "dispatching"
  cancelled, \* has Shutdown cancelled the loop's context?
  reload,    \* the RBAC policy: "off", "idle" or "loading"
  accepted, finished, phase  \* the pool, as Executor has it

waitVars  == <<lockBy, waited>>
mainVars  == <<background, main, how, step, clock, ctxEnd, waitVars, late, closed>>
asynqVars == <<task, asynq, haltAt>>
loopVars  == <<loop, cancelled>>
poolVars  == <<accepted, finished, phase>>
vars == <<mainVars, req, asynqVars, loopVars, reload, poolVars>>

Pool == INSTANCE Executor WITH Jobs <- Requests

Stages == {"http", "scheduler", "outbox", "pool"}
Connections == {"mq", "redis", "db"}

(* wire undoes in reverse what it built.                                   *)
MutCleanupOrder == <<"db", "mq", "rbac", "redis", "pool", "tracing">>
CleanupOrder == <<"mq", "rbac", "redis", "db", "pool", "tracing">>

TypeOK ==
  /\ background \in {"loop", "scheduler", "none"}
  /\ main \in {"starting", "serving", "locking", "cleanup", "draining", "exited"} \cup Stages
  /\ how \in {"none", "signal", "failed"}
  /\ step \in 1..Len(CleanupOrder)
  /\ clock \in Nat /\ ctxEnd \in Nat /\ haltAt \in Nat /\ lockBy \in Nat /\ waited \in Nat
  /\ late \subseteq Stages
  /\ closed \subseteq Connections
  /\ req \in [Requests -> {"absent", "running", "done"}]
  /\ task \in {"idle", "running"}
  /\ asynq \in {"off", "up", "asked", "stopping", "stopped"}
  /\ loop \in {"off", "waiting", "dispatching"}
  /\ cancelled \in BOOLEAN
  /\ reload \in {"off", "idle", "loading"}
  /\ accepted \subseteq Requests /\ finished \subseteq Requests
  /\ phase \in {"running", "stopping", "drained"}

Init ==
  /\ background \in {"loop", "scheduler", "none"}
  /\ main = "starting" /\ how = "none" /\ step = 1
  /\ clock = 0 /\ ctxEnd = 0 /\ haltAt = 0 /\ lockBy = 0 /\ waited = 0
  /\ late = {} /\ closed = {}
  /\ req = [r \in Requests |-> "absent"]
  /\ task = "idle" /\ asynq = "off"
  /\ loop = "off" /\ cancelled = FALSE
  /\ reload = "idle"
  /\ Pool!Init

Minimum(a, b) == IF a < b THEN a ELSE b
Maximum(a, b) == IF a < b THEN b ELSE a

-----------------------------------------------------------------------------
(* App.Start, and the select.                                              *)

Serve ==
  /\ main = "starting"
  /\ main' = "serving"
  /\ loop' = IF background = "loop" THEN "waiting" ELSE "off"
  /\ asynq' = IF background = "scheduler" THEN "up" ELSE "off"
  /\ UNCHANGED <<background, waitVars, how, step, clock, ctxEnd, late, closed, req, task,
                 haltAt, cancelled, reload, poolVars>>

(* A panic, in main: nothing but the deferred cleanup runs.                *)
Panic ==
  /\ main' = "cleanup"
  /\ how' = "failed"
  /\ UNCHANGED <<background, waitVars, step, clock, ctxEnd, late, closed, req, asynqVars, loopVars,
                 reload, poolVars>>

StartFails  == main = "starting" /\ background = "scheduler" /\ Panic
ServerFails == main = "serving" /\ Panic

Signal ==
  /\ main = "serving"
  /\ main' = "http"
  /\ how' = "signal"
  /\ ctxEnd' = Minimum(HTTPBudget, TotalBudget)
  /\ UNCHANGED <<background, waitVars, step, clock, late, closed, req, asynqVars, loopVars, reload, poolVars>>

-----------------------------------------------------------------------------
(* The staged shutdown.  A stage returns when its part has stopped, or     *)
(* with an error when its context is done; the next one begins either way. *)

CtxDone == clock >= ctxEnd

Ends(stage, stopped) == \/ stopped /\ UNCHANGED late
                        \/ CtxDone /\ late' = late \cup {stage}

MutRemaining(budget) == budget
Remaining(budget) == Minimum(budget, TotalBudget - clock)

Quiet == \A r \in Requests : req[r] # "running"

(* Then Scheduler.Shutdown, whose goroutine is to stop asynq.              *)
HTTPReturns ==
  /\ main = "http"
  /\ Ends("http", Quiet)
  /\ main' = "scheduler"
  /\ ctxEnd' = clock + Remaining(WorkerBudget)
  /\ asynq' = IF asynq = "up" THEN "asked" ELSE asynq
  /\ UNCHANGED <<background, waitVars, how, step, clock, closed, req, task, haltAt, loopVars,
                 reload, poolVars>>

(* Then Outbox.Shutdown, which cancels the loop if one was started.        *)
SchedulerReturns ==
  /\ main = "scheduler"
  /\ Ends("scheduler", asynq \in {"off", "stopped"})
  /\ main' = "outbox"
  /\ cancelled' = (background = "loop")
  /\ UNCHANGED <<background, waitVars, how, step, clock, ctxEnd, closed, req, asynqVars, loop, reload, poolVars>>

(* Pool.Shutdown asks for the lock that Submits in progress hold, none for *)
(* longer than its timeout; those that come later wait behind it.          *)
AskForLock == main' = "locking" /\ lockBy' = clock + SubmitTimeout /\ UNCHANGED waited

(* Then Pool.Shutdown.                                                     *)
OutboxReturns ==
  /\ main = "outbox"
  /\ Ends("outbox", loop = "off")
  /\ AskForLock
  /\ UNCHANGED <<background, how, step, clock, ctxEnd, closed, req, asynqVars, loopVars, reload, poolVars>>

(* With the lock it closes the pool; only now it looks at its context.     *)
ClosePool ==
  /\ main = "locking"
  /\ Pool!Stop
  /\ main' = IF how = "signal" THEN "pool" ELSE "draining"
  /\ lockBy' = 0
  /\ UNCHANGED <<background, waited, how, step, clock, ctxEnd, late, closed, req, asynqVars,
                 loopVars, reload>>

MutDrained == UNCHANGED poolVars
MutWaitForEver == FALSE /\ UNCHANGED poolVars

Drained == Pool!Drain
NotDrained == CtxDone /\ UNCHANGED poolVars

(* os.Exit skips the cleanups when the whole budget is spent.              *)
AfterShutdown == IF clock < TotalBudget THEN {"cleanup"} ELSE {"cleanup", "exited"}

PoolReturns ==
  /\ main = "pool"
  /\ \/ Drained /\ UNCHANGED late
     \/ NotDrained /\ late' = late \cup {"pool"}
  /\ main' \in AfterShutdown
  /\ UNCHANGED <<background, waitVars, how, step, clock, ctxEnd, closed, req, asynqVars, loopVars, reload>>

-----------------------------------------------------------------------------
(* The cleanups.                                                           *)

At(name) == main = "cleanup" /\ CleanupOrder[step] = name

(* The last one, flushing the logger, waits for nothing.                   *)
NextCleanup == IF step < Len(CleanupOrder)
               THEN main' = "cleanup" /\ step' = step + 1
               ELSE main' = "exited" /\ UNCHANGED step

(* Close has no context: it returns when the other side lets it.           *)
Close(c) ==
  /\ At(c) /\ c \in Connections
  /\ closed' = closed \cup {c}
  /\ NextCleanup
  /\ UNCHANGED <<background, waitVars, how, clock, ctxEnd, late, req, asynqVars, loopVars, reload, poolVars>>

(* StopAutoLoadPolicy hands its stop to the goroutine, between two loads.  *)
StopReload ==
  /\ At("rbac") /\ reload = "idle"
  /\ reload' = "off"
  /\ NextCleanup
  /\ UNCHANGED <<background, waitVars, how, clock, ctxEnd, late, closed, req, asynqVars, loopVars, poolVars>>

(* The pool's cleanup is a second Shutdown, which returns at once ...      *)
PoolAlreadyClosed ==
  /\ At("pool") /\ phase # "running"
  /\ NextCleanup
  /\ ctxEnd' = clock + TracingTimeout
  /\ UNCHANGED <<background, waitVars, how, clock, late, closed, req, asynqVars, loopVars, reload, poolVars>>

(* ... or, after a panic, the first one.                                   *)
StopPool ==
  /\ At("pool") /\ phase = "running"
  /\ AskForLock
  /\ ctxEnd' = clock + PoolBudget
  /\ UNCHANGED <<background, how, step, clock, late, closed, req, asynqVars, loopVars, reload, poolVars>>

DrainReturns ==
  /\ main = "draining"
  /\ Drained \/ NotDrained
  /\ NextCleanup
  /\ ctxEnd' = clock + TracingTimeout
  /\ UNCHANGED <<background, waitVars, how, clock, late, closed, req, asynqVars, loopVars, reload>>

(* The spans are flushed in time, or not.                                  *)
StopTracing ==
  /\ At("tracing")
  /\ NextCleanup
  /\ UNCHANGED <<background, waitVars, how, clock, ctxEnd, late, closed, req, asynqVars, loopVars, reload, poolVars>>

-----------------------------------------------------------------------------
(* What runs beside main until the process exits.                          *)

Alive == main # "exited"

Accept(r) ==
  /\ main = "serving" /\ req[r] = "absent"
  /\ req' = [req EXCEPT ![r] = "running"]
  /\ UNCHANGED <<mainVars, asynqVars, loopVars, reload, poolVars>>

(* The bus submits a job, unless the pool turns it away.                   *)
Submit(r) ==
  /\ Alive /\ req[r] = "running"
  /\ Pool!Accept(r)
  /\ UNCHANGED <<mainVars, req, asynqVars, loopVars, reload>>

Respond(r) ==
  /\ Alive /\ req[r] = "running"
  /\ req' = [req EXCEPT ![r] = "done"]
  /\ UNCHANGED <<mainVars, asynqVars, loopVars, reload, poolVars>>

RunJob(r) ==
  /\ Alive
  /\ Pool!Run(r)
  /\ UNCHANGED <<mainVars, req, asynqVars, loopVars, reload>>

TaskStart ==
  /\ Alive /\ asynq \in {"up", "asked"} /\ task = "idle"
  /\ task' = "running"
  /\ UNCHANGED <<mainVars, req, asynq, haltAt, loopVars, reload, poolVars>>

TaskEnd ==
  /\ Alive /\ task = "running"
  /\ task' = "idle"
  /\ UNCHANGED <<mainVars, req, asynq, haltAt, loopVars, reload, poolVars>>

(* asynq's periodic scheduler has stopped, and its server is next.         *)
StopServer ==
  /\ Alive /\ asynq = "asked"
  /\ asynq' = "stopping"
  /\ haltAt' = clock
  /\ UNCHANGED <<mainVars, req, task, loopVars, reload, poolVars>>

OutOfPatience == clock >= haltAt + AbortAfter

(* asynq waits for the task, and then no longer: it goes on all the same.  *)
Halted ==
  /\ Alive /\ asynq = "stopping"
  /\ task = "idle" \/ OutOfPatience
  /\ asynq' = "stopped"
  /\ UNCHANGED <<mainVars, req, task, haltAt, loopVars, reload, poolVars>>

Dispatch ==
  /\ Alive /\ loop = "waiting" /\ ~cancelled
  /\ loop' = "dispatching"
  /\ UNCHANGED <<mainVars, req, asynqVars, cancelled, reload, poolVars>>

Dispatched ==
  /\ Alive /\ loop = "dispatching"
  /\ loop' = "waiting"
  /\ UNCHANGED <<mainVars, req, asynqVars, cancelled, reload, poolVars>>

LoopEnds ==
  /\ Alive /\ loop = "waiting" /\ cancelled
  /\ loop' = "off"
  /\ UNCHANGED <<mainVars, req, asynqVars, cancelled, reload, poolVars>>

Reload ==
  /\ Alive /\ reload = "idle"
  /\ reload' = "loading"
  /\ UNCHANGED <<mainVars, req, asynqVars, loopVars, poolVars>>

Reloaded ==
  /\ Alive /\ reload = "loading"
  /\ reload' = "idle"
  /\ UNCHANGED <<mainVars, req, asynqVars, loopVars, poolVars>>

-----------------------------------------------------------------------------
(* Time.  Only waits take any.  Those for a context end when it is done,   *)
(* the one for the pool's lock when the Submits in progress give up; the   *)
(* closing of a connection, and a load of the policy that StopReload waits *)
(* for, may last, and no timeout ends them.                                *)

Waiting == main \in Stages \cup {"draining"} \/ At("tracing")

Blocked == (\E c \in Connections : At(c)) \/ (At("rbac") /\ reload = "loading")

Tick ==
  /\ \/ Waiting /\ ~CtxDone /\ UNCHANGED waited
     \/ main = "locking" /\ clock < lockBy /\ UNCHANGED waited
     \/ Blocked /\ waited < MaxWait /\ waited' = waited + 1
  /\ ~(asynq = "stopping" /\ OutOfPatience)
  /\ clock' = clock + 1
  /\ UNCHANGED <<background, main, how, step, ctxEnd, lockBy, late, closed, req, asynqVars,
                 loopVars, reload, poolVars>>

-----------------------------------------------------------------------------
Shutdown == \/ HTTPReturns \/ SchedulerReturns \/ OutboxReturns \/ PoolReturns

Cleanup == StopReload \/ PoolAlreadyClosed \/ StopPool \/ DrainReturns \/ StopTracing

Next ==
  \/ Serve \/ StartFails \/ ServerFails \/ Signal \/ Shutdown \/ ClosePool \/ Cleanup \/ Tick
  \/ \E c \in Connections : Close(c)
  \/ \E r \in Requests : Accept(r) \/ Submit(r) \/ Respond(r) \/ RunJob(r)
  \/ TaskStart \/ TaskEnd \/ StopServer \/ Halted
  \/ Dispatch \/ Dispatched \/ LoopEnds
  \/ Reload \/ Reloaded

Spec == Init /\ [][Next]_vars

(* main and the timers run, and asynq's server stops once its patience is  *)
(* over.  Between two loads the goroutine that reloads the policy takes    *)
(* the stop sooner or later.  Everything else may hang: requests, jobs,    *)
(* tasks, dispatches, asynq's periodic scheduler, a load of the policy and *)
(* the closing of a connection.                                            *)
Fairness ==
  /\ WF_vars(Shutdown) /\ WF_vars(ClosePool) /\ SF_vars(Cleanup)
  /\ WF_vars(Tick) /\ WF_vars(Halted)

LiveSpec == Spec /\ Fairness

-----------------------------------------------------------------------------
(* Properties.                                                             *)

Leaving == main \in {"cleanup", "draining", "exited"}

(* asynq went on although the task had not ended.                          *)
GaveUp == asynq = "stopped" /\ OutOfPatience

(* From the first cleanup on, connections are closed under whoever still   *)
(* runs, and the exit cuts him off.  After a signal that is only who made  *)
(* his stage of the shutdown return an error - or the one task that asynq  *)
(* gave up on, which Scheduler.Shutdown does not report.                   *)
CutOffIsReported ==
  how = "signal" /\ Leaving =>
    /\ ~Quiet => "http" \in late
    /\ task = "running" => "scheduler" \in late \/ GaveUp
    /\ loop # "off" => "outbox" \in late
    /\ accepted # finished => "pool" \in late

(* A stage that uses up the context the three of them share does not keep  *)
(* the others from being told to stop: asynq has been asked to, the loop's *)
(* context is cancelled and the pool takes no job when the connections are *)
(* closed.                                                                 *)
StagesAllRun ==
  how = "signal" /\ Leaving =>
    asynq # "up" /\ (loop # "off" => cancelled) /\ phase # "running"

Budget == Minimum(TotalBudget, HTTPBudget + WorkerBudget)

(* After a signal main is gone within the budget, or within the budgets of *)
(* the two stages if that is less, and the time to flush the spans - but   *)
(* for the wait for the pool's lock, which only a Submit's timeout bounds, *)
(* and for the closing of connections and a load of the policy that is in  *)
(* progress, which nothing bounds.                                         *)
ExitInTime ==
  /\ how = "signal" => clock <= Budget + SubmitTimeout + TracingTimeout + waited
  /\ how = "failed" => clock <= Maximum(PoolBudget, SubmitTimeout) + TracingTimeout + waited

(* The policy is not loaded over a closed database: wire's order stops the *)
(* reloading first.                                                        *)
ReloadHasDatabase == reload = "loading" => "db" \notin closed

(* A process that was told to stop, or failed, exits, whatever requests,   *)
(* jobs, tasks and dispatches do - unless one of its connections never     *)
(* finishes closing, or the policy never finishes loading: in the end a    *)
(* process serves, is gone, or is kept by one of these for good.           *)
MainEnds == <>[](how = "none" \/ main = "exited" \/ Blocked)

-----------------------------------------------------------------------------
(* Why they hold: what each stage leaves behind when main goes on.         *)

Past(stages) == how = "signal" /\ (main \in stages \/ Leaving)

Shape ==
  /\ how = "none" <=> main \in {"starting", "serving"}
  /\ main \in Stages => how = "signal"
  /\ main \in {"starting", "serving"} \cup Stages => step = 1
  /\ main = "locking" => step = IF how = "signal" THEN 1 ELSE 5
  /\ main = "draining" => how = "failed" /\ step = 5

HTTPLeft == Past({"scheduler", "outbox", "locking", "pool"}) => (~Quiet => "http" \in late)

SchedulerLeft ==
  /\ main = "starting" => asynq = "off"
  /\ main \in {"serving", "http"} => asynq \in {"off", "up"}
  /\ Past({"scheduler", "outbox", "locking", "pool"}) => asynq # "up"
  /\ asynq = "off" => task = "idle"
  /\ asynq = "stopped" => task = "idle" \/ OutOfPatience
  /\ Past({"outbox", "locking", "pool"}) => asynq \in {"off", "stopped"} \/ "scheduler" \in late

OutboxLeft ==
  /\ main = "starting" => loop = "off"
  /\ loop # "off" => background = "loop"
  /\ Past({"outbox", "locking", "pool"}) => (loop # "off" => cancelled)
  /\ Past({"locking", "pool"}) => (loop # "off" => "outbox" \in late)

PoolLeft ==
  /\ main \in {"starting", "serving", "http", "scheduler", "outbox", "locking"} => phase = "running"
  /\ Past({"pool"}) => phase # "running"
  /\ phase = "drained" => accepted = finished
  /\ Past({}) => "pool" \in late \/ phase = "drained"

ReloadLeft ==
  /\ reload # "off" => step <= 2
  /\ step <= 4 => "db" \notin closed

InTime ==
  /\ how = "none" => clock = 0
  /\ main \in {"starting", "serving"} \cup Stages => waited = 0
  /\ main = "http" => clock <= ctxEnd /\ ctxEnd = Minimum(HTTPBudget, TotalBudget)
  /\ main \in {"scheduler", "outbox"} => clock <= ctxEnd /\ ctxEnd <= Budget
  /\ main = "locking" => clock <= lockBy
  /\ how = "signal" /\ main = "locking" =>
       waited = 0 /\ lockBy <= Budget + SubmitTimeout /\ ctxEnd <= Budget
  /\ main = "pool" => clock <= Budget + SubmitTimeout /\ ctxEnd <= Budget
  /\ how = "signal" /\ main = "cleanup" =>
       IF step <= 5 THEN clock <= Budget + SubmitTimeout + waited
       ELSE clock <= ctxEnd /\ ctxEnd <= Budget + SubmitTimeout + TracingTimeout + waited
  /\ how = "failed" /\ main = "cleanup" =>
       IF step <= 5 THEN clock <= waited
       ELSE clock <= ctxEnd /\ ctxEnd <= Maximum(PoolBudget, SubmitTimeout) + TracingTimeout + waited
  /\ how = "failed" /\ main = "locking" => lockBy <= SubmitTimeout + waited /\ ctxEnd <= PoolBudget + waited
  /\ main = "draining" => clock <= Maximum(PoolBudget, SubmitTimeout) + waited /\ ctxEnd <= PoolBudget + waited
  /\ ExitInTime

LifeInv == /\ Shape /\ HTTPLeft /\ SchedulerLeft /\ OutboxLeft
           /\ PoolLeft /\ ReloadLeft /\ InTime
=============================================================================
