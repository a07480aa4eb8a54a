----------------------------- MODULE WorkerPool -----------------------------
(***************************************************************************)
(* The worker pool (internal/worker/pool.go): a bounded channel of jobs, a *)
(* fixed set of goroutines that range over it, Submit, which holds the     *)
(* read lock for as long as it waits for room, and Shutdown, which takes   *)
(* the write lock to close the channel and then waits for the workers.     *)
(*                                                                         *)
(* mu is a sync.RWMutex: a writer that waits for it keeps new readers out, *)
(* so a task that submits a job itself can be stuck behind a Shutdown that *)
(* is stuck behind a Submit that is stuck behind the busy workers.         *)
(***************************************************************************)
EXTENDS Naturals, Sequences

CONSTANTS Clients,    (* goroutines outside the pool that submit           *)
          Workers,    (* worker.workers goroutines                         *)
          Stoppers,   (* callers of Shutdown: main, and the wire cleanup   *)
          Jobs,       (* the jobs submitted                                *)
          None,       (* no job, no stopper                                *)
          QueueSize   (* worker.queue_size                                 *)

Callers == Clients \cup Workers   \* a task may submit too

(* validateWorker rejects anything else.                                   *)
ASSUME QueueAssumption == QueueSize \in Nat \ {0}
ASSUME WorkerAssumption == Workers # {} /\ Clients \cap Workers = {}
ASSUME NoneAssumption == None \notin Jobs /\ None \notin Stoppers

VARIABLES
  queue,     \* the channel's buffer
  closed,    \* Pool.closed, set together with close(p.jobs)
  writer,    \* the Shutdown that holds mu or waits for its readers, or None
  spc,       \* Callers -> where Submit is; "sending" holds mu for reading
  job,       \* Callers -> the job it is submitting
  task,      \* Workers -> the job it runs
  gone,      \* workers that have returned
  stop,      \* Stoppers -> where Shutdown is, or what it returned
  accepted,  \* jobs whose Submit returned nil
  finished   \* jobs run to their end

vars == <<queue, closed, writer, spc, job, task, gone, stop, accepted, finished>>

TypeOK ==
  /\ queue \in Seq(Jobs) /\ Len(queue) <= QueueSize
  /\ closed \in BOOLEAN
  /\ writer \in Stoppers \cup {None}
  /\ spc \in [Callers -> {"idle", "entering", "sending"}]
  /\ job \in [Callers -> Jobs \cup {None}]
  /\ task \in [Workers -> Jobs \cup {None}]
  /\ gone \subseteq Workers
  /\ stop \in [Stoppers -> {"idle", "calling", "waiting", "drained", "already", "timeout"}]
  /\ accepted \subseteq Jobs
  /\ finished \subseteq Jobs

Init ==
  /\ queue = <<>> /\ closed = FALSE /\ writer = None
  /\ spc = [c \in Callers |-> "idle"]
  /\ job = [c \in Callers |-> None]
  /\ task = [w \in Workers |-> None]
  /\ gone = {}
  /\ stop = [s \in Stoppers |-> "idle"]
  /\ accepted = {} /\ finished = {}

-----------------------------------------------------------------------------
(* Submit.  A job that was turned away may be submitted again.             *)

Fresh(j) == j \notin accepted /\ \A c \in Callers : job[c] # j

Call(c, j) ==
  /\ spc[c] = "idle" /\ Fresh(j)
  /\ c \in Workers => task[c] # None
  /\ spc' = [spc EXCEPT ![c] = "entering"]
  /\ job' = [job EXCEPT ![c] = j]
  /\ UNCHANGED <<queue, closed, writer, task, gone, stop, accepted, finished>>

(* Submit returns; the deferred RUnlock has run.                           *)
Return(c) == /\ spc' = [spc EXCEPT ![c] = "idle"]
             /\ job' = [job EXCEPT ![c] = None]

(* RLock, and the test of closed under it.                                 *)
Refuse(c) ==
  /\ spc[c] = "entering" /\ writer = None /\ closed
  /\ Return(c)
  /\ UNCHANGED <<queue, closed, writer, task, gone, stop, accepted, finished>>

Enter(c) ==
  /\ spc[c] = "entering" /\ writer = None /\ ~closed
  /\ spc' = [spc EXCEPT ![c] = "sending"]
  /\ UNCHANGED <<queue, closed, writer, job, task, gone, stop, accepted, finished>>

HasRoom == Len(queue) < QueueSize

Send(c) ==
  /\ spc[c] = "sending" /\ HasRoom
  /\ queue' = Append(queue, job[c])
  /\ accepted' = accepted \cup {job[c]}
  /\ Return(c)
  /\ UNCHANGED <<closed, writer, task, gone, stop, finished>>

MutNoTimeout(c) == FALSE /\ UNCHANGED vars

(* submitTimeout, or the caller's own context, is over.                    *)
TimeOut(c) ==
  /\ spc[c] = "sending"
  /\ Return(c)
  /\ UNCHANGED <<queue, closed, writer, task, gone, stop, accepted, finished>>

-----------------------------------------------------------------------------
(* runWorker: range over the channel, which ends when it is closed and     *)
(* empty.                                                                  *)

Take(w) ==
  /\ w \notin gone /\ task[w] = None /\ queue # <<>>
  /\ task' = [task EXCEPT ![w] = Head(queue)]
  /\ queue' = Tail(queue)
  /\ UNCHANGED <<closed, writer, spc, job, gone, stop, accepted, finished>>

Finish(w) ==
  /\ task[w] # None /\ spc[w] = "idle"
  /\ finished' = finished \cup {task[w]}
  /\ task' = [task EXCEPT ![w] = None]
  /\ UNCHANGED <<queue, closed, writer, spc, job, gone, stop, accepted>>

MutExitWhenClosed(w) ==
  /\ w \notin gone /\ task[w] = None /\ closed
  /\ gone' = gone \cup {w}
  /\ UNCHANGED <<queue, closed, writer, spc, job, task, stop, accepted, finished>>

Exit(w) ==
  /\ w \notin gone /\ task[w] = None /\ queue = <<>> /\ closed
  /\ gone' = gone \cup {w}
  /\ UNCHANGED <<queue, closed, writer, spc, job, task, stop, accepted, finished>>

-----------------------------------------------------------------------------
(* Shutdown.                                                               *)

CallShutdown(s) ==
  /\ stop[s] = "idle"
  /\ stop' = [stop EXCEPT ![s] = "calling"]
  /\ UNCHANGED <<queue, closed, writer, spc, job, task, gone, accepted, finished>>

(* Lock keeps other writers and new readers out ...                        *)
Lock(s) ==
  /\ stop[s] = "calling" /\ writer = None
  /\ writer' = s
  /\ UNCHANGED <<queue, closed, spc, job, task, gone, stop, accepted, finished>>

MutLockIgnoresReaders(s) == writer = s

(* ... and then waits for the readers inside.                              *)
Locked(s) == writer = s /\ \A c \in Callers : spc[c] # "sending"

MutCloseKeepsLock(s) ==
  /\ Locked(s)
  /\ closed' = TRUE
  /\ stop' = [stop EXCEPT ![s] = IF closed THEN "already" ELSE "waiting"]
  /\ writer' = IF closed THEN writer ELSE None
  /\ UNCHANGED <<queue, spc, job, task, gone, accepted, finished>>

(* The first Shutdown closes the channel; any other one returns nil here.  *)
Close(s) ==
  /\ Locked(s)
  /\ closed' = TRUE
  /\ stop' = [stop EXCEPT ![s] = IF closed THEN "already" ELSE "waiting"]
  /\ writer' = None
  /\ UNCHANGED <<queue, spc, job, task, gone, accepted, finished>>

Drained(s) ==
  /\ stop[s] = "waiting" /\ gone = Workers
  /\ stop' = [stop EXCEPT ![s] = "drained"]
  /\ UNCHANGED <<queue, closed, writer, spc, job, task, gone, accepted, finished>>

GiveUp(s) ==
  /\ stop[s] = "waiting"
  /\ stop' = [stop EXCEPT ![s] = "timeout"]
  /\ UNCHANGED <<queue, closed, writer, spc, job, task, gone, accepted, finished>>

-----------------------------------------------------------------------------
Submitting(c) == Refuse(c) \/ Enter(c) \/ Send(c) \/ TimeOut(c)
Working(w)    == Take(w) \/ Exit(w)
Stopping(s)   == Lock(s) \/ Close(s) \/ Drained(s) \/ GiveUp(s)

Next ==
  \/ \E c \in Callers : (\E j \in Jobs : Call(c, j)) \/ Submitting(c)
  \/ \E w \in Workers : Working(w) \/ Finish(w)
  \/ \E s \in Stoppers : CallShutdown(s) \/ Stopping(s)

Spec == Init /\ [][Next]_vars

(* Every task ends: one that keeps submitting does not do so for ever.     *)
TasksEnd == \A w \in Workers : SF_vars(Finish(w))

-----------------------------------------------------------------------------
(* Properties.                                                             *)

(* No Submit is about to send on a closed channel, which would panic: the  *)
(* read lock it holds while it waits keeps Shutdown from closing it.       *)
NoSendOnClosed == closed => \A c \in Callers : spc[c] # "sending"

(* When the Shutdown that closed the pool returns nil, every job whose     *)
(* Submit returned nil has been run to its end, and none is on its way.    *)
DrainedMeansDone ==
  (\E s \in Stoppers : stop[s] = "drained") =>
     accepted = finished /\ \A w \in Workers : task[w] = None

(* A Shutdown returns, whatever the queue, the submitters and the tasks    *)
(* are doing - even when every worker hangs.                               *)
ShutdownReturns ==
  \A s \in Stoppers : stop[s] = "calling" ~> stop[s] \in {"drained", "already", "timeout"}

(* So does a Submit, one called from inside a task included.               *)
SubmitReturns == \A c \in Callers : spc[c] # "idle" ~> spc[c] = "idle"

-----------------------------------------------------------------------------
(* Why they hold: a job the pool took is in one place, once, until it is   *)
(* finished, and a worker leaves only a closed and empty channel.          *)

Queued(j) == \E i \in 1..Len(queue) : queue[i] = j

OnePlace ==
  /\ \A i, k \in 1..Len(queue) : queue[i] = queue[k] => i = k
  /\ \A v, w \in Workers : task[v] = task[w] /\ task[v] # None => v = w
  /\ \A w \in Workers : task[w] # None => ~Queued(task[w]) /\ task[w] \notin finished
  /\ \A j \in Jobs : Queued(j) => j \notin finished
  /\ \A j \in Jobs : j \in accepted <=>
        Queued(j) \/ j \in finished \/ \E w \in Workers : task[w] = j

InHand ==
  /\ \A c \in Callers : spc[c] # "idle" => job[c] \in Jobs \ accepted
  /\ \A b, c \in Callers : b # c /\ spc[b] # "idle" => job[b] # job[c]
  /\ \A w \in Workers : spc[w] # "idle" => task[w] # None

Leaving ==
  /\ gone # {} => closed /\ queue = <<>>
  /\ \A w \in gone : task[w] = None
  /\ \A s \in Stoppers : stop[s] \in {"waiting", "drained", "already", "timeout"} => closed
  /\ \A s \in Stoppers : stop[s] = "drained" => gone = Workers
  /\ writer # None => stop[writer] = "calling"

PoolInv == NoSendOnClosed /\ OnePlace /\ InHand /\ Leaving

-----------------------------------------------------------------------------
(* The abstract pool implemented.                                          *)

Phase == IF \E s \in Stoppers : stop[s] = "drained" THEN "drained"
         ELSE IF closed THEN "stopping" ELSE "running"

Promise == INSTANCE Executor WITH phase <- Phase

ExecutorSpec == Promise!Spec
=============================================================================
