-------------------------- MODULE EventBus_proofs --------------------------
(***************************************************************************)
(* Proofs about the worker pool, for any number of clients, workers and    *)
(* callers of Shutdown and any queue size: it never sends on a closed      *)
(* channel, it is drained when it says so, and it implements Executor; and *)
(* about the bus, which uses it as any client may, for any number of       *)
(* publishers and handlers.                                                *)
(***************************************************************************)
EXTENDS EventBus, TLAPS

LEMMA InitType == Init => TypeOK
<1> SUFFICES ASSUME Init PROVE TypeOK
  OBVIOUS
<1>1. queue \in Seq(Jobs) /\ Len(queue) <= QueueSize
  BY QueueAssumption DEF Init
<1> QED
  BY <1>1 DEF Init, TypeOK

(* One step per action.                                                    *)
LEMMA StepType == TypeOK /\ InHand /\ [Next]_vars => TypeOK'
<1> SUFFICES ASSUME TypeOK, InHand, [Next]_vars PROVE TypeOK'
  OBVIOUS
<1> USE DEF TypeOK
<1>1. ASSUME NEW c \in Callers, NEW j \in Jobs, Call(c, j) PROVE TypeOK'
  BY <1>1 DEF Call
<1>2. ASSUME NEW c \in Callers, Refuse(c) PROVE TypeOK'
  BY <1>2 DEF Refuse, Return
<1>3. ASSUME NEW c \in Callers, Enter(c) PROVE TypeOK'
  BY <1>3 DEF Enter
<1>4. ASSUME NEW c \in Callers, Send(c) PROVE TypeOK'
  <2>1. job[c] \in Jobs
    BY <1>4 DEF InHand, Send
  <2>2. queue' \in Seq(Jobs) /\ Len(queue') <= QueueSize
    BY <1>4, <2>1, QueueAssumption DEF Send, HasRoom
  <2> QED BY <1>4, <2>1, <2>2 DEF Send, Return
<1>5. ASSUME NEW c \in Callers, TimeOut(c) PROVE TypeOK'
  BY <1>5 DEF TimeOut, Return
<1>6. ASSUME NEW w \in Workers, Take(w) PROVE TypeOK'
  <2>1. Head(queue) \in Jobs /\ Tail(queue) \in Seq(Jobs) /\ Len(Tail(queue)) <= QueueSize
    BY <1>6, QueueAssumption DEF Take
  <2> QED BY <1>6, <2>1 DEF Take
<1>7. ASSUME NEW w \in Workers, Finish(w) PROVE TypeOK'
  BY <1>7 DEF Finish
<1>8. ASSUME NEW w \in Workers, Exit(w) PROVE TypeOK'
  BY <1>8 DEF Exit
<1>9. ASSUME NEW s \in Stoppers, CallShutdown(s) \/ Lock(s) PROVE TypeOK'
  BY <1>9 DEF CallShutdown, Lock
<1>10. ASSUME NEW s \in Stoppers, Close(s) \/ Drained(s) \/ GiveUp(s) PROVE TypeOK'
  BY <1>10 DEF Close, Drained, GiveUp
<1>11. CASE UNCHANGED vars
  BY <1>11 DEF vars
<1> QED
  BY <1>1, <1>2, <1>3, <1>4, <1>5, <1>6, <1>7, <1>8, <1>9, <1>10, <1>11
  DEF Next, Submitting, Working, Stopping

-----------------------------------------------------------------------------
LEMMA InitPool == Init => PoolInv
<1> SUFFICES ASSUME Init PROVE PoolInv
  OBVIOUS
<1>1. Len(queue) = 0
  BY DEF Init
<1>2. NoSendOnClosed /\ InHand
  BY DEF Init, NoSendOnClosed, InHand, Callers
<1>3. OnePlace
  <2>1. \A j \in Jobs : ~Queued(j)
    BY <1>1 DEF Queued
  <2>2. \A i, k \in 1..Len(queue) : queue[i] = queue[k] => i = k
    BY <1>1
  <2>3. \A w \in Workers : task[w] = None
    BY DEF Init
  <2>4. accepted = {} /\ finished = {}
    BY DEF Init
  <2> QED
    BY <2>1, <2>2, <2>3, <2>4, NoneAssumption DEF OnePlace
<1>4. Leaving
  BY DEF Init, Leaving
<1> QED
  BY <1>2, <1>3, <1>4 DEF PoolInv

(* The read lock is held from the test of closed to the send.              *)
LEMMA StepClosed == TypeOK /\ NoSendOnClosed /\ [Next]_vars => NoSendOnClosed'
<1> SUFFICES ASSUME TypeOK, NoSendOnClosed, [Next]_vars PROVE NoSendOnClosed'
  OBVIOUS
<1> USE DEF TypeOK, NoSendOnClosed
<1>1. ASSUME NEW c \in Callers, NEW j \in Jobs, Call(c, j) PROVE NoSendOnClosed'
  BY <1>1 DEF Call
<1>2. ASSUME NEW c \in Callers, Submitting(c) PROVE NoSendOnClosed'
  BY <1>2 DEF Submitting, Refuse, Enter, Send, TimeOut, Return
<1>3. ASSUME NEW w \in Workers, Working(w) \/ Finish(w) PROVE NoSendOnClosed'
  BY <1>3 DEF Working, Take, Exit, Finish
<1>4. ASSUME NEW s \in Stoppers, CallShutdown(s) \/ Stopping(s) PROVE NoSendOnClosed'
  BY <1>4 DEF CallShutdown, Stopping, Lock, Close, Locked, Drained, GiveUp
<1>5. CASE UNCHANGED vars
  BY <1>5 DEF vars
<1> QED
  BY <1>1, <1>2, <1>3, <1>4, <1>5 DEF Next

(* No two callers submit the same job, and none submits an accepted one.   *)
LEMMA StepInHand == TypeOK /\ InHand /\ [Next]_vars => InHand'
<1> SUFFICES ASSUME TypeOK, InHand, [Next]_vars PROVE InHand'
  OBVIOUS
<1> USE DEF TypeOK, InHand
<1>1. ASSUME NEW c \in Callers, NEW j \in Jobs, Call(c, j) PROVE InHand'
  BY <1>1 DEF Call, Fresh, Callers
<1>2. ASSUME NEW c \in Callers, Refuse(c) \/ Enter(c) \/ TimeOut(c) PROVE InHand'
  BY <1>2, NoneAssumption DEF Refuse, Enter, TimeOut, Return, Callers
<1>3. ASSUME NEW c \in Callers, Send(c) PROVE InHand'
  <2>1. /\ spc'[c] = "idle" /\ job'[c] = None
        /\ \A b \in Callers \ {c} : spc'[b] = spc[b] /\ job'[b] = job[b]
        /\ accepted' = accepted \cup {job[c]}
        /\ spc[c] # "idle" /\ task' = task
    BY <1>3 DEF Send, Return
  <2> QED
    BY <2>1, NoneAssumption DEF Callers
<1>4. ASSUME NEW w \in Workers, Take(w) PROVE InHand'
  <2>1. Head(queue) \in Jobs
    BY <1>4 DEF Take
  <2>2. /\ \A v \in Workers : task[v] # None => task'[v] # None
        /\ UNCHANGED <<spc, job, accepted>>
    BY <1>4, <2>1, NoneAssumption DEF Take
  <2> QED
    BY <2>2
<1>7. ASSUME NEW w \in Workers, Exit(w) PROVE InHand'
  BY <1>7 DEF Exit
<1>8. ASSUME NEW w \in Workers, Finish(w) PROVE InHand'
  BY <1>8 DEF Finish, Callers
<1>5. ASSUME NEW s \in Stoppers, CallShutdown(s) \/ Stopping(s) PROVE InHand'
  BY <1>5 DEF CallShutdown, Stopping, Lock, Close, Locked, Drained, GiveUp
<1>6. CASE UNCHANGED vars
  BY <1>6 DEF vars
<1> QED
  BY <1>1, <1>2, <1>3, <1>4, <1>5, <1>6, <1>7, <1>8 DEF Next, Submitting, Working

(* A worker leaves an empty channel, and nothing is sent on it afterwards. *)
LEMMA StepLeaving == TypeOK /\ NoSendOnClosed /\ Leaving /\ [Next]_vars => Leaving'
<1> SUFFICES ASSUME TypeOK, NoSendOnClosed, Leaving, [Next]_vars PROVE Leaving'
  OBVIOUS
<1> USE DEF TypeOK, Leaving
<1>1. ASSUME NEW c \in Callers, NEW j \in Jobs, Call(c, j) PROVE Leaving'
  BY <1>1 DEF Call
<1>2. ASSUME NEW c \in Callers, Refuse(c) \/ Enter(c) \/ TimeOut(c) PROVE Leaving'
  BY <1>2 DEF Refuse, Enter, TimeOut
<1>3. ASSUME NEW c \in Callers, Send(c) PROVE Leaving'
  BY <1>3 DEF Send, NoSendOnClosed
<1>4. ASSUME NEW w \in Workers, Take(w) PROVE Leaving'
  BY <1>4 DEF Take
<1>5. ASSUME NEW w \in Workers, Finish(w) PROVE Leaving'
  BY <1>5 DEF Finish
<1>6. ASSUME NEW w \in Workers, Exit(w) PROVE Leaving'
  BY <1>6 DEF Exit
<1>7. ASSUME NEW s \in Stoppers, CallShutdown(s) PROVE Leaving'
  BY <1>7 DEF CallShutdown
<1>8. ASSUME NEW s \in Stoppers, Lock(s) PROVE Leaving'
  BY <1>8 DEF Lock
<1>9. ASSUME NEW s \in Stoppers, Close(s) PROVE Leaving'
  BY <1>9 DEF Close, Locked
<1>10. ASSUME NEW s \in Stoppers, Drained(s) \/ GiveUp(s) PROVE Leaving'
  BY <1>10 DEF Drained, GiveUp
<1>11. CASE UNCHANGED vars
  BY <1>11 DEF vars
<1> QED
  BY <1>1, <1>2, <1>3, <1>4, <1>5, <1>6, <1>7, <1>8, <1>9, <1>10, <1>11
  DEF Next, Submitting, Working, Stopping

-----------------------------------------------------------------------------
(* A job in the channel goes to one worker, and from there to finished.    *)
LEMMA StepOnePlace == TypeOK /\ InHand /\ OnePlace /\ [Next]_vars => OnePlace'
<1> SUFFICES ASSUME TypeOK, InHand, OnePlace, [Next]_vars PROVE OnePlace'
  OBVIOUS
<1> USE DEF TypeOK, Queued
<1>1. ASSUME UNCHANGED <<queue, task, accepted, finished>> PROVE OnePlace'
  BY <1>1 DEF OnePlace
<1>2. ASSUME NEW c \in Callers, Send(c) PROVE OnePlace'
  <2> DEFINE n == Len(queue)
  <2>1. job[c] \in Jobs \ accepted
    BY <1>2 DEF Send, InHand
  <2>2. /\ Len(queue') = n + 1 /\ queue'[n + 1] = job[c]
        /\ \A i \in 1..n : queue'[i] = queue[i]
        /\ n \in Nat
    BY <1>2, <2>1 DEF Send
  <2>3. \A j \in Jobs : Queued(j)' <=> Queued(j) \/ j = job[c]
    BY <2>2
  <2>4. ~Queued(job[c]) /\ job[c] \notin finished /\ \A w \in Workers : task[w] # job[c]
    BY <2>1 DEF OnePlace
  <2>5. \A i, k \in 1..Len(queue') : queue'[i] = queue'[k] => i = k
    BY <2>2, <2>4 DEF OnePlace
  <2>6. UNCHANGED <<task, finished>> /\ accepted' = accepted \cup {job[c]}
    BY <1>2 DEF Send
  <2>7. \A w \in Workers : task'[w] # None => ~Queued(task[w])' /\ task'[w] \notin finished'
    BY <2>3, <2>4, <2>6 DEF OnePlace
  <2>8. \A j \in Jobs : Queued(j)' => j \notin finished'
    BY <2>3, <2>4, <2>6 DEF OnePlace
  <2>9. \A j \in Jobs : j \in accepted' <=>
          Queued(j)' \/ j \in finished' \/ \E w \in Workers : task'[w] = j
    BY <2>1, <2>3, <2>6 DEF OnePlace
  <2> QED
    BY <2>5, <2>6, <2>7, <2>8, <2>9 DEF OnePlace
<1>3. ASSUME NEW w \in Workers, Take(w) PROVE OnePlace'
  <2> DEFINE n == Len(queue)
             h == Head(queue)
  <2>1. n \in Nat \ {0} /\ h = queue[1] /\ h \in Jobs
    BY <1>3 DEF Take
  <2>2. /\ Len(queue') = n - 1
        /\ \A i \in 1..(n - 1) : queue'[i] = queue[i + 1]
    BY <1>3, <2>1 DEF Take
  <2>3. Queued(h) /\ h \notin finished /\ \A v \in Workers : task[v] # h
    BY <2>1, NoneAssumption DEF OnePlace
  <2>4. \A j \in Jobs : Queued(j)' <=> Queued(j) /\ j # h
    <3> SUFFICES ASSUME NEW j \in Jobs PROVE Queued(j)' <=> Queued(j) /\ j # h
      OBVIOUS
    <3>1. \A i, k \in 1..n : queue[i] = queue[k] => i = k
      BY DEF OnePlace
    <3>2. Queued(j)' => Queued(j) /\ j # h
      BY <2>1, <2>2, <3>1
    <3>3. Queued(j) /\ j # h => Queued(j)'
      <4> SUFFICES ASSUME NEW i \in 1..n, queue[i] = j, j # h PROVE Queued(j)'
        OBVIOUS
      <4>1. i - 1 \in 1..(n - 1) /\ queue'[i - 1] = queue[i]
        BY <2>1, <2>2
      <4> QED
        BY <2>2, <4>1
    <3> QED
      BY <3>2, <3>3
  <2>5. \A i, k \in 1..Len(queue') : queue'[i] = queue'[k] => i = k
    BY <2>1, <2>2 DEF OnePlace
  <2>6. /\ task[w] = None /\ task'[w] = h
        /\ \A v \in Workers \ {w} : task'[v] = task[v]
        /\ UNCHANGED <<accepted, finished>>
    BY <1>3 DEF Take
  <2>7. \A v \in Workers : task'[v] # None => ~Queued(task[v])' /\ task'[v] \notin finished'
    BY <2>3, <2>4, <2>6 DEF OnePlace
  <2>8. \A u, v \in Workers : task'[u] = task'[v] /\ task'[u] # None => u = v
    BY <2>3, <2>6 DEF OnePlace
  <2>9. \A j \in Jobs : Queued(j)' => j \notin finished'
    BY <2>4, <2>6 DEF OnePlace
  <2>10. \A j \in Jobs : j \in accepted' <=>
           Queued(j)' \/ j \in finished' \/ \E v \in Workers : task'[v] = j
    BY <2>1, <2>3, <2>4, <2>6, NoneAssumption DEF OnePlace
  <2> QED
    BY <2>5, <2>7, <2>8, <2>9, <2>10 DEF OnePlace
<1>4. ASSUME NEW w \in Workers, Finish(w) PROVE OnePlace'
  <2>1. /\ task[w] # None /\ task'[w] = None
        /\ \A v \in Workers \ {w} : task'[v] = task[v]
        /\ finished' = finished \cup {task[w]}
        /\ UNCHANGED <<queue, accepted>>
    BY <1>4 DEF Finish
  <2>2. \A j \in Jobs : Queued(j)' <=> Queued(j)
    BY <2>1
  <2>3. \A v \in Workers : task'[v] # None => ~Queued(task[v])' /\ task'[v] \notin finished'
    BY <2>1, <2>2 DEF OnePlace
  <2>4. \A u, v \in Workers : task'[u] = task'[v] /\ task'[u] # None => u = v
    BY <2>1 DEF OnePlace
  <2>5. \A j \in Jobs : Queued(j)' => j \notin finished'
    BY <2>1, <2>2 DEF OnePlace
  <2>6. \A j \in Jobs : j \in accepted' <=>
          Queued(j)' \/ j \in finished' \/ \E v \in Workers : task'[v] = j
    BY <2>1, <2>2, NoneAssumption DEF OnePlace
  <2>7. \A i, k \in 1..Len(queue') : queue'[i] = queue'[k] => i = k
    BY <2>1 DEF OnePlace
  <2> QED
    BY <2>3, <2>4, <2>5, <2>6, <2>7 DEF OnePlace
<1> QED
  BY <1>1, <1>2, <1>3, <1>4
  DEF Next, Submitting, Working, Stopping, Call, Refuse, Enter, TimeOut, Exit,
      CallShutdown, Lock, Close, Drained, GiveUp, vars

-----------------------------------------------------------------------------
(* The inductive invariant: the types, and where a job can be.             *)
LEMMA InvariantHolds == Spec => [](TypeOK /\ PoolInv)
<1>1. Init => TypeOK /\ PoolInv
  BY InitType, InitPool
<1>2. TypeOK /\ PoolInv /\ [Next]_vars => (TypeOK /\ PoolInv)'
  BY StepType, StepClosed, StepInHand, StepLeaving, StepOnePlace DEF PoolInv
<1> QED
  BY <1>1, <1>2, PTL DEF Spec

(* The variables of the pool always have their types, and the channel      *)
(* never holds more than worker.queue_size jobs.                           *)
THEOREM TypeCorrect == Spec => []TypeOK
BY InvariantHolds, PTL

(* No Submit ever sends on the channel that Shutdown has closed.           *)
THEOREM NoSendOnClosedHolds == Spec => []NoSendOnClosed
<1>1. PoolInv => NoSendOnClosed
  BY DEF PoolInv
<1> QED
  BY <1>1, InvariantHolds, PTL

LEMMA DoneIfDrained == TypeOK /\ PoolInv => DrainedMeansDone
<1> SUFFICES ASSUME TypeOK, PoolInv, NEW s \in Stoppers, stop[s] = "drained"
             PROVE  accepted = finished /\ \A w \in Workers : task[w] = None
  BY DEF DrainedMeansDone
<1>1. gone = Workers /\ queue = <<>> /\ \A w \in Workers : task[w] = None
  BY WorkerAssumption DEF PoolInv, Leaving
<1>2. \A j \in Jobs : ~Queued(j) /\ \A w \in Workers : task[w] # j
  <2>1. Len(queue) = 0
    BY <1>1
  <2> QED
    BY <1>1, <2>1, NoneAssumption DEF Queued
<1>3. \A j \in Jobs : j \in accepted <=> j \in finished
  BY <1>2 DEF PoolInv, OnePlace
<1> QED
  BY <1>1, <1>3 DEF TypeOK

(* A Shutdown that returns nil after closing the pool has left no accepted *)
(* job unfinished.                                                         *)
THEOREM DrainedMeansDoneHolds == Spec => []DrainedMeansDone
BY DoneIfDrained, InvariantHolds, PTL

-----------------------------------------------------------------------------
LEMMA ExecutorInit == Init => Promise!Init
BY DEF Init, Promise!Init, Phase

(* Send is Accept, Finish is Run, the first Close is Stop, Drained is      *)
(* Drain; every other step stutters.                                       *)
LEMMA ExecutorStep ==
  TypeOK /\ PoolInv /\ [Next]_vars => [Promise!Next]_Promise!vars
<1> SUFFICES ASSUME TypeOK, PoolInv, [Next]_vars
             PROVE  [Promise!Next]_Promise!vars
  OBVIOUS
<1> USE DEF Promise!vars
<1>1. ASSUME UNCHANGED <<accepted, finished, closed, stop>>
      PROVE  UNCHANGED Promise!vars
  BY <1>1 DEF Phase
<1>2. ASSUME NEW c \in Callers, Send(c) PROVE Promise!Next
  <2>1. job[c] \in Jobs \ accepted
    BY <1>2 DEF Send, PoolInv, InHand
  <2>2. ~closed /\ \A s \in Stoppers : stop[s] # "drained"
    BY <1>2 DEF Send, PoolInv, NoSendOnClosed, Leaving
  <2>3. Phase = "running" /\ Phase' = "running"
    BY <1>2, <2>2 DEF Send, Phase
  <2> QED
    BY <1>2, <2>1, <2>3 DEF Send, Promise!Next, Promise!Accept
<1>3. ASSUME NEW w \in Workers, Finish(w) PROVE Promise!Next
  <2>1. task[w] \in Jobs /\ task[w] \in accepted \ finished
    BY <1>3 DEF Finish, TypeOK, PoolInv, OnePlace
  <2>2. Phase' = Phase
    BY <1>3 DEF Finish, Phase
  <2> QED
    BY <1>3, <2>1, <2>2 DEF Finish, Promise!Next, Promise!Run
<1>4. ASSUME NEW s \in Stoppers, Close(s) PROVE [Promise!Next]_Promise!vars
  <2>1. /\ stop[s] = "calling" /\ stop'[s] \in {"already", "waiting"}
        /\ \A t \in Stoppers \ {s} : stop'[t] = stop[t]
        /\ closed' = TRUE /\ UNCHANGED <<accepted, finished>>
    BY <1>4, NoneAssumption DEF Close, Locked, TypeOK, PoolInv, Leaving
  <2>2. CASE closed
    BY <2>1, <2>2 DEF Phase
  <2>3. CASE ~closed
    <3>1. Phase = "running" /\ Phase' = "stopping"
      BY <2>1, <2>3 DEF Phase, PoolInv, Leaving
    <3> QED
      BY <2>1, <3>1 DEF Promise!Next, Promise!Stop
  <2> QED
    BY <2>2, <2>3 DEF TypeOK
<1>5. ASSUME NEW s \in Stoppers, Drained(s) PROVE [Promise!Next]_Promise!vars
  <2>1. /\ stop[s] = "waiting" /\ stop'[s] = "drained"
        /\ \A t \in Stoppers \ {s} : stop'[t] = stop[t]
        /\ closed /\ closed' = closed /\ UNCHANGED <<accepted, finished>>
    BY <1>5 DEF Drained, TypeOK, PoolInv, Leaving
  <2>2. Phase' = "drained"
    BY <2>1 DEF Phase
  <2>3. CASE \E t \in Stoppers : stop[t] = "drained"
    BY <2>1, <2>2, <2>3 DEF Phase
  <2>4. CASE \A t \in Stoppers : stop[t] # "drained"
    <3>1. Phase = "stopping"
      BY <2>1, <2>4 DEF Phase
    <3>2. gone = Workers /\ queue = <<>> /\ \A w \in Workers : task[w] = None
      BY <1>5, WorkerAssumption DEF Drained, PoolInv, Leaving
    <3>3. Len(queue) = 0
      BY <3>2
    <3>4. \A j \in Jobs : ~Queued(j) /\ \A w \in Workers : task[w] # j
      BY <3>2, <3>3, NoneAssumption DEF Queued
    <3>5. \A j \in Jobs : j \in accepted <=> j \in finished
      BY <3>4 DEF PoolInv, OnePlace
    <3>6. accepted = finished
      BY <3>5 DEF TypeOK
    <3> QED
      BY <2>1, <2>2, <3>1, <3>6 DEF Promise!Next, Promise!Drain
  <2> QED
    BY <2>3, <2>4
<1>6. ASSUME NEW s \in Stoppers, CallShutdown(s) \/ GiveUp(s)
      PROVE  UNCHANGED Promise!vars
  <2>1. /\ \A t \in Stoppers : stop'[t] = "drained" <=> stop[t] = "drained"
        /\ UNCHANGED <<closed, accepted, finished>>
    BY <1>6 DEF CallShutdown, GiveUp, TypeOK
  <2> QED
    BY <2>1 DEF Phase
<1> QED
  BY <1>1, <1>2, <1>3, <1>4, <1>5, <1>6
  DEF Next, Submitting, Working, Stopping, Call, Refuse, Enter, TimeOut, Take,
      Exit, Lock, vars

(* The pool implements Executor: no job is lost, run twice or accepted     *)
(* after the stop, for any number of concurrent users.                     *)
THEOREM PoolImplementsExecutor == Spec => ExecutorSpec
<1> QED
  BY ExecutorInit, ExecutorStep, InvariantHolds, PTL
  DEF Spec, ExecutorSpec, Promise!Spec

-----------------------------------------------------------------------------
(* The bus.                                                                *)

LEMMA BusInitHolds == BusInit => BusTypeOK /\ BusInv
<1> SUFFICES ASSUME BusInit PROVE BusTypeOK /\ BusInv
  OBVIOUS
<1>1. /\ handlers = <<>> /\ copied = [p \in Publishers |-> <<>>]
      /\ index = [p \in Publishers |-> 1] /\ bpc = [p \in Publishers |-> "idle"]
      /\ accepted = {} /\ spc = [c \in Callers |-> "idle"]
  BY DEF BusInit, Init
<1>2. Len(handlers) = 0 /\ \A p \in Publishers : Len(copied[p]) = 0
  BY <1>1
<1>3. BusTypeOK
  BY <1>1, <1>2 DEF BusTypeOK
<1>4. ReachedIsPrefix /\ NoHandlerTwice /\ NotBegun /\ AtIndex
  BY <1>1, <1>2 DEF ReachedIsPrefix, NoHandlerTwice, NotBegun, AtIndex
<1> QED
  BY <1>3, <1>4 DEF BusInv

LEMMA JobIsJob ==
  ASSUME BusTypeOK, NEW p \in Publishers, NEW i \in 1..Len(copied[p])
  PROVE  copied[p][i] \in Handlers /\ Job(p, i) \in Jobs /\ Job(p, i) = <<p, copied[p][i]>>
<1>1. copied[p] \in Seq(Handlers)
  BY DEF BusTypeOK
<1>2. copied[p][i] \in Handlers
  BY <1>1
<1> QED
  BY <1>2, JobsAssumption DEF Job

(* Whatever the bus does to the pool is a call of the pool's own.          *)
LEMMA BusStepIsPoolStep ==
  ASSUME BusTypeOK, [BusNext]_allVars
  PROVE  [Next]_vars
<1>1. ASSUME NEW h \in Handlers, Subscribe(h) PROVE UNCHANGED vars
  BY <1>1 DEF Subscribe
<1>2. ASSUME NEW p \in Publishers, Publish(p) \/ Published(p) PROVE UNCHANGED vars
  BY <1>2 DEF Publish, Published
<1>3. ASSUME NEW p \in Publishers, SubmitNext(p) PROVE Next
  <2>1. index[p] \in 1..Len(copied[p])
    BY <1>3 DEF SubmitNext, Remaining, BusTypeOK
  <2>2. Call(p, Job(p, index[p])) /\ Job(p, index[p]) \in Jobs
    BY <1>3, <2>1, JobIsJob DEF SubmitNext, Remaining
  <2> QED
    BY <2>2, PublishersAssumption DEF Next
<1>4. ASSUME NEW p \in Publishers, Accepted(p) \/ Failed(p) \/ Enter(p) PROVE Next
  BY <1>4, PublishersAssumption DEF Next, Submitting, Accepted, Failed
<1>5. CASE PoolStep
  BY <1>5 DEF PoolStep, HandlerReturns, Next
<1>6. CASE UNCHANGED allVars
  BY <1>6 DEF allVars
<1> QED
  BY <1>1, <1>2, <1>3, <1>4, <1>5, <1>6 DEF BusNext, BusStep

LEMMA StepSubscribe ==
  ASSUME BusTypeOK, BusInv, NEW h \in Handlers, Subscribe(h)
  PROVE  BusTypeOK' /\ BusInv'
<1> USE DEF BusTypeOK
<1> DEFINE n == Len(handlers)
<1>1. /\ handlers' \in Seq(Handlers) /\ Len(handlers') = n + 1 /\ handlers'[n + 1] = h
      /\ \A i \in 1..n : handlers'[i] = handlers[i] /\ handlers[i] # h
      /\ n \in Nat
  BY DEF Subscribe, Subscribed
<1>2. UNCHANGED <<copied, index, bpc>> /\ UNCHANGED vars
  BY DEF Subscribe
<1>3. BusTypeOK'
  BY <1>1, <1>2
<1>4. NoHandlerTwice'
  <2>1. \A i, k \in 1..n : handlers[i] = handlers[k] => i = k
    BY DEF BusInv, NoHandlerTwice
  <2>2. ASSUME NEW i \in 1..(n + 1), NEW k \in 1..(n + 1), handlers'[i] = handlers'[k] PROVE i = k
    <3>1. CASE i \in 1..n /\ k \in 1..n
      BY <1>1, <2>1, <2>2, <3>1
    <3>2. CASE i = n + 1 \/ k = n + 1
      <4>1. \A m \in 1..n : handlers'[m] # handlers'[n + 1]
        BY <1>1
      <4>2. (i \in 1..n \/ i = n + 1) /\ (k \in 1..n \/ k = n + 1)
        BY <1>1
      <4> QED
        BY <2>2, <3>2, <4>1, <4>2
    <3> QED
      BY <1>1, <3>1, <3>2
  <2> QED
    BY <1>1, <1>2, <2>2 DEF BusInv, NoHandlerTwice
<1>5. ReachedIsPrefix' /\ NotBegun' /\ AtIndex'
  BY <1>2 DEF BusInv, ReachedIsPrefix, NotBegun, AtIndex, Job, vars
<1> QED
  BY <1>3, <1>4, <1>5 DEF BusInv

LEMMA StepPublish ==
  ASSUME BusTypeOK, BusInv, NEW p \in Publishers, Publish(p)
  PROVE  BusTypeOK' /\ BusInv'
<1> USE DEF BusTypeOK
<1>1. /\ bpc[p] = "idle" /\ bpc'[p] = "publishing" /\ copied'[p] = handlers
      /\ \A q \in Publishers \ {p} : bpc'[q] = bpc[q] /\ copied'[q] = copied[q]
      /\ UNCHANGED <<handlers, index>> /\ UNCHANGED <<accepted, spc, job>>
  BY DEF Publish, vars
<1>2. index[p] = 1 /\ \A h \in Handlers : <<p, h>> \notin accepted
  BY <1>1 DEF BusInv, NotBegun
<1>3. BusTypeOK'
  <2>1. copied' \in [Publishers -> Seq(Handlers)] /\ bpc' \in [Publishers -> {"idle", "publishing", "ok", "failed"}]
    BY DEF Publish
  <2>2. ASSUME NEW q \in Publishers PROVE index'[q] \in 1..(Len(copied'[q]) + 1)
    <3>1. Len(handlers) \in Nat
      OBVIOUS
    <3>2. CASE q = p
      <4>1. index'[q] = 1 /\ Len(copied'[q]) = Len(handlers)
        BY <1>1, <1>2, <3>2
      <4> QED
        BY <3>1, <4>1
    <3>3. CASE q # p
      <4>1. index'[q] = index[q] /\ copied'[q] = copied[q]
        BY <1>1, <3>3
      <4> QED
        BY <4>1
    <3> QED
      BY <3>2, <3>3
  <2> QED
    BY <1>1, <2>1, <2>2
<1>4. ReachedIsPrefix'
  <2>1. ASSUME NEW i \in 1..Len(copied'[p]) PROVE Job(p, i)' \notin accepted' /\ ~(i < index'[p])
    <3>1. handlers[i] \in Handlers
      BY <1>1, <2>1
    <3> QED
      BY <1>1, <1>2, <2>1, <3>1 DEF Job
  <2>2. ASSUME NEW q \in Publishers, q # p
        PROVE  /\ \A i \in 1..Len(copied'[q]) : Job(q, i)' \in accepted' <=> i < index'[q]
               /\ bpc'[q] = "ok" => index'[q] > Len(copied'[q])
    BY <1>1, <2>2 DEF BusInv, ReachedIsPrefix, Job
  <2> QED
    BY <1>1, <2>1, <2>2 DEF ReachedIsPrefix, Job
<1>5. NoHandlerTwice'
  BY <1>1 DEF BusInv, NoHandlerTwice
<1>6. NotBegun'
  BY <1>1 DEF BusInv, NotBegun
<1>7. AtIndex'
  <2>1. \A c \in Callers : spc[c] # "idle" => c # p
    BY <1>1 DEF BusInv, AtIndex
  <2> QED
    BY <1>1, <2>1 DEF BusInv, AtIndex, Job
<1> QED
  BY <1>3, <1>4, <1>5, <1>6, <1>7 DEF BusInv

LEMMA StepSubmitNext ==
  ASSUME TypeOK, BusTypeOK, BusInv, NEW p \in Publishers, SubmitNext(p)
  PROVE  BusTypeOK' /\ BusInv'
<1>1. /\ bpc[p] = "publishing" /\ index[p] <= Len(copied[p])
      /\ UNCHANGED <<handlers, copied, index, bpc>> /\ accepted' = accepted
      /\ job'[p] = Job(p, index[p])
      /\ \A c \in Callers \ {p} : spc'[c] = spc[c] /\ job'[c] = job[c]
  BY PublishersAssumption DEF SubmitNext, Remaining, Call, busVars, Job, TypeOK
<1>2. BusTypeOK' /\ ReachedIsPrefix' /\ NoHandlerTwice' /\ NotBegun'
  BY <1>1 DEF BusTypeOK, BusInv, ReachedIsPrefix, NoHandlerTwice, NotBegun, Job
<1>3. AtIndex'
  BY <1>1 DEF BusInv, AtIndex, Job
<1> QED
  BY <1>2, <1>3 DEF BusInv

LEMMA StepAccepted ==
  ASSUME TypeOK, BusTypeOK, BusInv, NEW p \in Publishers, Accepted(p)
  PROVE  BusTypeOK' /\ BusInv'
<1> USE DEF BusTypeOK
<1>1. /\ spc[p] = "sending" /\ spc'[p] = "idle" /\ accepted' = accepted \cup {job[p]}
      /\ index' = [index EXCEPT ![p] = @ + 1]
      /\ UNCHANGED <<handlers, copied, bpc>>
      /\ \A c \in Callers \ {p} : spc'[c] = spc[c] /\ job'[c] = job[c]
  BY PublishersAssumption DEF Accepted, Send, Return, TypeOK
<1>2. /\ bpc[p] = "publishing" /\ index[p] <= Len(copied[p]) /\ job[p] = Job(p, index[p])
      /\ index[p] \in 1..Len(copied[p])
  BY <1>1, PublishersAssumption DEF BusInv, AtIndex
<1>3. index'[p] = index[p] + 1 /\ \A q \in Publishers \ {p} : index'[q] = index[q]
  BY <1>1
<1>4. BusTypeOK'
  <2>1. index' \in [Publishers -> Nat]
    BY <1>1
  <2>2. \A q \in Publishers : index'[q] \in 1..(Len(copied[q]) + 1)
    BY <1>2, <1>3
  <2> QED
    BY <1>1, <2>1, <2>2
<1>5. ReachedIsPrefix'
  <2>1. ASSUME NEW i \in 1..Len(copied[p]) PROVE Job(p, i)' \in accepted' <=> i < index'[p]
    <3>1. Job(p, i)' = Job(p, i) /\ (Job(p, i) = Job(p, index[p]) <=> i = index[p])
      BY <1>1, <1>2 DEF Job, BusInv, NoHandlerTwice
    <3>2. Job(p, i) \in accepted <=> i < index[p]
      BY DEF BusInv, ReachedIsPrefix
    <3> QED
      BY <1>1, <1>2, <1>3, <3>1, <3>2
  <2>2. ASSUME NEW q \in Publishers, q # p
        PROVE  /\ \A i \in 1..Len(copied[q]) : Job(q, i)' \in accepted' <=> i < index'[q]
               /\ bpc'[q] = "ok" => index'[q] > Len(copied'[q])
    <3>1. \A i \in 1..Len(copied[q]) : Job(q, i)' = Job(q, i) /\ Job(q, i) # job[p]
      BY <1>1, <1>2, <2>2 DEF Job
    <3> QED
      BY <1>1, <1>3, <2>2, <3>1 DEF BusInv, ReachedIsPrefix
  <2> QED
    BY <1>1, <1>2, <2>1, <2>2 DEF ReachedIsPrefix
<1>6. NoHandlerTwice'
  BY <1>1 DEF BusInv, NoHandlerTwice
<1>7. NotBegun'
  <2>1. \A q \in Publishers, h \in Handlers : q # p => <<q, h>> # job[p]
    BY <1>2 DEF Job
  <2> QED
    BY <1>1, <1>2, <1>3, <2>1 DEF BusInv, NotBegun
<1>8. AtIndex'
  BY <1>1, <1>3 DEF BusInv, AtIndex, Job
<1> QED
  BY <1>4, <1>5, <1>6, <1>7, <1>8 DEF BusInv

LEMMA StepFailed ==
  ASSUME TypeOK, BusTypeOK, BusInv, NEW p \in Publishers, Failed(p)
  PROVE  BusTypeOK' /\ BusInv'
<1>1. /\ spc[p] # "idle" /\ spc'[p] = "idle" /\ bpc' = [bpc EXCEPT ![p] = "failed"]
      /\ UNCHANGED <<handlers, copied, index, accepted>>
      /\ \A c \in Callers \ {p} : spc'[c] = spc[c] /\ job'[c] = job[c]
  BY PublishersAssumption DEF Failed, Refuse, TimeOut, Return, TypeOK
<1>2. BusTypeOK' /\ NoHandlerTwice'
  BY <1>1 DEF BusTypeOK, BusInv, NoHandlerTwice
<1>3. bpc'[p] = "failed" /\ \A q \in Publishers \ {p} : bpc'[q] = bpc[q]
  BY <1>1 DEF BusTypeOK
<1>4. ReachedIsPrefix' /\ NotBegun'
  BY <1>1, <1>3 DEF BusInv, ReachedIsPrefix, NotBegun, Job
<1>5. AtIndex'
  BY <1>1, <1>3 DEF BusInv, AtIndex, Job
<1> QED
  BY <1>2, <1>4, <1>5 DEF BusInv

LEMMA StepPublished ==
  ASSUME BusTypeOK, BusInv, NEW p \in Publishers, Published(p)
  PROVE  BusTypeOK' /\ BusInv'
<1>1. /\ index[p] > Len(copied[p]) /\ bpc' = [bpc EXCEPT ![p] = "ok"]
      /\ UNCHANGED <<handlers, copied, index>> /\ UNCHANGED <<accepted, spc, job>>
  BY DEF Published, Remaining, vars
<1>2. bpc'[p] = "ok" /\ \A q \in Publishers \ {p} : bpc'[q] = bpc[q]
  BY <1>1 DEF BusTypeOK
<1>3. BusTypeOK' /\ NoHandlerTwice'
  BY <1>1 DEF BusTypeOK, BusInv, NoHandlerTwice
<1>4. ReachedIsPrefix' /\ NotBegun'
  BY <1>1, <1>2 DEF BusInv, ReachedIsPrefix, NotBegun, Job
<1>5. AtIndex'
  <2>1. \A c \in Callers : spc[c] # "idle" => c # p
    <3>1. index[p] \in Nat /\ Len(copied[p]) \in Nat
      BY DEF BusTypeOK
    <3> QED
      BY <1>1, <3>1 DEF BusInv, AtIndex
  <2> QED
    BY <1>1, <1>2, <2>1 DEF BusInv, AtIndex, Job
<1> QED
  BY <1>3, <1>4, <1>5 DEF BusInv

(* A step that neither accepts a job nor begins a Submit.                  *)
LEMMA OtherPoolStep ==
  ASSUME BusTypeOK, BusInv, UNCHANGED busVars, accepted' = accepted, job' = job,
         \A c \in Callers : spc'[c] # "idle" => spc[c] # "idle"
  PROVE  BusTypeOK' /\ BusInv'
BY DEF busVars, BusTypeOK, BusInv, ReachedIsPrefix, NoHandlerTwice, NotBegun, AtIndex, Job

LEMMA BusStepHolds ==
  ASSUME TypeOK, BusTypeOK, BusInv, [BusNext]_allVars
  PROVE  BusTypeOK' /\ BusInv'
<1>1. ASSUME NEW p \in Publishers, Enter(p) /\ UNCHANGED busVars PROVE BusTypeOK' /\ BusInv'
  <2>1. \A c \in Callers : spc'[c] # "idle" => spc[c] # "idle"
    BY <1>1 DEF Enter, TypeOK
  <2> QED
    BY <1>1, <2>1, OtherPoolStep DEF Enter
<1>2. CASE PoolStep
  <2>1. UNCHANGED <<spc, job, accepted>> /\ UNCHANGED busVars
    BY <1>2 DEF PoolStep, Working, Take, Exit, HandlerReturns, Finish, CallShutdown, Stopping, Lock, Close,
       Drained, GiveUp
  <2> QED
    BY <2>1, OtherPoolStep
<1>3. CASE UNCHANGED allVars
  BY <1>3, OtherPoolStep DEF allVars, vars
<1> QED
  BY <1>1, <1>2, <1>3, StepSubscribe, StepPublish, StepSubmitNext, StepAccepted, StepFailed, StepPublished
  DEF BusNext, BusStep

(* The invariant of the bus, on top of the pool's.                         *)
THEOREM BusInvariant == BusSpec => [](TypeOK /\ PoolInv /\ BusTypeOK /\ BusInv)
<1>1. BusInit => TypeOK /\ PoolInv /\ BusTypeOK /\ BusInv
  BY InitType, InitPool, BusInitHolds DEF BusInit
<1>2. TypeOK /\ PoolInv /\ [Next]_vars => (TypeOK /\ PoolInv)'
  BY StepType, StepClosed, StepInHand, StepLeaving, StepOnePlace DEF PoolInv
<1>3. TypeOK /\ PoolInv /\ BusTypeOK /\ BusInv /\ [BusNext]_allVars =>
        (TypeOK /\ PoolInv /\ BusTypeOK /\ BusInv)'
  BY <1>2, BusStepIsPoolStep, BusStepHolds
<1> QED
  BY <1>1, <1>3, PTL DEF BusSpec

(* The bus is a user of the pool like any other: what holds of the pool    *)
(* holds under it, and so do the promises of Executor.                     *)
THEOREM BusUsesPool == BusSpec => Spec /\ ExecutorSpec
<1>1. BusInit => Init
  BY DEF BusInit
<1>2. BusTypeOK /\ [BusNext]_allVars => [Next]_vars
  BY BusStepIsPoolStep
<1>3. BusSpec => Spec
  BY <1>1, <1>2, BusInvariant, PTL DEF BusSpec, Spec
<1> QED
  BY <1>3, PoolImplementsExecutor, PTL

(* A Publish has reached a prefix of the handlers it copied and no other,  *)
(* and all of them when it returns nil.                                    *)
THEOREM ReachedIsPrefixHolds == BusSpec => []ReachedIsPrefix
<1>1. BusInv => ReachedIsPrefix
  BY DEF BusInv
<1> QED
  BY <1>1, BusInvariant, PTL
=============================================================================
