------------------------------- MODULE Outbox -------------------------------
(***************************************************************************)
(* The transactional outbox: the outbox_events table, the dispatchers that *)
(* drain it (internal/event/outbox_dispatcher.go over                      *)
(* internal/repository/outbox_repository.go), one per running instance,    *)
(* and the RabbitMQ channel each of them publishes on (pkg/mq/rabbitmq.go).*)
(*                                                                         *)
(* Time is qualitative: "waiting" is "next_attempt_at is in the future"    *)
(* and "leased" is "locked_at is younger than lock_timeout_sec"; both end  *)
(* by actions of their own, Elapse and LeaseExpire.  A lease that runs out *)
(* while its holder is still working is a fault ("slow"): the run          *)
(* configurations that leave it out assume that a batch is always finished *)
(* within lock_timeout_sec.                                                *)
(***************************************************************************)
EXTENDS Naturals, FiniteSets

CONSTANTS Events,       (* events, numbered by created_at                  *)
          Dispatchers,  (* instances that run DispatchOnce                 *)
          MaxAttempts,  (* mq.max_attempts                                 *)
          BatchSize,    (* mq.batch_size                                   *)
          Faults,       (* kinds of fault that may happen                  *)
          MaxFaults     (* bound: how many faults happen in a behaviour    *)

FaultKinds == {"acquire", "publish", "mark", "channel", "loss",
               "stop", "crash", "slow"}

ASSUME EventsAssumption == Events \subseteq Nat
(* validateMQ rejects anything else.                                       *)
ASSUME ConfigAssumption == /\ MaxAttempts \in Nat \ {0}
                           /\ BatchSize \in Nat \ {0}
ASSUME FaultAssumption  == Faults \subseteq FaultKinds /\ MaxFaults \in Nat

VARIABLES
  (* the table: committed rows *)
  status,    \* Events -> the status column, "absent" before the row exists
  attempts,  \* Events -> the attempts column
  waiting,   \* Events -> is next_attempt_at in the future?
  leased,    \* Events -> is locked_at set and not stale?
  (* the dispatchers *)
  pc,        \* Dispatchers -> where DispatchOnce is
  rowLocks,  \* Dispatchers -> rows its open transaction has FOR UPDATE
  batch,     \* Dispatchers -> events acquired and not yet handled
  seen,      \* Dispatchers -> the Attempts values it read with the batch
  cancelled, \* Dispatchers -> has Shutdown cancelled its context?
  open,      \* Dispatchers -> is its AMQP channel open?
  (* the broker, and history *)
  delivered, \* events the broker holds
  sent,      \* events some Publish returned nil for
  failures,  \* Events -> how many Publish calls returned an error
  calls,     \* Events -> how many Publish calls returned
  faults,    \* faults spent so far
  losses     \* those of them that may keep an outcome from the row

rowVars  == <<status, attempts, waiting, leased>>
procVars == <<pc, rowLocks, batch, seen, cancelled, open>>
pubVars  == <<delivered, sent, failures, calls>>
faultVars == <<faults, losses>>
vars     == <<rowVars, procVars, pubVars, faultVars>>

Statuses == {"absent", "pending", "publishing", "published", "dead"}
Places   == {"down", "idle", "acquiring", "publishing", "markPublished", "markFailed"}

TypeOK ==
  /\ status    \in [Events -> Statuses]
  /\ attempts  \in [Events -> Nat]
  /\ waiting   \in [Events -> BOOLEAN]
  /\ leased    \in [Events -> BOOLEAN]
  /\ pc        \in [Dispatchers -> Places]
  /\ rowLocks  \in [Dispatchers -> SUBSET Events]
  /\ batch     \in [Dispatchers -> SUBSET Events]
  /\ seen      \in [Dispatchers -> [Events -> Nat]]
  /\ cancelled \in [Dispatchers -> BOOLEAN]
  /\ open      \in [Dispatchers -> BOOLEAN]
  /\ delivered \subseteq Events
  /\ sent      \subseteq Events
  /\ failures  \in [Events -> Nat]
  /\ calls     \in [Events -> Nat]
  /\ faults \in Nat /\ losses \in Nat

Unread == [e \in Events |-> 0]

Init ==
  /\ status = [e \in Events |-> "absent"]
  /\ attempts = [e \in Events |-> 0]
  /\ waiting = [e \in Events |-> FALSE]
  /\ leased = [e \in Events |-> FALSE]
  /\ pc = [d \in Dispatchers |-> "idle"]
  /\ rowLocks = [d \in Dispatchers |-> {}]
  /\ batch = [d \in Dispatchers |-> {}]
  /\ seen = [d \in Dispatchers |-> Unread]
  /\ cancelled = [d \in Dispatchers |-> FALSE]
  /\ open = [d \in Dispatchers |-> TRUE]
  /\ delivered = {}
  /\ sent = {}
  /\ failures = [e \in Events |-> 0]
  /\ calls = [e \in Events |-> 0]
  /\ faults = 0 /\ losses = 0

-----------------------------------------------------------------------------
(* Faults.                                                                 *)

Spend(f) == /\ f \in Faults
            /\ faults < MaxFaults
            /\ faults' = faults + 1
            /\ losses' = IF f \in {"mark", "stop", "crash"} THEN losses + 1 ELSE losses

(* A call whose context was cancelled fails for free; an unforeseen error  *)
(* of the database or the broker is a fault.                               *)
CallFails(d, f) == (cancelled[d] /\ UNCHANGED faultVars) \/ Spend(f)

-----------------------------------------------------------------------------
(* The business transaction: outbox.Create with the data it reports on.    *)

Create(e) ==
  /\ status[e] = "absent"
  /\ status' = [status EXCEPT ![e] = "pending"]
  /\ UNCHANGED <<attempts, waiting, leased, procVars, pubVars, faultVars>>

-----------------------------------------------------------------------------
(* AcquirePending: one transaction.  SELECT ... FOR UPDATE SKIP LOCKED     *)
(* takes the row locks, the UPDATE and the second SELECT become visible    *)
(* when it commits.                                                        *)

LockedByOthers(d) == UNION {rowLocks[o] : o \in Dispatchers \ {d}}

MutDueIgnoresRowLocks(d) ==
  {e \in Events : \/ status[e] = "pending" /\ ~waiting[e]
                  \/ status[e] = "publishing" /\ ~leased[e]}

MutDueIgnoresLease(d) ==
  {e \in Events \ LockedByOthers(d) :
     \/ status[e] = "pending" /\ ~waiting[e]
     \/ status[e] = "publishing"}

MutDueOnlyPending(d) ==
  {e \in Events \ LockedByOthers(d) : status[e] = "pending" /\ ~waiting[e]}

Due(d) ==
  {e \in Events \ LockedByOthers(d) :
     \/ status[e] = "pending" /\ ~waiting[e]
     \/ status[e] = "publishing" /\ ~leased[e]}

(* ORDER BY created_at ASC LIMIT n                                         *)
Oldest(S, n) == {e \in S : Cardinality({x \in S : x < e}) < n}

Select(d) ==
  /\ pc[d] = "idle" /\ ~cancelled[d]
  /\ Due(d) # {}
  /\ rowLocks' = [rowLocks EXCEPT ![d] = Oldest(Due(d), BatchSize)]
  /\ pc' = [pc EXCEPT ![d] = "acquiring"]
  /\ UNCHANGED <<rowVars, batch, seen, cancelled, open, pubVars, faultVars>>

TakeRows(S) ==
  /\ status' = [e \in Events |-> IF e \in S THEN "publishing" ELSE status[e]]
  /\ leased' = [e \in Events |-> e \in S \/ leased[e]]
  /\ UNCHANGED <<attempts, waiting>>

AcquireCommit(d) ==
  /\ pc[d] = "acquiring"
  /\ ~cancelled[d]
  /\ TakeRows(rowLocks[d])
  /\ batch' = [batch EXCEPT ![d] = rowLocks[d]]
  /\ seen' = [seen EXCEPT ![d] = [e \in Events |->
                                    IF e \in rowLocks[d] THEN attempts[e] ELSE 0]]
  /\ rowLocks' = [rowLocks EXCEPT ![d] = {}]
  /\ pc' = [pc EXCEPT ![d] = "publishing"]
  /\ UNCHANGED <<cancelled, open, pubVars, faultVars>>

(* DispatchOnce returns the error: the transaction was rolled back ...     *)
AcquireRollback(d) ==
  /\ pc[d] = "acquiring"
  /\ CallFails(d, "acquire")
  /\ rowLocks' = [rowLocks EXCEPT ![d] = {}]
  /\ pc' = [pc EXCEPT ![d] = "idle"]
  /\ UNCHANGED <<rowVars, batch, seen, cancelled, open, pubVars>>

(* ... or committed, and only the answer was lost.                         *)
AcquireUnseen(d) ==
  /\ pc[d] = "acquiring"
  /\ Spend("acquire")
  /\ TakeRows(rowLocks[d])
  /\ rowLocks' = [rowLocks EXCEPT ![d] = {}]
  /\ pc' = [pc EXCEPT ![d] = "idle"]
  /\ UNCHANGED <<batch, seen, cancelled, open, pubVars>>

-----------------------------------------------------------------------------
(* dispatchEvent, for the events of the batch in their order.              *)

Current(d, e) == e \in batch[d] /\ \A x \in batch[d] : e <= x

(* The channel has no publisher confirms: a nil error only says that the   *)
(* message was written to the connection.                                  *)
PublishOk(d, e) ==
  /\ pc[d] = "publishing" /\ Current(d, e)
  /\ open[d]
  /\ sent' = sent \cup {e}
  /\ calls' = [calls EXCEPT ![e] = @ + 1]
  /\ \/ delivered' = delivered \cup {e} /\ UNCHANGED faultVars
     \/ Spend("loss") /\ UNCHANGED delivered
  /\ pc' = [pc EXCEPT ![d] = "markPublished"]
  /\ UNCHANGED <<rowVars, rowLocks, batch, seen, cancelled, open, failures>>

MutPublishErrorIgnored(d, e) ==
  /\ pc[d] = "publishing" /\ Current(d, e)
  /\ pc' = [pc EXCEPT ![d] = "markPublished"]
  /\ CallFails(d, "publish")
  /\ UNCHANGED <<rowVars, rowLocks, batch, seen, cancelled, open, pubVars>>

(* On an open channel a failed call may still have reached the broker.     *)
PublishErr(d, e) ==
  /\ pc[d] = "publishing" /\ Current(d, e)
  /\ \/ ~open[d] /\ UNCHANGED <<delivered, faultVars>>
     \/ /\ open[d] /\ CallFails(d, "publish")
        /\ delivered' \in {delivered, delivered \cup {e}}
  /\ failures' = [failures EXCEPT ![e] = @ + 1]
  /\ calls' = [calls EXCEPT ![e] = @ + 1]
  /\ pc' = [pc EXCEPT ![d] = "markFailed"]
  /\ UNCHANGED <<rowVars, rowLocks, batch, seen, cancelled, open, sent>>

(* The loop goes on whatever the outcome for this event was.               *)
Advance(d, e) ==
  /\ batch' = [batch EXCEPT ![d] = @ \ {e}]
  /\ seen' = [seen EXCEPT ![d][e] = 0]
  /\ pc' = [pc EXCEPT ![d] = IF batch[d] = {e} THEN "idle" ELSE "publishing"]
  /\ UNCHANGED <<rowLocks, cancelled, open, pubVars>>

(* UPDATE ... WHERE id = ?: it waits for a row lock, and nothing else - it *)
(* neither reads locked_by nor the status it overwrites.                   *)
CanUpdate(d, e) == ~cancelled[d] /\ e \notin LockedByOthers(d)

MarkPublished(d, e) ==
  /\ pc[d] = "markPublished" /\ Current(d, e)
  /\ CanUpdate(d, e)
  /\ status' = [status EXCEPT ![e] = "published"]
  /\ leased' = [leased EXCEPT ![e] = FALSE]
  /\ Advance(d, e)
  /\ UNCHANGED <<attempts, waiting, faultVars>>

MutExhaustedEarly(n) == n >= MaxAttempts - 1
MutExhaustedLate(n) == n > MaxAttempts
Exhausted(n) == n >= MaxAttempts

AttemptsAfter(d, e) == seen[d][e] + 1

MarkFailed(d, e) ==
  /\ pc[d] = "markFailed" /\ Current(d, e)
  /\ CanUpdate(d, e)
  /\ attempts' = [attempts EXCEPT ![e] = AttemptsAfter(d, e)]
  /\ status' = [status EXCEPT ![e] =
                  IF Exhausted(AttemptsAfter(d, e)) THEN "dead" ELSE "pending"]
  /\ waiting' = [waiting EXCEPT ![e] = TRUE]
  /\ leased' = [leased EXCEPT ![e] = FALSE]
  /\ Advance(d, e)
  /\ UNCHANGED faultVars

(* The update failed: the row stays "publishing" until its lease runs out. *)
MarkLost(d, e) ==
  /\ pc[d] \in {"markPublished", "markFailed"} /\ Current(d, e)
  /\ CallFails(d, "mark")
  /\ Advance(d, e)
  /\ UNCHANGED rowVars

-----------------------------------------------------------------------------
(* The life of a dispatcher.                                               *)

(* Shutdown cancels the context of run, or its deadline cancels that of    *)
(* the scheduler's task; DispatchOnce goes on until it returns.            *)
Stop(d) ==
  /\ pc[d] # "down" /\ ~cancelled[d]
  /\ Spend("stop")
  /\ cancelled' = [cancelled EXCEPT ![d] = TRUE]
  /\ UNCHANGED <<rowVars, pc, rowLocks, batch, seen, open, pubVars>>

Exit(d) ==
  /\ pc[d] = "idle" /\ cancelled[d]
  /\ pc' = [pc EXCEPT ![d] = "down"]
  /\ UNCHANGED <<rowVars, rowLocks, batch, seen, cancelled, open, pubVars, faultVars>>

(* The scheduler starts its next task, in the same process.                *)
NextTask(d) ==
  /\ pc[d] = "idle" /\ cancelled[d]
  /\ cancelled' = [cancelled EXCEPT ![d] = FALSE]
  /\ UNCHANGED <<rowVars, pc, rowLocks, batch, seen, open, pubVars, faultVars>>

(* The process dies (or main exits before run returned): the database      *)
(* rolls an open transaction back.                                         *)
Crash(d) ==
  /\ pc[d] # "down"
  /\ Spend("crash")
  /\ pc' = [pc EXCEPT ![d] = "down"]
  /\ rowLocks' = [rowLocks EXCEPT ![d] = {}]
  /\ batch' = [batch EXCEPT ![d] = {}]
  /\ seen' = [seen EXCEPT ![d] = Unread]
  /\ UNCHANGED <<rowVars, cancelled, open, pubVars>>

(* A new process: NewPublisher opens a channel, Start a context.           *)
Restart(d) ==
  /\ pc[d] = "down"
  /\ pc' = [pc EXCEPT ![d] = "idle"]
  /\ cancelled' = [cancelled EXCEPT ![d] = FALSE]
  /\ open' = [open EXCEPT ![d] = TRUE]
  /\ UNCHANGED <<rowVars, rowLocks, batch, seen, pubVars, faultVars>>

(* The broker or the network closes the channel; nothing reopens it.       *)
ChannelClose(d) ==
  /\ pc[d] # "down" /\ open[d]
  /\ Spend("channel")
  /\ open' = [open EXCEPT ![d] = FALSE]
  /\ UNCHANGED <<rowVars, pc, rowLocks, batch, seen, cancelled, pubVars>>

-----------------------------------------------------------------------------
(* Time.                                                                   *)

Elapse(e) ==
  /\ waiting[e]
  /\ waiting' = [waiting EXCEPT ![e] = FALSE]
  /\ UNCHANGED <<status, attempts, leased, procVars, pubVars, faultVars>>

Held(e) == \E d \in Dispatchers : e \in batch[d]

LeaseExpire(e) ==
  /\ leased[e]
  /\ IF Held(e) THEN Spend("slow") ELSE UNCHANGED faultVars
  /\ leased' = [leased EXCEPT ![e] = FALSE]
  /\ UNCHANGED <<status, attempts, waiting, procVars, pubVars>>

-----------------------------------------------------------------------------
Work(d) ==
  \/ Select(d) \/ AcquireCommit(d) \/ AcquireRollback(d) \/ AcquireUnseen(d)
  \/ \E e \in Events : \/ PublishOk(d, e) \/ PublishErr(d, e)
                       \/ MarkPublished(d, e) \/ MarkFailed(d, e) \/ MarkLost(d, e)

Life(d) == \/ Stop(d) \/ Exit(d) \/ NextTask(d)
           \/ Crash(d) \/ Restart(d) \/ ChannelClose(d)

Next ==
  \/ \E e \in Events : Create(e) \/ Elapse(e) \/ LeaseExpire(e)
  \/ \E d \in Dispatchers : Work(d) \/ Life(d)

Spec == Init /\ [][Next]_vars

(* run polls, or the task is scheduled, until it is stopped, and calls     *)
(* return within their timeouts; what was stopped exits or is scheduled    *)
(* again, and an instance that went down comes back; the clock advances.   *)
(* No fault is ever forced to happen.                                      *)
Fairness ==
  /\ \A d \in Dispatchers : /\ WF_vars(Work(d))
                            /\ WF_vars(Exit(d) \/ NextTask(d) \/ Restart(d))
  /\ \A e \in Events : WF_vars(Elapse(e)) /\ WF_vars(LeaseExpire(e))

LiveSpec == Spec /\ Fairness

-----------------------------------------------------------------------------
(* Properties.                                                             *)

(* A row says "published" only if a Publish of that event returned nil:    *)
(* MarkPublished is reached on that branch of dispatchEvent only.          *)
PublishedWasSent == \A e \in Events : status[e] = "published" => e \in sent

(* An event is given up only after MaxAttempts of its Publish calls really *)
(* failed, whatever updates were lost, repeated or overwritten by another  *)
(* dispatcher with an older snapshot of the attempts column.               *)
DeadOnlyWhenExhausted ==
  \A e \in Events : status[e] = "dead" => failures[e] >= MaxAttempts

(* Publish is called for an event at most max_attempts times, whatever the *)
(* outcome, and once more for each time that an outcome may not have got   *)
(* into the row: an update that failed, a dispatcher that was cancelled or *)
(* died (no lease outrun by a batch: a stale snapshot of attempts forgets  *)
(* all that was counted since).                                            *)
PublishesBounded == \A e \in Events : calls[e] <= MaxAttempts + losses

(* SKIP LOCKED, the committed "publishing" status and the lease together   *)
(* give an event to one dispatcher at a time (no lease outrun by a batch). *)
ExclusiveHolder ==
  \A c, d \in Dispatchers :
     c # d => (batch[c] \cup rowLocks[c]) \cap (batch[d] \cup rowLocks[d]) = {}

(* A settled event is never touched again: although the updates are not    *)
(* fenced, no late MarkFailed reopens a published or a dead row.           *)
SettledIsFinal ==
  [][\A e \in Events : status[e] \in {"published", "dead"} => status'[e] = status[e]]_vars

(* attempts only ever counts up, one at a time.                            *)
AttemptsCountUp ==
  [][\A e \in Events : attempts'[e] \in {attempts[e], attempts[e] + 1}]_vars

(* No event is published again after a Publish of it has returned nil.     *)
(* Nothing fences that: it takes a dispatcher that neither dies nor is     *)
(* cancelled before its update, an update that succeeds, and no lease that *)
(* is outrun.  Rollbacks, failed publishes and closed channels do no harm. *)
SentOnce ==
  [][\A d \in Dispatchers, e \in Events : PublishOk(d, e) => e \notin sent]_vars

(* Every committed event is eventually settled for good, through crashes,  *)
(* stops, lost updates and errors: a row left "publishing" by a dispatcher *)
(* that died is reclaimed when its lease runs out.                         *)
EventuallySettled ==
  \A e \in Events : <>[](status[e] \in {"absent", "published", "dead"})

(* README: the outbox guarantees reliable publication.  A recorded event   *)
(* is eventually at the broker.                                            *)
ReliablePublication ==
  \A e \in Events : status[e] = "pending" ~> e \in delivered

-----------------------------------------------------------------------------
(* Why they hold: what a snapshot in a dispatcher's hands, an open         *)
(* transaction and a row each still vouch for.  Evidence survives every    *)
(* fault; Ownership needs leases that are not outrun.                      *)

Settled(e) == status[e] \in {"published", "dead"}

RowEvidence ==
  /\ PublishedWasSent
  /\ \A e \in Events : /\ attempts[e] <= failures[e] /\ attempts[e] <= MaxAttempts
                       /\ status[e] = "dead" => attempts[e] = MaxAttempts
                       /\ ~Settled(e) => attempts[e] < MaxAttempts

BatchEvidence ==
  \A d \in Dispatchers :
     /\ \A e \in batch[d] : seen[d][e] <= failures[e] /\ seen[d][e] < MaxAttempts
     /\ \A e \in Events : Current(d, e) =>
          /\ pc[d] = "markFailed" => seen[d][e] < failures[e]
          /\ pc[d] = "markPublished" => e \in sent

LockEvidence ==
  \A d \in Dispatchers :
     /\ pc[d] # "acquiring" => rowLocks[d] = {}
     /\ \A e \in rowLocks[d] : status[e] \in {"pending", "publishing"}

Evidence == RowEvidence /\ BatchEvidence /\ LockEvidence

Ownership ==
  /\ ExclusiveHolder
  /\ \A d \in Dispatchers :
       /\ pc[d] \in {"down", "idle", "acquiring"} => batch[d] = {}
       /\ \A e \in batch[d] :
            status[e] = "publishing" /\ leased[e] /\ seen[d][e] = attempts[e]

(* Of the calls for an event, the row counts those that failed and were    *)
(* marked; one more is on its way to the row or has settled it, and each   *)
(* of the others has cost a loss.  One that a cancelled dispatcher has     *)
(* been charged for may still be to come.                                  *)
InFlight(e) == \E d \in Dispatchers : pc[d] \in {"markPublished", "markFailed"} /\ Current(d, e)
Charged(e) == \E d \in Dispatchers : cancelled[d] /\ e \in batch[d]
One(b) == IF b THEN 1 ELSE 0

CallsCounted ==
  \A e \in Events :
     /\ calls[e] + One(Charged(e)) <=
          attempts[e] + losses + One(InFlight(e) \/ status[e] = "published")
     /\ status[e] = "published" => attempts[e] < MaxAttempts

(* While no dispatcher is stopped on its way from a Publish to the update, *)
(* what was sent is marked or about to be.                                 *)
SentIsMarked ==
  /\ \A d \in Dispatchers : ~cancelled[d]
  /\ \A e \in sent : \/ status[e] = "published"
                     \/ \E d \in Dispatchers : pc[d] = "markPublished" /\ Current(d, e)

-----------------------------------------------------------------------------
(* The abstract specification implemented: a row that is pending or being  *)
(* published is "recorded".                                                *)
Outcome(s) == IF s \in {"pending", "publishing"} THEN "recorded" ELSE s

Delivery == INSTANCE EventDelivery WITH
              outcome    <- [e \in Events |-> Outcome(status[e])],
              handedOver <- sent,
              failed     <- failures

DeliverySpec == Delivery!Spec
=============================================================================
