------------------------------ MODULE EventBus ------------------------------
(***************************************************************************)
(* The in-process bus (internal/event/bus.go) over the worker pool.        *)
(* Publish copies the handlers of the topic under the read lock and then   *)
(* submits one job per handler, in order, until a Submit fails; that error *)
(* is what it returns.  One topic, and one message per publisher, who is   *)
(* a client of the pool or a handler that runs in it.                      *)
(***************************************************************************)
EXTENDS WorkerPool

CONSTANTS Publishers, Handlers

ASSUME PublishersAssumption == Publishers \subseteq Callers
ASSUME JobsAssumption == Jobs = Publishers \X Handlers

VARIABLES
  handlers,  \* the topic's handlers, in the order they subscribed
  copied,    \* Publishers -> the handlers Publish copied
  index,     \* Publishers -> the handler it is at
  bpc        \* Publishers -> "idle", "publishing", "ok" or "failed"

busVars == <<handlers, copied, index, bpc>>
allVars == <<vars, busVars>>

BusTypeOK ==
  /\ handlers \in Seq(Handlers)
  /\ copied \in [Publishers -> Seq(Handlers)]
  /\ index \in [Publishers -> Nat]
  /\ \A p \in Publishers : index[p] \in 1..(Len(copied[p]) + 1)
  /\ bpc \in [Publishers -> {"idle", "publishing", "ok", "failed"}]

BusInit ==
  /\ Init
  /\ handlers = <<>>
  /\ copied = [p \in Publishers |-> <<>>]
  /\ index = [p \in Publishers |-> 1]
  /\ bpc = [p \in Publishers |-> "idle"]

Subscribed(h) == \E i \in 1..Len(handlers) : handlers[i] = h

(* Every handler subscribes once: the program's only one does so while the *)
(* application is put together.                                            *)
Subscribe(h) ==
  /\ ~Subscribed(h)
  /\ handlers' = Append(handlers, h)
  /\ UNCHANGED <<copied, index, bpc, vars>>

Publish(p) ==
  /\ bpc[p] = "idle"
  /\ p \in Workers => task[p] # None
  /\ bpc' = [bpc EXCEPT ![p] = "publishing"]
  /\ copied' = [copied EXCEPT ![p] = handlers]
  /\ UNCHANGED <<handlers, index, vars>>

Remaining(p) == copied[p]

SubmitNext(p) ==
  /\ bpc[p] = "publishing" /\ index[p] <= Len(Remaining(p))
  /\ Call(p, <<p, Remaining(p)[index[p]]>>)
  /\ UNCHANGED busVars

Accepted(p) ==
  /\ Send(p)
  /\ index' = [index EXCEPT ![p] = @ + 1]
  /\ UNCHANGED <<handlers, copied, bpc>>

MutGoOn(p) ==
  /\ Refuse(p) \/ TimeOut(p)
  /\ index' = [index EXCEPT ![p] = @ + 1]
  /\ UNCHANGED <<handlers, copied, bpc>>

(* The first error ends the loop; what was submitted before it stays so.   *)
Failed(p) ==
  /\ Refuse(p) \/ TimeOut(p)
  /\ bpc' = [bpc EXCEPT ![p] = "failed"]
  /\ UNCHANGED <<handlers, copied, index>>

Published(p) ==
  /\ bpc[p] = "publishing" /\ index[p] > Len(Remaining(p))
  /\ bpc' = [bpc EXCEPT ![p] = "ok"]
  /\ UNCHANGED <<handlers, copied, index, vars>>

BusStep(p) == \/ SubmitNext(p) \/ Accepted(p) \/ Failed(p) \/ Published(p)
              \/ Enter(p) /\ UNCHANGED busVars

(* A handler returns after the Publish it called.                          *)
HandlerReturns(w) ==
  /\ w \in Publishers => bpc[w] # "publishing"
  /\ Finish(w)

PoolStep ==
  /\ \/ \E w \in Workers : Working(w) \/ HandlerReturns(w)
     \/ \E s \in Stoppers : CallShutdown(s) \/ Stopping(s)
  /\ UNCHANGED busVars

BusNext == \/ \E h \in Handlers : Subscribe(h)
           \/ \E p \in Publishers : Publish(p) \/ BusStep(p)
           \/ PoolStep

BusSpec == BusInit /\ [][BusNext]_allVars

(* Goroutines are scheduled and timers fire.  A handler may hang.          *)
BusFairness ==
  /\ \A p \in Publishers : WF_allVars(BusStep(p))
  /\ \A w \in Workers : WF_allVars(Working(w) /\ UNCHANGED busVars)
  /\ \A s \in Stoppers : WF_allVars(Stopping(s) /\ UNCHANGED busVars)

BusLiveSpec == BusSpec /\ BusFairness

-----------------------------------------------------------------------------
(* Properties.                                                             *)

Job(p, i) == <<p, copied[p][i]>>

(* A Publish has reached the handlers it went through and no other, also   *)
(* when it failed or the pool is stopped meanwhile; it is not atomic, but  *)
(* it skips no handler, and when it returns nil it has reached each that   *)
(* had subscribed when it began.                                           *)
ReachedIsPrefix ==
  \A p \in Publishers :
     /\ \A i \in 1..Len(copied[p]) : Job(p, i) \in accepted <=> i < index[p]
     /\ bpc[p] = "ok" => index[p] > Len(copied[p])

(* If handlers return, every handler that a Publish has reached has run in *)
(* the end, also when the Publish failed later on, or the pool is shut     *)
(* down right after.                                                       *)
PublishedIsHandled == TasksEnd =>
  \A p \in Publishers : bpc[p] \in {"ok", "failed"} ~>
     \A i \in 1..(index[p] - 1) : Job(p, i) \in finished

-----------------------------------------------------------------------------
(* Why it holds: no handler is there twice, and who submits is a publisher *)
(* with the job its loop is at.                                            *)

NoHandlerTwice ==
  /\ \A i, k \in 1..Len(handlers) : handlers[i] = handlers[k] => i = k
  /\ \A p \in Publishers :
        \A i, k \in 1..Len(copied[p]) : copied[p][i] = copied[p][k] => i = k

NotBegun ==
  \A p \in Publishers : bpc[p] = "idle" =>
     copied[p] = <<>> /\ index[p] = 1 /\ \A h \in Handlers : <<p, h>> \notin accepted

AtIndex ==
  \A c \in Callers : spc[c] # "idle" =>
     /\ c \in Publishers /\ bpc[c] = "publishing" /\ index[c] <= Len(copied[c])
     /\ job[c] = Job(c, index[c])

BusInv == ReachedIsPrefix /\ NoHandlerTwice /\ NotBegun /\ AtIndex
=============================================================================
