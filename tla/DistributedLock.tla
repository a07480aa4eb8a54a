--------------------------- MODULE DistributedLock ---------------------------
(***************************************************************************)
(* The Redis lock of pkg/cache/distributed_lock.go and its one user, the   *)
(* scheduler's outbox task (internal/scheduler/scheduler.go): every        *)
(* instance enqueues the task, and WithLock is to let one DispatchOnce run *)
(* at a time.  WithLockAndWatchdog is the same module with Watchdog TRUE.  *)
(*                                                                         *)
(* Time advances in ticks, by Tick only.  Every wait the code bounds by a  *)
(* timeout bounds Tick: processes are assumed not to stall in between.     *)
(* Redis serves a request at one instant; the answer, or the request of a  *)
(* call that was given up, may be late or lost.                            *)
(***************************************************************************)
EXTENDS Integers

CONSTANTS Clients,     (* instances running the scheduler's task             *)
          Tokens,      (* uuids; a new one for every Acquire                 *)
          None,        (* no token                                           *)
          TTL,         (* lock ttl                                           *)
          TaskTimeout, (* deadline of the context given to WithLock          *)
          Linger,      (* how long fn still runs once its context is done    *)
          Latency,     (* longest SETNX call, the client's own timeout       *)
          CallTimeout, (* the one second granted to a renewal or a release   *)
          Watchdog     (* WithLockAndWatchdog instead of WithLock            *)

(* validateScheduler asks for no more of the two configured durations.     *)
ASSUME DurationAssumption ==
  /\ TTL \in Nat \ {0} /\ TaskTimeout \in Nat \ {0}
  /\ Linger \in Nat /\ Latency \in Nat /\ CallTimeout \in Nat \ {0}
ASSUME WatchdogAssumption == Watchdog \in BOOLEAN
ASSUME NoneAssumption == None \notin Tokens

VARIABLES
  key,       \* the token Redis holds for the resource, or None
  left,      \* ticks until that key expires
  phase,     \* Clients -> where WithLock is
  token,     \* Clients -> the token of its Acquire, or None
  age,       \* Clients -> ticks since the task (its context) started
  cancelled, \* Clients -> has the watchdog cancelled fn's context?
  timer,     \* Clients -> ticks since that, or since Release was sent
  dog,       \* Clients -> where the watchdog goroutine is
  dogAge,    \* Clients -> ticks since its ticker last fired
  late       \* requests of calls given up, still on their way to Redis

lockVars   == <<key, left>>
dogVars    == <<dog, dogAge>>
clientVars == <<phase, token, age, cancelled, timer>>
vars       == <<lockVars, clientVars, dogVars, late>>

Phases == {"idle", "acquiring", "granted", "critical", "stopping", "releasing"}
Dogs   == {"off", "ticking", "renewing", "renewed", "refused"}
Calls  == {"setnx", "renew", "release"} \X Tokens

TypeOK ==
  /\ key       \in Tokens \cup {None}
  /\ left      \in 0..TTL /\ (key # None => left > 0)
  /\ phase     \in [Clients -> Phases]
  /\ token     \in [Clients -> Tokens \cup {None}]
  /\ age       \in [Clients -> Nat]
  /\ cancelled \in [Clients -> BOOLEAN]
  /\ timer     \in [Clients -> Nat]
  /\ dog       \in [Clients -> Dogs]
  /\ dogAge    \in [Clients -> Nat]
  /\ late      \subseteq Calls
  /\ \A c \in Clients : phase[c] # "idle" \/ dog[c] # "off" => token[c] # None

Init ==
  /\ key = None /\ left = 0
  /\ phase = [c \in Clients |-> "idle"]
  /\ token = [c \in Clients |-> None]
  /\ age = [c \in Clients |-> 0]
  /\ cancelled = [c \in Clients |-> FALSE]
  /\ timer = [c \in Clients |-> 0]
  /\ dog = [c \in Clients |-> "off"]
  /\ dogAge = [c \in Clients |-> 0]
  /\ late = {}

-----------------------------------------------------------------------------
(* What Redis does with a request: SET NX PX and the two Lua scripts.      *)

SetNX(t) == IF key = None THEN key' = t /\ left' = TTL ELSE UNCHANGED lockVars

MutRenewNothing(t) == UNCHANGED lockVars
Renew(t) == IF key = t THEN left' = TTL /\ UNCHANGED key ELSE UNCHANGED lockVars

MutDeleteAny(t) == key' = None /\ left' = 0

Delete(t) == IF key = t THEN key' = None /\ left' = 0 ELSE UNCHANGED lockVars

Serve(call) == CASE call[1] = "setnx"   -> SetNX(call[2])
                 [] call[1] = "renew"   -> Renew(call[2])
                 [] call[1] = "release" -> Delete(call[2])

(* A call that ends in an error: its request is lost, or arrives later.    *)
GiveUp(kind, t) == late' \in {late, late \cup {<<kind, t>>}}

ServeLate == \E call \in late : /\ Serve(call)
                                /\ late' = late \ {call}
                                /\ UNCHANGED <<clientVars, dogVars>>

LoseLate == \E call \in late : /\ late' = late \ {call}
                               /\ UNCHANGED <<lockVars, clientVars, dogVars>>

-----------------------------------------------------------------------------
(* Acquire.                                                                *)

Fresh(t) == /\ t # key /\ \A c \in Clients : t # token[c]
            /\ \A call \in late : t # call[2]

Start(c) ==
  /\ phase[c] = "idle"
  /\ \E t \in Tokens : Fresh(t) /\ token' = [token EXCEPT ![c] = t]
  /\ phase' = [phase EXCEPT ![c] = "acquiring"]
  /\ UNCHANGED <<lockVars, age, cancelled, timer, dogVars, late>>

(* WithLock returns: nothing of the call is left in this client.           *)
Done(c) ==
  /\ phase' = [phase EXCEPT ![c] = "idle"]
  /\ token' = [token EXCEPT ![c] = None]
  /\ age' = [age EXCEPT ![c] = 0]
  /\ cancelled' = [cancelled EXCEPT ![c] = FALSE]
  /\ timer' = [timer EXCEPT ![c] = 0]
  /\ dog' = [dog EXCEPT ![c] = "off"]
  /\ dogAge' = [dogAge EXCEPT ![c] = 0]

MutVacant == TRUE
Vacant == key = None

Grant(c) ==
  /\ phase[c] = "acquiring" /\ Vacant
  /\ SetNX(token[c])
  /\ phase' = [phase EXCEPT ![c] = "granted"]
  /\ UNCHANGED <<token, age, cancelled, timer, dogVars, late>>

(* ErrLockNotAcquired: WithLock reports acquired = false, the task skips.  *)
Refuse(c) ==
  /\ phase[c] = "acquiring" /\ ~Vacant
  /\ Done(c)
  /\ UNCHANGED <<lockVars, late>>

(* An error or a timeout, before or after Redis served the request.        *)
AcquireFails(c) ==
  /\ \/ phase[c] = "acquiring" /\ GiveUp("setnx", token[c])
     \/ phase[c] = "granted" /\ UNCHANGED late
  /\ Done(c)
  /\ UNCHANGED lockVars

(* The answer arrives: fn starts, and with it the watchdog.                *)
Enter(c) ==
  /\ phase[c] = "granted"
  /\ phase' = [phase EXCEPT ![c] = "critical"]
  /\ dog' = [dog EXCEPT ![c] = IF Watchdog THEN "ticking" ELSE "off"]
  /\ UNCHANGED <<lockVars, token, age, cancelled, timer, dogAge, late>>

-----------------------------------------------------------------------------
(* StartWatchdog's goroutine.                                              *)

Interval == IF TTL \div 3 > 0 THEN TTL \div 3 ELSE 1

RenewSend(c) ==
  /\ dog[c] = "ticking" /\ dogAge[c] >= Interval
  /\ dog' = [dog EXCEPT ![c] = "renewing"]
  /\ dogAge' = [dogAge EXCEPT ![c] = 0]
  /\ UNCHANGED <<lockVars, clientVars, late>>

RenewServe(c) ==
  /\ dog[c] = "renewing"
  /\ Renew(token[c])
  /\ dog' = [dog EXCEPT ![c] = IF key = token[c] THEN "renewed" ELSE "refused"]
  /\ UNCHANGED <<clientVars, dogAge, late>>

Renewed(c) ==
  /\ dog[c] = "renewed"
  /\ dog' = [dog EXCEPT ![c] = "ticking"]
  /\ UNCHANGED <<lockVars, clientVars, dogAge, late>>

MutCancelForgotten(c) == UNCHANGED clientVars

(* The key is not ours any more, or the call failed: cancel() and return.  *)
CancelFn(c) ==
  /\ cancelled' = [cancelled EXCEPT ![c] = TRUE]
  /\ UNCHANGED <<phase, token, age, timer>>

RenewFails(c) ==
  /\ \/ dog[c] = "renewing" /\ GiveUp("renew", token[c])
     \/ dog[c] \in {"renewed", "refused"} /\ UNCHANGED late
  /\ CancelFn(c)
  /\ dog' = [dog EXCEPT ![c] = "off"]
  /\ UNCHANGED <<lockVars, dogAge>>

-----------------------------------------------------------------------------
(* fn returns; StopWatchdog waits for the goroutine; Release.              *)

Leave(c) ==
  /\ phase[c] = "critical"
  /\ phase' = [phase EXCEPT ![c] = "stopping"]
  /\ timer' = [timer EXCEPT ![c] = 0]
  /\ UNCHANGED <<lockVars, token, age, cancelled, dogVars, late>>

MutStopNotSignalled(c) ==
  /\ phase[c] = "stopping" /\ dog[c] = "off"
  /\ phase' = [phase EXCEPT ![c] = "releasing"]
  /\ UNCHANGED <<lockVars, token, age, cancelled, timer, dogVars, late>>

StopWatchdog(c) ==
  /\ phase[c] = "stopping" /\ dog[c] \in {"off", "ticking"}
  /\ dog' = [dog EXCEPT ![c] = "off"]
  /\ phase' = [phase EXCEPT ![c] = "releasing"]
  /\ UNCHANGED <<lockVars, token, age, cancelled, timer, dogAge, late>>

Release(c) ==
  /\ phase[c] = "releasing"
  /\ Delete(token[c])
  /\ Done(c)
  /\ UNCHANGED late

ReleaseFails(c) ==
  /\ phase[c] = "releasing"
  /\ GiveUp("release", token[c])
  /\ Done(c)
  /\ UNCHANGED lockVars

(* The process dies; whatever it had sent may still arrive.                *)
Crash(c) ==
  /\ phase[c] # "idle"
  /\ \/ UNCHANGED late
     \/ phase[c] = "acquiring" /\ GiveUp("setnx", token[c])
     \/ dog[c] = "renewing" /\ GiveUp("renew", token[c])
     \/ phase[c] = "releasing" /\ GiveUp("release", token[c])
  /\ Done(c)
  /\ UNCHANGED lockVars

-----------------------------------------------------------------------------
(* Time.  A wait that has reached its bound ends before the clock goes on. *)

Busy(c) == phase[c] \in {"acquiring", "granted", "critical"}

MayWait(c) ==
  /\ phase[c] \in {"acquiring", "granted"} => age[c] < Latency /\ age[c] < TaskTimeout
  /\ phase[c] = "critical" => /\ age[c] < TaskTimeout + Linger
                              /\ cancelled[c] => timer[c] < Linger
  /\ phase[c] = "stopping" => dog[c] \notin {"off", "ticking"}
  /\ phase[c] = "releasing" => timer[c] < CallTimeout
  /\ dog[c] = "ticking" => dogAge[c] < Interval
  /\ dog[c] \in {"renewing", "renewed", "refused"} => dogAge[c] < CallTimeout

Tick ==
  /\ \A c \in Clients : MayWait(c)
  /\ left' = IF left > 0 THEN left - 1 ELSE 0
  /\ key' = IF left > 1 THEN key ELSE None
  /\ age' = [c \in Clients |-> IF Busy(c) THEN age[c] + 1 ELSE age[c]]
  /\ timer' = [c \in Clients |->
                 IF phase[c] = "releasing" \/ (phase[c] = "critical" /\ cancelled[c])
                 THEN timer[c] + 1 ELSE timer[c]]
  /\ dogAge' = [c \in Clients |-> IF dog[c] = "off" THEN dogAge[c] ELSE dogAge[c] + 1]
  /\ UNCHANGED <<phase, token, cancelled, dog, late>>

-----------------------------------------------------------------------------
Progress(c) == \/ Grant(c) \/ Refuse(c) \/ AcquireFails(c) \/ Enter(c)
               \/ RenewSend(c) \/ RenewServe(c) \/ Renewed(c) \/ RenewFails(c)
               \/ Leave(c) \/ StopWatchdog(c) \/ Release(c) \/ ReleaseFails(c)

Next == \/ Tick \/ ServeLate \/ LoseLate
        \/ \E c \in Clients : Start(c) \/ Crash(c) \/ Progress(c)

Spec == Init /\ [][Next]_vars

(* Calls return, fn returns and goroutines run; the clock does not stop,   *)
(* but a tick waits for what has reached its bound, so its fairness is     *)
(* strong.  The task need not be enqueued again, and nobody must crash.    *)
(* StopWatchdog's is strong too: the goroutine's select picks at random    *)
(* when both the stop channel and the ticker are ready.                    *)
Fairness ==
  /\ SF_vars(Tick)
  /\ \A c \in Clients : WF_vars(Progress(c)) /\ SF_vars(StopWatchdog(c))

LiveSpec == Spec /\ Fairness

-----------------------------------------------------------------------------
(* Properties.                                                             *)

(* README: the distributed lock prevents repeated execution.  Never do two *)
(* instances run DispatchOnce under the lock at the same time.             *)
MutualExclusion ==
  \A c, d \in Clients : phase[c] = "critical" /\ phase[d] = "critical" => c = d

(* WithLockAndWatchdog: "If renewal fails, the context passed to fn is     *)
(* cancelled to prevent operating without lock protection": while fn's     *)
(* context is live, the key is its own.                                    *)
ContextDone(c) == cancelled[c] \/ age[c] >= TaskTimeout
ProtectedWhileLive ==
  \A c \in Clients : phase[c] = "critical" /\ ~ContextDone(c) => key = token[c]

(* Nobody else's call, late or repeated, takes the key away from a client  *)
(* in its critical section: it loses it to the expiry only.                *)
LostToExpiryOnly ==
  [][\A c \in Clients :
       phase[c] = "critical" /\ key = token[c] /\ key' # token[c] => left = 1]_vars

(* No key is held for ever: not by a client that died, not by a release    *)
(* that was lost, not by an acquisition whose answer was lost.             *)
LockComesFree == \A t \in Tokens : key = t ~> key # t

-----------------------------------------------------------------------------
(* Why they hold, and when: the lease left when a client holds the lock,   *)
(* counted from the last request Redis served for it.                      *)

(* WithLock: fn is over before the key Acquire set expires.                *)
TaskFitsLease == ~Watchdog /\ TaskTimeout + Linger < TTL

(* WithLockAndWatchdog: a renewal is sent within Gap of the one before, it *)
(* fails within CallTimeout, and fn then stops before the key expires.     *)
Gap == IF Interval > CallTimeout THEN Interval ELSE CallTimeout
WatchdogInTime == Watchdog /\ Latency + Gap + CallTimeout + Linger < TTL

TokensUnique ==
  /\ \A c, d \in Clients : c # d /\ token[c] # None => token[c] # token[d]
  /\ \A call \in late : call[1] # "renew" => \A c \in Clients : token[c] # call[2]

AgeBounds ==
  \A c \in Clients :
     /\ phase[c] = "idle" => age[c] = 0
     /\ phase[c] \in {"acquiring", "granted"} => age[c] <= TaskTimeout /\ age[c] <= Latency
     /\ phase[c] = "critical" => age[c] <= TaskTimeout + Linger
     /\ phase[c] \in {"idle", "acquiring", "granted"} =>
          dog[c] = "off" /\ dogAge[c] = 0 /\ ~cancelled[c] /\ timer[c] = 0
     /\ ~Watchdog => dog[c] = "off" /\ ~cancelled[c]

TaskLease ==
  \A c \in Clients : phase[c] \in {"granted", "critical"} =>
     key = token[c] /\ left + age[c] >= TTL

WatchdogLease ==
  \A c \in Clients :
     /\ phase[c] = "granted" => key = token[c] /\ left + age[c] >= TTL
     /\ phase[c] = "critical" =>
          /\ key = token[c]
          /\ dog[c] # "refused"
          /\ dog[c] = "ticking" => /\ left + dogAge[c] + Latency >= TTL
                                   /\ dogAge[c] <= Gap
          /\ dog[c] = "renewing" => /\ left + dogAge[c] + Gap + Latency >= TTL
                                    /\ dogAge[c] <= CallTimeout
          /\ dog[c] = "renewed" => left + dogAge[c] >= TTL /\ dogAge[c] <= CallTimeout
          /\ cancelled[c] <=> dog[c] = "off"
          /\ ~cancelled[c] => timer[c] = 0
          /\ cancelled[c] => /\ left + timer[c] + Gap + CallTimeout + Latency >= TTL
                             /\ timer[c] <= Linger

TaskInv     == TokensUnique /\ AgeBounds /\ TaskLease
WatchdogInv == TokensUnique /\ AgeBounds /\ WatchdogLease

-----------------------------------------------------------------------------
(* The abstract specification implemented: a client has the lock from the  *)
(* moment Redis granted it until its fn returns.                           *)
Holders == {c \in Clients : phase[c] \in {"granted", "critical"}}

Lock == INSTANCE Mutex WITH holders <- Holders

MutexSpec == Lock!Spec
=============================================================================
