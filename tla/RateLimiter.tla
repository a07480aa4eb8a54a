----------------------------- MODULE RateLimiter -----------------------------
(***************************************************************************)
(* The sliding window of one client (pkg/cache/sliding_window.go), shared  *)
(* by all instances, as middleware.RateLimiter uses it.  A call reads its  *)
(* instance's clock and sends it along; the script that Redis runs some    *)
(* time later judges by that reading.  A call whose answer was lost is     *)
(* sent again by the Redis client, with the same reading and member.       *)
(***************************************************************************)
EXTENDS Clocks, FiniteSets

CONSTANTS Calls,     (* requests of the client                             *)
          Limit,     (* rps * window_sec, or burst if that is not positive *)
          Window,    (* rate_limit.window_sec                              *)
          MaxDelay   (* bound: from the reading to the script's last run   *)

(* validateRateLimit.                                                      *)
ASSUME LimiterAssumption == Limit \in Nat \ {0} /\ Window \in Nat \ {0} /\ MaxDelay \in Nat
ASSUME CallsAssumption == IsFiniteSet(Calls)

VARIABLES
  verdict,  \* Calls -> "idle", "sent", or what became of it
  score,    \* Calls -> the clock it read
  asked,    \* Calls -> when it did, until the call has returned
  ran,      \* Calls -> when its script ran last
  members,  \* the calls whose members are in the sorted set
  expiry,   \* when Redis drops the sorted set
  counted   \* calls a run of the script has let through

limiterVars == <<clockVars, verdict, score, asked, ran, members, expiry, counted>>

LimiterTypeOK ==
  /\ now \in Nat /\ skew \in [Instances -> 0..MaxSkew]
  /\ verdict \in [Calls -> {"idle", "sent", "allowed", "rejected", "open"}]
  /\ score \in [Calls -> Nat] /\ asked \in [Calls -> Nat] /\ ran \in [Calls -> Nat]
  /\ members \subseteq counted /\ counted \subseteq Calls
  /\ expiry \in Nat

LimiterInit ==
  /\ ClockInit
  /\ verdict = [c \in Calls |-> "idle"]
  /\ score = [c \in Calls |-> 0] /\ asked = score /\ ran = score
  /\ members = {} /\ expiry = 0 /\ counted = {}

(* Check, up to the command that leaves for Redis.                         *)
Ask(c, i) ==
  /\ verdict[c] = "idle"
  /\ verdict' = [verdict EXCEPT ![c] = "sent"]
  /\ score' = [score EXCEPT ![c] = Clock(i)]
  /\ asked' = [asked EXCEPT ![c] = now]
  /\ UNCHANGED <<clockVars, ran, members, expiry, counted>>

MutKept(c) == {d \in members : score[d] + Window > score[c] + 1}
(* ZREMRANGEBYSCORE -inf .. now - window.                                  *)
Kept(c) == {d \in members : score[d] + Window > score[c]}

Full(c) == Cardinality(Kept(c)) >= Limit

MutAdded(c) == Kept(c) \cup {c}
Added(c) == IF Full(c) THEN Kept(c) ELSE Kept(c) \cup {c}

(* The script, and its answer, which may not arrive.                       *)
RunScript(c) ==
  /\ verdict[c] = "sent"
  /\ members' = Added(c)
  /\ counted' = IF Full(c) THEN counted ELSE counted \cup {c}
  /\ expiry' = now + Window
  /\ ran' = [ran EXCEPT ![c] = now]
  /\ \/ /\ verdict' = [verdict EXCEPT ![c] = IF Full(c) THEN "rejected" ELSE "allowed"]
        /\ asked' = [asked EXCEPT ![c] = 0]
     \/ UNCHANGED <<verdict, asked>>
  /\ UNCHANGED <<clockVars, score>>

(* The call failed, whether its script ran or not: the request passes.     *)
DegradeOpen(c) ==
  /\ verdict[c] = "sent"
  /\ verdict' = [verdict EXCEPT ![c] = "open"]
  /\ asked' = [asked EXCEPT ![c] = 0]
  /\ UNCHANGED <<clockVars, score, ran, members, expiry, counted>>

LimiterPass ==
  /\ \A c \in Calls : verdict[c] = "sent" => now < asked[c] + MaxDelay
  /\ Pass
  /\ members' = IF now' < expiry THEN members ELSE {}
  /\ UNCHANGED <<verdict, score, asked, ran, expiry, counted>>

LimiterNext ==
  \/ \E c \in Calls : (\E i \in Instances : Ask(c, i)) \/ RunScript(c) \/ DegradeOpen(c)
  \/ LimiterPass

LimiterSpec == LimiterInit /\ [][LimiterNext]_limiterVars

-----------------------------------------------------------------------------
(* Properties.                                                             *)

(* What two readings of one moment, or one reading and its use, may differ *)
(* by is what the limiter loses of its window.                             *)
Recent(c) == now + MaxSkew + MaxDelay < ran[c] + Window

(* No more than Limit calls are let through within a window shortened by   *)
(* the clocks' skew and the calls' delay, over all instances together and  *)
(* whatever answers were lost - but for those let through for an error.    *)
BoundedRate == Cardinality({c \in Calls : verdict[c] = "allowed" /\ Recent(c)}) <= Limit

(* A call is turned away only if Limit calls were counted within a window  *)
(* lengthened by as much.  Rejected ones are not, so no client is shut out *)
(* by going on; but a call that is repeated may count against itself.      *)
RejectedWhenFull ==
  [][\A c \in Calls : verdict[c] # "rejected" /\ verdict'[c] = "rejected" =>
        Cardinality({d \in counted : now < ran[d] + Window + MaxSkew + MaxDelay}) >= Limit]_limiterVars

-----------------------------------------------------------------------------
(* Why they hold: a reading differs from the moment its script ran by no   *)
(* more than the skew and the delay, and what is counted is a member until *)
(* a reading a window later.                                               *)

AskedInTime ==
  \A c \in Calls : verdict[c] = "sent" =>
     /\ asked[c] <= now /\ now <= asked[c] + MaxDelay
     /\ asked[c] <= score[c] /\ score[c] <= asked[c] + MaxSkew

RanInTime ==
  \A c \in counted :
     /\ verdict[c] # "idle" /\ ran[c] <= now
     /\ ran[c] <= score[c] + MaxDelay /\ score[c] <= ran[c] + MaxSkew
     /\ ran[c] + Window <= expiry

CountedStay ==
  \A c \in Calls : verdict[c] = "allowed" => c \in counted /\ (Recent(c) => c \in members)

LimiterInv == /\ AskedInTime /\ RanInTime /\ CountedStay
              /\ Cardinality(members) <= Limit
=============================================================================
