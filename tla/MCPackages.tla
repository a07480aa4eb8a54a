----------------------------- MODULE MCPackages -----------------------------
(***************************************************************************)
(* Four packages that share nothing but the clocks, checked in one run:    *)
(* the initial state says which of them moves, the others stay as they are.*)
(***************************************************************************)
EXTENDS Sessions, RateLimiter, LocalStorage, Config, TLC

VARIABLE part

sessionOwn == <<stage, pair, entry, req, blocked, fate>>
limiterOwn == <<verdict, score, asked, ran, members, expiry, counted>>

vars == <<part, clockVars, sessionOwn, limiterOwn, storageVars, configVars>>

NoSecrets == [access |-> "", previous_access |-> "", refresh |-> "", previous_refresh |-> "",
              signed_url |-> ""]

Unconfigured == /\ inFile = {} /\ inEnv = {} /\ secrets = NoSecrets
                /\ result = [by |-> "nobody", cfg |-> NoConfig]

Init == /\ SessionsInit /\ LimiterInit /\ StorageInit
        /\ \/ part \in {"sessions", "limiter", "storage"} /\ Unconfigured
           \/ /\ part = "config" /\ ConfigInit
              /\ secrets.previous_access = Blank <=> secrets.previous_refresh = Blank
        /\ part \in {"storage", "config"} => skew = [i \in Instances |-> 0]

Next == /\ UNCHANGED part
        /\ \/ /\ part = "sessions" /\ SessionsNext
              /\ UNCHANGED <<limiterOwn, storageVars, configVars>>
           \/ /\ part = "limiter" /\ LimiterNext
              /\ UNCHANGED <<sessionOwn, storageVars, configVars>>
           \/ /\ part = "storage" /\ StorageNext
              /\ UNCHANGED <<clockVars, sessionOwn, limiterOwn, configVars>>
           \/ /\ part = "config" /\ ConfigNext
              /\ UNCHANGED <<clockVars, sessionOwn, limiterOwn, storageVars>>

Spec == Init /\ [][Next]_vars

(* The token manager alone.                                                *)
RotationSpec == part = "sessions" /\ Init /\ [][Next]_vars

-----------------------------------------------------------------------------
(* Two instances rotate from k1 to k2, in one step as the manager's test   *)
(* does, and drop k1 later; the two secrets share the characters that make *)
(* up their id.                                                            *)
CONSTANTS k1, k2

MCKeyID == [k \in {k1, k2} |-> "kid"]
MCTTL == [access |-> 3, refresh |-> 4]
MCPlan == << [primary |-> k1, previous |-> None], [primary |-> k2, previous |-> k1],
             [primary |-> k2, previous |-> None] >>

(* The client of the limiter makes the calls that are requests here, too,  *)
(* and so on: names are shared to have few symmetries.                     *)
CONSTANTS n1, n2, n3

MCSymmetry == Permutations({n1, n2}) \cup Permutations(Instances)

-----------------------------------------------------------------------------
(* A file that is otherwise empty, or turns on the queue, or the scheduler *)
(* as well, and one more setting in the file and one in the environment,   *)
(* of the same section, with a value that is missing, wrong or just right. *)
Flags == {"enabled", "auto_run"}
MCAddresses == {"127.0.0.1:6379", "other:6379"}

Values(k) == IF k \in Flags THEN BOOLEAN
             ELSE IF k \notin Texts THEN {-1, 0, 1}
             ELSE {"", "other"} \cup (IF k = "driver" THEN {"s3"} ELSE IF k = "addr" THEN MCAddresses ELSE {})

Setting(x) == UNION {{[section |-> x, key |-> k, value |-> v] : v \in Values(k)} : k \in DOMAIN Defaults[x]}

AtMostOne(x) == {{}} \cup {{s} : s \in Setting(x)}

On(x) == [section |-> x, key |-> "enabled", value |-> TRUE]
Queue == {On("mq"), [section |-> "mq", key |-> "url", value |-> "amqp"]}

(* What the file says already it does not say twice.                       *)
With(S, T) == S \cup {t \in T : \A s \in S : Key(s) # Key(t)}

MCInputs ==
  UNION {{[file |-> With(S, T), env |-> E] : S \in {{}, Queue, Queue \cup {On("scheduler")}},
                                             T \in AtMostOne(x), E \in AtMostOne(x)}
         : x \in DOMAIN Defaults}
=============================================================================
