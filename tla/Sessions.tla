------------------------------ MODULE Sessions ------------------------------
(***************************************************************************)
(* The token manager (pkg/jwt) on several instances: one token pair, the   *)
(* Redis entries that belong to it, the requests that present its tokens   *)
(* to Auth (internal/middleware/auth.go) and to the manager, and secrets   *)
(* that are rotated under way by restarting one instance after the other.  *)
(*                                                                         *)
(* A token is the key it was signed with and the two times of its claims.  *)
(***************************************************************************)
EXTENDS Clocks, Sequences, FiniteSetsExt

CONSTANTS Requests,    (* calls of the manager in progress at a time       *)
          Keys,        (* secrets                                          *)
          KeyID,       (* their first eight characters, sent as kid        *)
          Plan,        (* the configurations, in the order of deployment   *)
          TTL,         (* jwt.access_ttl_sec and jwt.refresh_ttl_sec       *)
          None         (* no previous secret, no key                       *)

Kinds == {"access", "refresh"}

(* buildKeys: what it signs with first.                                    *)
BuildKeys(c) == IF c.previous \in {None, c.primary} THEN <<c.primary>>
                ELSE <<c.primary, c.previous>>

KeySet(n) == {BuildKeys(Plan[n])[k] : k \in DOMAIN BuildKeys(Plan[n])}

ASSUME TTLAssumption == TTL \in [Kinds -> Nat \ {0}]
ASSUME KeyAssumption == None \notin Keys \cup Instances /\ DOMAIN KeyID = Keys

(* How the operator rotates: the secret that was signed with so far is     *)
(* given to the next configuration as its own or as the previous one.      *)
ASSUME PlanAssumption ==
  /\ Plan \in Seq([primary : Keys, previous : Keys \cup {None}]) /\ Plan # <<>>
  /\ \A n \in 1..(Len(Plan) - 1) : Plan[n].primary \in KeySet(n + 1)

(* The careful rotation, which nothing asks for: a secret is given to the  *)
(* instances as a previous one before the first of them signs with it.     *)
KeysOverlap == \A n \in 1..(Len(Plan) - 1) : Plan[n + 1].primary \in KeySet(n)

VARIABLES
  stage,    \* Instances -> the configuration it runs with
  pair,     \* the token pair, and how far GenerateTokenPair is; the
            \*   configuration that signed it
  entry,    \* "new", "legacy", "black" -> when Redis drops the entry; 0: none
  req,      \* Requests -> the call in progress
  blocked,  \* BlacklistAccessToken has returned nil
  fate      \* of the refresh token: "live", "erased", or "revoked" if said so

sessionVars == <<clockVars, stage, pair, entry, req, blocked, fate>>

Idle == [op |-> "none", at |-> None, pc |-> "idle", ttl |-> 0, late |-> FALSE]

SessionsTypeOK ==
  /\ now \in 0..MaxTime /\ skew \in [Instances -> 0..MaxSkew]
  /\ stage \in [Instances -> 1..Len(Plan)]
  /\ pair \in [pc : {"none", "signed", "half", "issued", "failed"}, at : Instances \cup {None},
               key : Keys \cup {None}, stage : 0..Len(Plan), made : Nat, nbf : Nat, ttl : Nat]
  /\ entry \in [{"new", "legacy", "black"} -> Nat]
  /\ req \in [Requests -> [op : {"none", "auth", "block", "refresh", "revoke"},
                           at : Instances \cup {None}, ttl : Nat, late : BOOLEAN,
                           pc : {"idle", "sent", "again", "granted"}]]
  /\ blocked \in BOOLEAN /\ fate \in {"live", "erased", "revoked"}

SessionsInit ==
  /\ ClockInit
  /\ stage = [i \in Instances |-> 1]
  /\ pair = [pc |-> "none", at |-> None, key |-> None, stage |-> 0, made |-> 0,
             nbf |-> 0, ttl |-> 0]
  /\ entry = [e \in {"new", "legacy", "black"} |-> 0]
  /\ req = [r \in Requests |-> Idle]
  /\ blocked = FALSE /\ fate = "live"

Exp(kind) == pair.nbf + TTL[kind]
Present(e) == now < entry[e]

-----------------------------------------------------------------------------
(* GenerateTokenPair.                                                      *)

Generate(i) ==
  /\ pair.pc = "none"
  /\ pair' = [pc |-> "signed", at |-> i, key |-> BuildKeys(Plan[stage[i]])[1],
              stage |-> stage[i], made |-> now, nbf |-> Clock(i), ttl |-> 0]
  /\ UNCHANGED <<clockVars, stage, entry, req, blocked, fate>>

Remaining(i, kind) == Exp(kind) - Clock(i)

MutStoreError == pair' = [pair EXCEPT !.pc = IF @ = "signed" THEN "half" ELSE "issued"]
(* The first error is returned: nobody gets to see the pair.               *)
StoreError == pair' = [pair EXCEPT !.pc = "failed", !.at = None, !.ttl = 0]

(* StoreRefreshToken writes the new key and then the legacy one, with the  *)
(* ttl that was left before the first; the token is not yet over by then.  *)
(* A command that fails may have been executed all the same.               *)
StoreNew ==
  /\ pair.pc = "signed" /\ Clock(pair.at) < Exp("refresh")
  /\ LET ttl == Remaining(pair.at, "refresh")
         set == entry' = [entry EXCEPT !["new"] = now + ttl]
     IN \/ set /\ pair' = [pair EXCEPT !.pc = "half", !.ttl = ttl]
        \/ (set \/ UNCHANGED entry) /\ StoreError
  /\ UNCHANGED <<clockVars, stage, req, blocked, fate>>

StoreLegacy ==
  /\ pair.pc = "half"
  /\ LET set == entry' = [entry EXCEPT !["legacy"] = now + pair.ttl]
     IN \/ set /\ pair' = [pair EXCEPT !.pc = "issued", !.at = None, !.ttl = 0]
        \/ (set \/ UNCHANGED entry) /\ StoreError
  /\ UNCHANGED <<clockVars, stage, req, blocked, fate>>

-----------------------------------------------------------------------------
(* parse.                                                                  *)

(* The key map: where two ids are equal the later key replaces the first.  *)
KeyFor(keys, kid) ==
  LET same == {n \in DOMAIN keys : KeyID[keys[n]] = kid}
  IN IF same = {} THEN None ELSE keys[Max(same)]

MutVerifies(keys, key) == KeyFor(keys, KeyID[key]) = key
(* By the key the header names, and if that fails by each in turn.         *)
Verifies(keys, key) == KeyFor(keys, KeyID[key]) = key \/ \E n \in DOMAIN keys : keys[n] = key

Parses(i, kind) ==
  /\ Verifies(BuildKeys(Plan[stage[i]]), pair.key)
  /\ pair.nbf <= Clock(i) /\ Clock(i) < Exp(kind)

-----------------------------------------------------------------------------
(* Calls: the token is parsed, and what is left to do is up to Redis.      *)

KindOf(op) == IF op \in {"auth", "block"} THEN "access" ELSE "refresh"
Late(op) == (op = "auth" /\ blocked) \/ (op = "refresh" /\ fate = "revoked")

Begin(r, i, op) ==
  /\ req[r] = Idle /\ pair.pc = "issued" /\ Parses(i, KindOf(op))
  /\ req' = [req EXCEPT ![r] =
       [op |-> op, at |-> i, pc |-> "sent", late |-> Late(op),
        ttl |-> IF op = "block" THEN Remaining(i, "access") ELSE 0]]
  /\ UNCHANGED <<clockVars, stage, pair, entry, blocked, fate>>

Answered(r, op) == req[r].op = op /\ req[r].pc \in {"sent", "again"}
End(r) == req' = [req EXCEPT ![r] = Idle]
Grant(r) == req' = [req EXCEPT ![r] = [Idle EXCEPT !.pc = "granted"]]

(* AuthenticateAccessToken, and HasRefreshToken with its second look under *)
(* the legacy key.                                                         *)
Check(r) ==
  /\ \/ Answered(r, "auth") /\ IF Present("black") THEN End(r) ELSE Grant(r)
     \/ /\ Answered(r, "refresh")
        /\ CASE req[r].pc = "sent" /\ Present("new") -> Grant(r)
             [] req[r].pc = "sent" /\ ~Present("new") -> req' = [req EXCEPT ![r].pc = "again"]
             [] req[r].pc = "again" -> IF Present("legacy") THEN Grant(r) ELSE End(r)
  /\ UNCHANGED <<clockVars, stage, pair, entry, blocked, fate>>

MutCheckFails(r) ==
  /\ req[r].pc \in {"sent", "again"} /\ req[r].op \in {"auth", "refresh"}
  /\ Grant(r)
  /\ UNCHANGED <<clockVars, stage, pair, entry, blocked, fate>>

(* Redis does not answer: the token is refused.                            *)
CheckFails(r) ==
  /\ req[r].pc \in {"sent", "again"} /\ req[r].op \in {"auth", "refresh"}
  /\ End(r)
  /\ UNCHANGED <<clockVars, stage, pair, entry, blocked, fate>>

(* BlacklistToken, with the answer or without.                             *)
Block(r) ==
  /\ Answered(r, "block")
  /\ \/ entry' = [entry EXCEPT !["black"] = now + req[r].ttl] /\ blocked' \in {blocked, TRUE}
     \/ UNCHANGED <<entry, blocked>>
  /\ End(r)
  /\ UNCHANGED <<clockVars, stage, pair, fate>>

MutErased == [entry EXCEPT !["new"] = 0]
Erased == [entry EXCEPT !["new"] = 0, !["legacy"] = 0]

(* DeleteRefreshToken: one DEL for both keys.                              *)
Revoke(r) ==
  /\ Answered(r, "revoke")
  /\ \/ entry' = Erased /\ fate' \in {IF fate = "live" THEN "erased" ELSE fate, "revoked"}
     \/ UNCHANGED <<entry, fate>>
  /\ End(r)
  /\ UNCHANGED <<clockVars, stage, pair, blocked>>

(* The handler behind Auth, or the caller of ValidateRefreshToken, is done.*)
Leave(r) ==
  /\ req[r].pc = "granted"
  /\ End(r)
  /\ UNCHANGED <<clockVars, stage, pair, entry, blocked, fate>>

-----------------------------------------------------------------------------
(* Rotation: an instance is restarted with the next configuration, never   *)
(* two configurations ahead of another, and no key is dropped before the   *)
(* tokens it signed have run out.  What the instance was doing is lost.    *)
Rotate(i) ==
  /\ stage[i] < Len(Plan) /\ \A j \in Instances : stage[i] <= stage[j]
  /\ pair.key \in KeySet(stage[i]) \ KeySet(stage[i] + 1) => \A kind \in Kinds : now >= Exp(kind)
  /\ stage' = [stage EXCEPT ![i] = @ + 1]
  /\ req' = [r \in Requests |-> IF req[r].at = i THEN Idle ELSE req[r]]
  /\ pair' = [pair EXCEPT !.pc = IF pair.at = i THEN "failed" ELSE @]
  /\ UNCHANGED <<clockVars, entry, blocked, fate>>

(* Redis drops what has run out.                                           *)
SessionsPass ==
  /\ Pass
  /\ entry' = [e \in DOMAIN entry |-> IF entry[e] > now + 1 THEN entry[e] ELSE 0]
  /\ UNCHANGED <<stage, pair, req, blocked, fate>>

SessionsNext ==
  \/ \E i \in Instances : Generate(i) \/ Rotate(i)
  \/ \E r \in Requests : \/ \E i \in Instances, op \in {"auth", "block", "refresh", "revoke"} :
                              Begin(r, i, op)
                         \/ Check(r) \/ CheckFails(r) \/ Block(r) \/ Revoke(r) \/ Leave(r)
  \/ StoreNew \/ StoreLegacy \/ SessionsPass

SessionsSpec == SessionsInit /\ [][SessionsNext]_sessionVars

-----------------------------------------------------------------------------
(* Properties.                                                             *)

(* From the moment the slowest clock is past its issue until the fastest   *)
(* is past its end, a pair is within its times on every instance.          *)
WellWithin(kind) == pair.made + MaxSkew <= now /\ now + MaxSkew < pair.made + TTL[kind]

(* A pair that was handed out is accepted by every instance that has come  *)
(* as far in the rotation as the one that signed it: parse finds the key   *)
(* in the primary or the previous secret, whatever the kid says.           *)
AcceptedAfterRotation ==
  pair.pc = "issued" =>
    \A kind \in Kinds, i \in Instances :
       WellWithin(kind) /\ stage[i] >= pair.stage => Parses(i, kind)

(* README.md:68: secrets are rotated without downtime - at any time of the *)
(* rotation a pair that was handed out is accepted by every instance.      *)
AcceptedEverywhere ==
  pair.pc = "issued" =>
    \A kind \in Kinds, i \in Instances : WellWithin(kind) => Parses(i, kind)

(* For as long, a refresh token nobody revoked is in Redis, for this       *)
(* release and for one that knows the legacy key only.                     *)
RefreshUsable ==
  pair.pc = "issued" /\ fate = "live" /\ now + MaxSkew < pair.made + TTL["refresh"] =>
    Present("new") /\ Present("legacy")

Granted(r, op) == req[r].op = op /\ req[r].pc # "granted" /\ req'[r].pc = "granted"

(* After BlacklistAccessToken has returned nil no request that comes in is *)
(* admitted with the token until it is about to expire: the entry outlives *)
(* the token but for what the two instances' clocks differ.                *)
BlockedUntilExpiry ==
  [][\A r \in Requests : Granted(r, "auth") /\ req[r].late => now + MaxSkew >= Exp("access")]_sessionVars

(* After RevokeRefreshToken has returned nil the refresh token is never    *)
(* valid again, under either key.                                          *)
RevokedForGood == [][\A r \in Requests : Granted(r, "refresh") => ~req[r].late]_sessionVars

-----------------------------------------------------------------------------
(* Why they hold.                                                          *)

Handed == {"issued", "failed"}

(* The instances run with one configuration or with two that follow each   *)
(* other, and from the one that signed the token on, with its key, for as  *)
(* long as it may be presented.                                            *)
KeysKept ==
  /\ \A i, j \in Instances : stage[i] <= stage[j] + 1
  /\ pair.pc # "none" =>
       /\ pair.stage \in 1..Len(Plan) /\ pair.key = Plan[pair.stage].primary
       /\ \/ \A i \in Instances : stage[i] >= pair.stage => pair.key \in KeySet(stage[i])
          \/ \A kind \in Kinds : now >= Exp(kind)

(* With the careful rotation it is the key of every instance.              *)
KeysShared ==
  pair.pc # "none" => \/ \A i \in Instances : pair.key \in KeySet(stage[i])
                      \/ \A kind \in Kinds : now >= Exp(kind)

TimesKept ==
  /\ pair.pc = "none" => pair.at = None
  /\ pair.pc # "none" => /\ pair.made <= now
                         /\ pair.made <= pair.nbf /\ pair.nbf <= pair.made + MaxSkew
  /\ pair.pc \in {"signed", "half"} => pair.at \in Instances /\ pair.nbf = pair.made + skew[pair.at]

(* An entry lasts as long as the token, or is gone with it.                *)
Lasts(e) == entry[e] >= pair.made + TTL["refresh"] \/ now >= pair.made + TTL["refresh"]

StoredLongEnough ==
  /\ pair.pc = "half" => Lasts("new") /\ now + pair.ttl >= pair.made + TTL["refresh"]
  /\ pair.pc = "issued" /\ fate = "live" => Lasts("new") /\ Lasts("legacy")

Gone == /\ \A r \in Requests : req[r].op # "none" => pair.pc \in Handed
        /\ \A r \in Requests : req[r].op = "refresh" /\ req[r].late => fate = "revoked"
        /\ fate # "live" => pair.pc \in Handed /\ entry["new"] = 0 /\ entry["legacy"] = 0

Blocked ==
  /\ \A r \in Requests : req[r].op = "block" => now + req[r].ttl + MaxSkew >= Exp("access")
  /\ \A r \in Requests : req[r].op = "auth" /\ req[r].late => blocked
  /\ blocked => /\ pair.pc \in Handed
                /\ entry["black"] + MaxSkew >= Exp("access") \/ now + MaxSkew >= Exp("access")

SessionsInv == KeysKept /\ TimesKept /\ StoredLongEnough /\ Gone /\ Blocked
=============================================================================
