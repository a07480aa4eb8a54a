---------------------------- MODULE ProfileCache ----------------------------
(***************************************************************************)
(* One user's profile: the row, its read replicas, the Redis entry filled  *)
(* by ReadThroughStore.GetOrLoadJSON (pkg/cache/read_through.go) from      *)
(* several instances, and UpdateProfile (internal/service/user_service.go),*)
(* which commits a new version and then deletes the entry.                 *)
(*                                                                         *)
(* A value is the version of the row it was read from; version 0 is "no    *)
(* such user", cached as the null envelope.  Besides the Delete that       *)
(* UpdateProfile calls the store offers DeleteWithDoubleDelete; which of   *)
(* them is used is chosen once.                                            *)
(***************************************************************************)
EXTENDS Naturals

CONSTANTS Readers,     (* GetProfile requests                              *)
          Writers,     (* UpdateProfile requests                           *)
          Instances,   (* processes: one singleflight group each           *)
          None,        (* no reader                                        *)
          Empty,       (* no entry in Redis                                *)
          MaxVersion,  (* bound: how often the profile is written          *)
          Deletes,     (* "single", "double" or both: deletes of the write path *)
          Faults,      (* kinds of fault that may happen                   *)
          MaxFaults    (* bound: how many of them                          *)

FaultKinds == {"redis", "load", "crash"}

ASSUME BoundAssumption == MaxVersion \in Nat \ {0} /\ MaxFaults \in Nat
ASSUME DeletesAssumption == Deletes \subseteq {"single", "double"}
ASSUME FaultAssumption == Faults \subseteq FaultKinds
ASSUME NameAssumption == None \notin Readers /\ Empty \notin Nat

VARIABLES
  deletes,  \* how the write path deletes the entry
  db,       \* version committed on the primary
  replica,  \* version of the replica that lags most
  cache,    \* the Redis entry: Empty or a version
  rpc,      \* Readers -> where GetOrLoadJSON is
  at,       \* Readers -> the instance that serves the request
  got,      \* Readers -> the version its loader returned
  flight,   \* Instances -> the reader leading the key's flight, or None
  wpc,      \* Writers -> where UpdateProfile (or its second delete) is
  wrote,    \* Writers -> the version it committed
  loads,    \* Instances -> loads since the entry was last removed
  staleBy,  \* what left an outdated entry behind: "none", "fill" or "lost"
  faults    \* faults spent so far

dbVars     == <<deletes, db, replica>>
readerVars == <<rpc, at, got, flight>>
writerVars == <<wpc, wrote>>
historyVars == <<loads, staleBy>>
vars == <<dbVars, cache, readerVars, writerVars, historyVars, faults>>

Versions == 0..MaxVersion

TypeOK ==
  /\ deletes \in Deletes
  /\ db \in Versions /\ replica \in 0..db
  /\ cache \in Versions \cup {Empty}
  /\ rpc \in [Readers -> {"idle", "missed", "waiting", "leading", "loading", "filling"}]
  /\ at \in [Readers -> Instances]
  /\ got \in [Readers -> Versions]
  /\ flight \in [Instances -> Readers \cup {None}]
  /\ wpc \in [Writers -> {"idle", "deleting", "second"}]
  /\ wrote \in [Writers -> Versions]
  /\ loads \in [Instances -> Nat]
  /\ staleBy \in {"none", "fill", "lost"}
  /\ faults \in Nat

Init ==
  /\ deletes \in Deletes
  /\ db \in {0, 1} /\ replica = db
  /\ cache = Empty
  /\ rpc = [r \in Readers |-> "idle"]
  /\ at \in [Readers -> Instances]
  /\ got = [r \in Readers |-> 0]
  /\ flight = [i \in Instances |-> None]
  /\ wpc = [w \in Writers |-> "idle"]
  /\ wrote = [w \in Writers |-> 0]
  /\ loads = [i \in Instances |-> 0]
  /\ staleBy = "none"
  /\ faults = 0

Spend(f) == /\ f \in Faults
            /\ faults < MaxFaults
            /\ faults' = faults + 1

-----------------------------------------------------------------------------
(* The entry.  Removing it, or failing to reach it, excuses another load.  *)

Excuse == loads' = [i \in Instances |-> 0]

Remove == /\ cache' = Empty
          /\ staleBy' = "none"
          /\ Excuse

MutExpireNullOnly ==
  /\ cache = 0
  /\ Remove
  /\ UNCHANGED <<dbVars, readerVars, writerVars, faults>>

(* SetJSON's ttl, with its jitter, or the null entry's ttl has passed.     *)
Expire ==
  /\ cache # Empty
  /\ Remove
  /\ UNCHANGED <<dbVars, readerVars, writerVars, faults>>

-----------------------------------------------------------------------------
(* GetOrLoadJSON.                                                          *)

(* A hit, or a null hit, returns at once and changes nothing.  A miss goes *)
(* on to the flight, and so does an error: a broken Redis is not fatal.    *)
Lookup(r) ==
  /\ rpc[r] = "idle"
  /\ \/ cache = Empty /\ UNCHANGED <<loads, faults>>
     \/ cache # Empty /\ Spend("redis") /\ Excuse
  /\ rpc' = [rpc EXCEPT ![r] = "missed"]
  /\ UNCHANGED <<dbVars, cache, at, got, flight, writerVars, staleBy>>

(* group.Do: lead the instance's flight for the key, or wait for it.       *)
Join(r) ==
  /\ rpc[r] = "missed"
  /\ IF flight[at[r]] = None
     THEN /\ flight' = [flight EXCEPT ![at[r]] = r]
          /\ rpc' = [rpc EXCEPT ![r] = "leading"]
     ELSE /\ rpc' = [rpc EXCEPT ![r] = "waiting"]
          /\ UNCHANGED flight
  /\ UNCHANGED <<dbVars, cache, at, got, writerVars, historyVars, faults>>

MutLandAlone(r) ==
  /\ flight' = [flight EXCEPT ![at[r]] = None]
  /\ rpc' = [rpc EXCEPT ![r] = "idle"]
  /\ got' = [got EXCEPT ![r] = 0]
  /\ UNCHANGED at

(* The flight ends: its result, or its error, is everybody's.              *)
Land(r) ==
  /\ flight' = [flight EXCEPT ![at[r]] = None]
  /\ rpc' = [x \in Readers |->
               IF x = r \/ (at[x] = at[r] /\ rpc[x] = "waiting") THEN "idle" ELSE rpc[x]]
  /\ got' = [got EXCEPT ![r] = 0]
  /\ UNCHANGED at

(* The leader looks again: an earlier flight may have filled the entry.    *)
RecheckHit(r) ==
  /\ rpc[r] = "leading" /\ cache # Empty
  /\ Land(r)
  /\ UNCHANGED <<dbVars, cache, writerVars, historyVars, faults>>

MutRecheckSkipped(r) ==
  /\ rpc[r] = "leading"
  /\ rpc' = [rpc EXCEPT ![r] = "loading"]
  /\ UNCHANGED <<dbVars, cache, at, got, flight, writerVars, historyVars, faults>>

RecheckMiss(r) ==
  /\ rpc[r] = "leading"
  /\ \/ cache = Empty /\ UNCHANGED <<loads, faults>>
     \/ cache # Empty /\ Spend("redis") /\ Excuse
  /\ rpc' = [rpc EXCEPT ![r] = "loading"]
  /\ UNCHANGED <<dbVars, cache, at, got, flight, writerVars, staleBy>>

Readable == replica..db

(* FindByID outside a transaction: the resolver may pick any replica.      *)
Load(r) ==
  /\ rpc[r] = "loading"
  /\ \E v \in Readable : got' = [got EXCEPT ![r] = v]
  /\ loads' = [loads EXCEPT ![at[r]] = @ + 1]
  /\ rpc' = [rpc EXCEPT ![r] = "filling"]
  /\ UNCHANGED <<dbVars, cache, at, flight, writerVars, staleBy, faults>>

(* The loader runs on the leader's context: its error is the flight's.     *)
LoadFails(r) ==
  /\ rpc[r] = "loading"
  /\ Spend("load")
  /\ Land(r)
  /\ UNCHANGED <<dbVars, cache, writerVars, historyVars>>

(* Set writes whatever was loaded, over whatever is there by now.          *)
Fill(r) ==
  /\ rpc[r] = "filling"
  /\ \/ /\ cache' = got[r]
        /\ staleBy' = IF got[r] < db THEN "fill" ELSE "none"
        /\ UNCHANGED <<loads, faults>>
     \/ Spend("redis") /\ Excuse /\ UNCHANGED <<cache, staleBy>>
  /\ Land(r)
  /\ UNCHANGED <<dbVars, writerVars>>

-----------------------------------------------------------------------------
(* UpdateProfile.                                                          *)

(* The transaction: FindByID, Update, FindByID, outbox.Create.             *)
Commit(w) ==
  /\ wpc[w] = "idle"
  /\ db \in 1..(MaxVersion - 1)
  /\ db' = db + 1
  /\ wrote' = [wrote EXCEPT ![w] = db + 1]
  /\ wpc' = [wpc EXCEPT ![w] = "deleting"]
  /\ UNCHANGED <<deletes, replica, cache, readerVars, historyVars, faults>>

AfterDelete == IF deletes = "double" THEN "second" ELSE "idle"

MutDeleteSkipped(w) ==
  /\ wpc[w] = "deleting"
  /\ wpc' = [wpc EXCEPT ![w] = "idle"]
  /\ UNCHANGED <<dbVars, cache, readerVars, wrote, historyVars, faults>>

Delete(w) ==
  /\ wpc[w] = "deleting"
  /\ Remove
  /\ wpc' = [wpc EXCEPT ![w] = AfterDelete]
  /\ UNCHANGED <<dbVars, readerVars, wrote, faults>>

Outdated == cache # Empty /\ cache < db
DeleteIsLost == staleBy' = IF Outdated THEN "lost" ELSE staleBy

(* The error is logged, and no second delete is scheduled.                 *)
DeleteFails(w) ==
  /\ wpc[w] = "deleting"
  /\ Spend("redis")
  /\ DeleteIsLost
  /\ wpc' = [wpc EXCEPT ![w] = "idle"]
  /\ UNCHANGED <<dbVars, cache, readerVars, wrote, loads>>

(* The delay is meant to outlast the replicas' lag and every load begun    *)
(* before: what this writer overwrote is then in nobody's hands.           *)
MutDelayTooShort(w) == TRUE
DelayOver(w) ==
  /\ replica >= wrote[w]
  /\ \A r \in Readers : rpc[r] = "filling" => got[r] >= wrote[w]

SecondDelete(w) ==
  /\ wpc[w] = "second" /\ DelayOver(w)
  /\ \/ Remove /\ UNCHANGED faults
     \/ Spend("redis") /\ UNCHANGED <<cache, historyVars>>
  /\ wpc' = [wpc EXCEPT ![w] = "idle"]
  /\ UNCHANGED <<dbVars, readerVars, wrote>>

-----------------------------------------------------------------------------
(* The environment.                                                        *)

Replicate ==
  /\ replica < db
  /\ replica' = replica + 1
  /\ UNCHANGED <<deletes, db, cache, readerVars, writerVars, historyVars, faults>>

(* A process dies with its requests, its flight ...                        *)
InstanceDies(i) ==
  /\ Spend("crash")
  /\ rpc' = [r \in Readers |-> IF at[r] = i THEN "idle" ELSE rpc[r]]
  /\ got' = [r \in Readers |-> IF at[r] = i THEN 0 ELSE got[r]]
  /\ flight' = [flight EXCEPT ![i] = None]
  /\ loads' = [loads EXCEPT ![i] = 0]
  /\ UNCHANGED <<dbVars, cache, at, writerVars, staleBy>>

(* ... or between a commit and the deletes that should follow it.          *)
WriterDies(w) ==
  /\ wpc[w] # "idle"
  /\ Spend("crash")
  /\ DeleteIsLost
  /\ wpc' = [wpc EXCEPT ![w] = "idle"]
  /\ UNCHANGED <<dbVars, cache, readerVars, wrote, loads>>

-----------------------------------------------------------------------------
Serve(r) == \/ Join(r) \/ RecheckHit(r) \/ RecheckMiss(r)
            \/ Load(r) \/ LoadFails(r) \/ Fill(r)

Finish(w) == Delete(w) \/ DeleteFails(w) \/ SecondDelete(w)

Next ==
  \/ \E r \in Readers : Lookup(r) \/ Serve(r)
  \/ \E w \in Writers : Commit(w) \/ Finish(w) \/ WriterDies(w)
  \/ \E i \in Instances : InstanceDies(i)
  \/ Expire \/ Replicate

Spec == Init /\ [][Next]_vars

(* Requests that were begun are carried on, replication catches up and an  *)
(* entry's ttl runs out; nobody has to read or to write.                   *)
Fairness ==
  /\ \A r \in Readers : WF_vars(Serve(r))
  /\ \A w \in Writers : WF_vars(Finish(w))
  /\ WF_vars(Expire) /\ WF_vars(Replicate)

LiveSpec == Spec /\ Fairness

-----------------------------------------------------------------------------
(* Properties.                                                             *)

(* Cache breakdown: between two removals of the entry an instance loads    *)
(* the profile once, however many of its requests miss - also those that   *)
(* missed before a flight landed and asked for the next one.               *)
OneLoadPerMiss == \A i \in Instances : loads[i] <= 1

(* A stale entry that no writer is about to delete has one of two causes: *)
(* it was filled with a version replaced since it was loaded, or the       *)
(* delete that was due failed.                                             *)
StaleHasCause ==
  Outdated /\ (\A w \in Writers : wpc[w] # "deleting") => staleBy # "none"

(* README: delayed double delete keeps the write path consistent.  Once    *)
(* requests, deletes and replication have come to rest, the entry is not   *)
(* older than the row.                                                     *)
AtRest == /\ \A r \in Readers : rpc[r] \in {"idle", "missed"}
          /\ \A w \in Writers : wpc[w] = "idle"
          /\ replica = db
ConsistentAtRest == AtRest => cache \in {Empty, db}

(* With the delayed double delete it does keep that promise, if Redis      *)
(* answers, nobody crashes and the delay is long enough - several writers  *)
(* overlapping included: the last second delete is due after the last load *)
(* of anything older.                                                      *)
DoubleDeleteConsistent == deletes = "double" /\ faults = 0 => ConsistentAtRest

(* Staleness is bounded by the ttl: whatever races and faults happened,    *)
(* the entry is fresh for good some time after the last write.             *)
EventuallyFresh == <>[](cache \in {Empty, db})

(* No request is left waiting for a flight that never lands.               *)
EveryReadReturns == \A r \in Readers : rpc[r] = "waiting" ~> rpc[r] = "idle"

-----------------------------------------------------------------------------
(* Why they hold.                                                          *)

(* An instance has one flight at a time and its leader is at work.         *)
FlightIsLed ==
  \A r \in Readers :
     /\ rpc[r] \in {"leading", "loading", "filling"} <=> flight[at[r]] = r
     /\ rpc[r] = "waiting" => flight[at[r]] # None

(* A load that counts is on its way into the entry, or is there.           *)
LoadsInHand ==
  /\ \A i \in Instances :
        loads[i] = 0 \/ /\ loads[i] = 1
                        /\ cache # Empty \/ \E r \in Readers : at[r] = i /\ rpc[r] = "filling"
  /\ \A r \in Readers : rpc[r] = "loading" => loads[at[r]] = 0

NothingNewer ==
  /\ cache # Empty => cache <= db
  /\ \A r \in Readers : got[r] <= db

(* With the double delete, the writer of the row's version is not done as  *)
(* long as anything older is left.                                         *)
OldRemains ==
  \/ replica < db \/ Outdated
  \/ \E r \in Readers : rpc[r] = "filling" /\ got[r] < db

LastWriterPending ==
  deletes = "double" /\ faults = 0 /\ OldRemains =>
    \E w \in Writers : wpc[w] \in {"deleting", "second"} /\ wrote[w] = db

CacheInv == FlightIsLed /\ LoadsInHand /\ NothingNewer /\ LastWriterPending
=============================================================================
