------------------------------- MODULE Startup -------------------------------
(***************************************************************************)
(* Processes that start on one database: servers (cmd/server/main.go, up   *)
(* to ListenAndServe), which an orchestrator restarts and replaces by a    *)
(* newer release, and runs of the migration tool (cmd/migrate/main.go).    *)
(* Both bring the schema where they want it by internal/migration; what    *)
(* golang-migrate does for them is modelled from its use there.            *)
(***************************************************************************)
EXTENDS Integers

CONSTANTS Servers, AutoRun,  (* servers, those with migration.auto_run     *)
          Tools,             (* runs of the migration tool                 *)
          Old, Latest,       (* the last migration of the two releases     *)
          MaxFaults,         (* bound: failures and crashes                *)
          None               (* nobody holds the lock                      *)

ASSUME ReleaseAssumption == Old \in Nat /\ Latest \in Nat /\ Old <= Latest
ASSUME ProcessAssumption ==
  AutoRun \subseteq Servers /\ Servers \cap Tools = {} /\ None \notin Servers \cup Tools

ASSUME BoundAssumption == MaxFaults \in Nat

Procs == Servers \cup Tools

VARIABLES
  schema,   \* the row in the version table: version and dirty
  applied,  \* the migrations whose effect is in the database
  lock,     \* who holds the advisory lock
  pc,       \* Procs -> where it is
  release,  \* Procs -> the last migration embedded in its binary
  job,      \* Procs -> which way it migrates, and how many steps at most
  lowered,  \* a migration was ever taken back
  faults    \* failures and crashes so far

startupVars == <<schema, applied, lock, pc, release, job, lowered, faults>>

StartupTypeOK ==
  /\ schema \in [version : 0..Latest, dirty : BOOLEAN]
  /\ applied \subseteq 1..Latest
  /\ lock \in Procs \cup {None}
  /\ pc \in [Procs -> {"off", "opening", "locking", "reading", "running", "ran",
                       "building", "serving", "done"}]
  /\ release \in [Procs -> {Old, Latest}]
  /\ job \in [Procs -> [up : BOOLEAN, left : 0..Latest]]
  /\ lowered \in BOOLEAN /\ faults \in 0..MaxFaults

StartupInit ==
  /\ \E v \in 0..Old : schema = [version |-> v, dirty |-> FALSE] /\ applied = 1..v
  /\ lock = None
  /\ pc = [p \in Procs |-> "off"]
  /\ release \in [Procs -> {Old, Latest}] /\ \A s \in Servers : release[s] = Old
  /\ job = [p \in Procs |-> [up |-> TRUE, left |-> Latest]]
  /\ lowered = FALSE /\ faults = 0

Goto(p, where) == pc' = [pc EXCEPT ![p] = where]

(* An error that reaches main: a server panics and will be restarted.      *)
Gone(p) == IF p \in Servers THEN "off" ELSE "done"

(* The end of a process ends its session, which releases the lock.         *)
Exit(p) == Goto(p, Gone(p)) /\ lock' = IF lock = p THEN None ELSE lock

(* main, once Up has returned; an error is a panic.                        *)
MutAfterUp(p, ok) == IF p \in Servers THEN "building" ELSE "done"
AfterUp(p, ok) == IF p \in Servers /\ ok THEN "building" ELSE Gone(p)

-----------------------------------------------------------------------------
(* main, open.                                                             *)

StartServer(s) ==
  /\ pc[s] = "off"
  /\ Goto(s, IF s \in AutoRun THEN "opening" ELSE "building")
  /\ UNCHANGED <<schema, applied, lock, release, job, lowered, faults>>

(* Up and Down go as far as there are migrations, Steps as far as asked.   *)
StartTool(t) ==
  /\ pc[t] = "off"
  /\ \E up \in BOOLEAN, n \in 1..Latest : job' = [job EXCEPT ![t] = [up |-> up, left |-> n]]
  /\ Goto(t, "opening")
  /\ UNCHANGED <<schema, applied, lock, release, lowered, faults>>

(* The version table is looked for, and created, under the lock; for this  *)
(* lock the library waits as long as it takes.                             *)
EnsureVersionTable(p) ==
  /\ pc[p] = "opening" /\ lock = None
  /\ Goto(p, "locking")
  /\ UNCHANGED <<schema, applied, lock, release, job, lowered, faults>>

-----------------------------------------------------------------------------
(* Up, Down and Steps.                                                     *)

Lock(p) ==
  /\ pc[p] = "locking" /\ lock = None
  /\ lock' = p
  /\ Goto(p, "reading")
  /\ UNCHANGED <<schema, applied, release, job, lowered, faults>>

LockTimesOut(p) ==
  /\ pc[p] = "locking" /\ lock # None
  /\ Exit(p)
  /\ UNCHANGED <<schema, applied, release, job, lowered, faults>>

(* A dirty schema, and one this release has no migration for, is refused.  *)
MutRefused(p) == schema.version > release[p]
Refused(p) == schema.dirty \/ schema.version > release[p]

Finished(p) ==
  job[p].left = 0 \/ schema.version = (IF job[p].up THEN release[p] ELSE 0)

Refuse(p) ==
  /\ pc[p] = "reading" /\ Refused(p)
  /\ Goto(p, AfterUp(p, FALSE))
  /\ lock' = None
  /\ job' = [job EXCEPT ![p].left = Latest]
  /\ UNCHANGED <<schema, applied, release, lowered, faults>>

MutReturn(p) ==
  /\ pc[p] = "reading" /\ ~Refused(p) /\ Finished(p)
  /\ Goto(p, AfterUp(p, job[p].left < Latest))
  /\ lock' = None
  /\ job' = [job EXCEPT ![p].left = Latest]
  /\ UNCHANGED <<schema, applied, release, lowered, faults>>

(* ErrNoChange is no error.                                                *)
Return(p) ==
  /\ pc[p] = "reading" /\ ~Refused(p) /\ Finished(p)
  /\ Goto(p, AfterUp(p, TRUE))
  /\ lock' = None
  /\ job' = [job EXCEPT ![p].left = Latest]
  /\ UNCHANGED <<schema, applied, release, lowered, faults>>

Target(p) == IF job[p].up THEN schema.version + 1 ELSE schema.version - 1

Mark(p) ==
  /\ pc[p] = "reading" /\ ~Refused(p) /\ ~Finished(p)
  /\ schema' = [version |-> Target(p), dirty |-> TRUE]
  /\ Goto(p, "running")
  /\ lowered' = (lowered \/ ~job[p].up)
  /\ UNCHANGED <<applied, lock, release, job, faults>>

(* The statements of one migration take effect together.                   *)
Migrated(p) == IF job[p].up THEN applied \cup {schema.version} ELSE applied \ {schema.version + 1}

Apply(p) ==
  /\ pc[p] = "running"
  /\ applied' = Migrated(p)
  /\ Goto(p, "ran")
  /\ UNCHANGED <<schema, lock, release, job, lowered, faults>>

Clear(p) ==
  /\ pc[p] = "ran"
  /\ schema' = [schema EXCEPT !.dirty = FALSE]
  /\ job' = [job EXCEPT ![p].left = @ - 1]
  /\ Goto(p, "reading")
  /\ UNCHANGED <<applied, lock, release, lowered, faults>>

-----------------------------------------------------------------------------
(* The rest of a server's start; and what may happen to it.                *)

(* InitializeApp and App.Start.                                            *)
Build(s) ==
  /\ pc[s] = "building"
  /\ Goto(s, "serving")
  /\ UNCHANGED <<schema, applied, lock, release, job, lowered, faults>>

(* The database, Redis or the broker does not answer, a statement fails or *)
(* times out, or the process is killed: wherever it is, it is gone, and    *)
(* the statement it waited for may have had its effect.                    *)
Kill(p) ==
  /\ Exit(p)
  /\ applied' \in {applied} \cup (IF pc[p] = "running" THEN {Migrated(p)} ELSE {})
  /\ job' = [job EXCEPT ![p].left = Latest]
  /\ UNCHANGED <<schema, lowered>>

Fault(p) ==
  /\ pc[p] \notin {"off", "done"} /\ faults < MaxFaults
  /\ Kill(p)
  /\ faults' = faults + 1
  /\ UNCHANGED release

(* The roll-out of the newer release stops a server wherever it is.        *)
Replace(s) ==
  /\ release[s] < Latest
  /\ Kill(s)
  /\ release' = [release EXCEPT ![s] = Latest]
  /\ UNCHANGED faults

Migrate(p) ==
  \/ EnsureVersionTable(p) \/ Lock(p) \/ LockTimesOut(p)
  \/ Refuse(p) \/ Return(p) \/ Mark(p) \/ Apply(p) \/ Clear(p)

StartupNext ==
  \/ \E p \in Procs : Migrate(p) \/ Fault(p)
  \/ \E s \in Servers : StartServer(s) \/ Build(s) \/ Replace(s)
  \/ \E t \in Tools : StartTool(t)

(* The orchestrator restarts what has exited and completes its roll-out;   *)
(* the library and the database get on with what they are asked.           *)
StartupFairness ==
  /\ \A p \in Procs : WF_startupVars(Migrate(p))
  /\ \A s \in Servers : WF_startupVars(StartServer(s) \/ Build(s)) /\ WF_startupVars(Replace(s))

StartupSpec == StartupInit /\ [][StartupNext]_startupVars /\ StartupFairness

-----------------------------------------------------------------------------
(* Properties.                                                             *)

(* A version that is not dirty says what is in the database, also after a  *)
(* crash in the middle of a migration and with several migrating at once.  *)
CleanIsWhole == ~schema.dirty => applied = 1..schema.version

(* A server that migrates on start serves no request without the schema of *)
(* its release, unless somebody took migrations back.                      *)
ServesMigrated ==
  ~lowered => \A s \in AutoRun : pc[s] = "serving" => 1..release[s] \subseteq applied

(* All servers come up, with the newer release: those that lost the race   *)
(* for the lock, those restarted in between, and those of the older        *)
(* release that a newer schema keeps from starting.  A schema left dirty   *)
(* keeps them down; the tool has no way of forcing a version.              *)
ComesUp == <>[](schema.dirty \/ \A s \in Servers : pc[s] = "serving" /\ release[s] = Latest)

-----------------------------------------------------------------------------
(* Why they hold: only the holder of the lock touches the schema, and what *)
(* it has found and done since tells how the database differs from it.     *)

Holding == {"reading", "running", "ran"}

LockHeld == \A p \in Procs : pc[p] \in Holding <=> lock = p

InStep ==
  \A p \in Procs :
     /\ pc[p] \in {"running", "ran"} => schema.dirty /\ job[p].left > 0
     /\ pc[p] = "running" =>
          IF job[p].up THEN schema.version > 0 /\ applied = 1..(schema.version - 1)
                       ELSE schema.version < Latest /\ applied = 1..(schema.version + 1)
     /\ pc[p] = "ran" => applied = 1..schema.version

(* A server migrates up, and as far as there are migrations.               *)
ServersGoUp ==
  \A s \in Servers :
     /\ job[s].up
     /\ pc[s] \notin Holding => job[s].left = Latest
     /\ pc[s] = "reading" => schema.dirty \/ schema.version + job[s].left >= Latest
     /\ pc[s] \in {"running", "ran"} => schema.version + job[s].left > Latest

NeverLowered ==
  ~lowered =>
    /\ \A p \in Procs : pc[p] \in {"running", "ran"} => job[p].up
    /\ \A s \in AutoRun : pc[s] \in {"building", "serving"} => 1..release[s] \subseteq applied

StartupInv == LockHeld /\ CleanIsWhole /\ InStep /\ ServersGoUp /\ NeverLowered
=============================================================================
