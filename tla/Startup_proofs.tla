--------------------------- MODULE Startup_proofs ---------------------------
(***************************************************************************)
(* Proofs about processes that start on one database: for any number of    *)
(* servers, tools, migrations and faults.  StartupInv is inductive, and    *)
(* the two safety properties are part of it, or follow from it.  And, for  *)
(* any files and environment, about the configuration both of these        *)
(* programs load before they do anything else.                             *)
(***************************************************************************)
EXTENDS Startup, Config, TLAPS

LEMMA ServerOrTool ==
  /\ Servers \subseteq Procs /\ Tools \subseteq Procs /\ AutoRun \subseteq Servers
  /\ Servers \cap Tools = {} /\ None \notin Procs
BY ProcessAssumption DEF Procs

LEMMA Releases == Old \in Nat /\ Latest \in Nat /\ Old <= Latest /\ MaxFaults \in Nat
BY ReleaseAssumption, BoundAssumption

-----------------------------------------------------------------------------
(* Types.                                                                  *)

LEMMA TypeInit == ASSUME StartupInit PROVE StartupTypeOK
<1>1. PICK v \in 0..Old : schema = [version |-> v, dirty |-> FALSE] /\ applied = 1..v
  BY DEF StartupInit
<1>2. v \in 0..Latest /\ 1..v \subseteq 1..Latest /\ Latest \in 0..Latest
  BY Releases
<1>3. faults \in 0..MaxFaults
  BY Releases DEF StartupInit
<1> QED
  BY <1>1, <1>2, <1>3 DEF StartupInit, StartupTypeOK

LEMMA MigratedType ==
  ASSUME NEW p \in Procs, StartupTypeOK, pc[p] = "running", InStep
  PROVE  Migrated(p) \subseteq 1..Latest
BY Releases DEF Migrated, StartupTypeOK, InStep

(* A migration that is begun leads to a version that there is.             *)
LEMMA TargetType ==
  ASSUME NEW p \in Procs, StartupTypeOK, ~Refused(p), ~Finished(p)
  PROVE  /\ job[p].up => schema.version + 1 \in 1..Latest
         /\ ~job[p].up => schema.version - 1 \in 0..(Latest - 1)
         /\ job[p].left > 0 /\ ~schema.dirty
<1>1. schema.version \in Nat /\ schema.version <= Latest
  BY Releases DEF StartupTypeOK
<1>2. release[p] \in Nat /\ release[p] <= Latest
  BY Releases DEF StartupTypeOK
<1>3. job[p].left \in Nat /\ job[p].left # 0 /\ schema.version <= release[p] /\ ~schema.dirty
  BY <1>1, <1>2, Releases DEF Refused, Finished, StartupTypeOK
<1>4. schema.version # (IF job[p].up THEN release[p] ELSE 0)
  BY DEF Finished
<1> QED
  BY <1>1, <1>2, <1>3, <1>4, Releases

LEMMA KillType ==
  ASSUME NEW p \in Procs, StartupTypeOK, InStep, Kill(p)
  PROVE  /\ schema' \in [version : 0..Latest, dirty : BOOLEAN]
         /\ applied' \subseteq 1..Latest
         /\ lock' \in Procs \cup {None}
         /\ pc' \in [Procs -> {"off", "opening", "locking", "reading", "running", "ran",
                               "building", "serving", "done"}]
         /\ job' \in [Procs -> [up : BOOLEAN, left : 0..Latest]]
         /\ lowered' \in BOOLEAN
<1>1. applied' \subseteq 1..Latest
  BY MigratedType DEF Kill, StartupTypeOK
<1>2. lock' \in Procs \cup {None} /\ pc'\in [Procs -> {"off", "opening", "locking", "reading",
          "running", "ran", "building", "serving", "done"}]
  BY DEF Kill, Exit, Goto, Gone, StartupTypeOK
<1>3. job' \in [Procs -> [up : BOOLEAN, left : 0..Latest]]
  BY Releases DEF Kill, StartupTypeOK
<1> QED
  BY <1>1, <1>2, <1>3 DEF Kill, StartupTypeOK

LEMMA TypeStep ==
  ASSUME StartupTypeOK, InStep, [StartupNext]_startupVars
  PROVE  StartupTypeOK'
<1> USE ServerOrTool, Releases
<1>1. CASE \E p \in Procs : EnsureVersionTable(p) \/ Lock(p) \/ LockTimesOut(p) \/ Refuse(p) \/ Return(p)
  <2> PICK p \in Procs : EnsureVersionTable(p) \/ Lock(p) \/ LockTimesOut(p) \/ Refuse(p) \/ Return(p)
    BY <1>1
  <2>1. CASE EnsureVersionTable(p)
    BY <2>1 DEF EnsureVersionTable, Goto, StartupTypeOK
  <2>2. CASE Lock(p)
    BY <2>2 DEF Lock, Goto, StartupTypeOK
  <2>3. CASE LockTimesOut(p)
    BY <2>3 DEF LockTimesOut, Exit, Goto, Gone, StartupTypeOK
  <2>4. CASE Refuse(p)
    BY <2>4 DEF Refuse, Goto, AfterUp, Gone, StartupTypeOK
  <2>5. CASE Return(p)
    BY <2>5 DEF Return, Goto, AfterUp, Gone, StartupTypeOK
  <2> QED
    BY <2>1, <2>2, <2>3, <2>4, <2>5
<1>2. ASSUME NEW p \in Procs, Mark(p) PROVE StartupTypeOK'
  <2>1. Target(p) \in 0..Latest
    BY <1>2, TargetType DEF Mark, Target
  <2> QED
    BY <1>2, <2>1 DEF Mark, Goto, StartupTypeOK
<1>3. ASSUME NEW p \in Procs, Apply(p) PROVE StartupTypeOK'
  BY <1>3, MigratedType DEF Apply, Goto, StartupTypeOK
<1>4. ASSUME NEW p \in Procs, Clear(p) PROVE StartupTypeOK'
  <2>1. job[p].left - 1 \in 0..Latest
    BY <1>4 DEF Clear, InStep, StartupTypeOK
  <2> QED
    BY <1>4, <2>1 DEF Clear, Goto, StartupTypeOK
<1>5. ASSUME NEW p \in Procs, Fault(p) PROVE StartupTypeOK'
  BY <1>5, KillType DEF Fault, StartupTypeOK
<1>6. ASSUME NEW s \in Servers, Replace(s) PROVE StartupTypeOK'
  BY <1>6, KillType DEF Replace, StartupTypeOK
<1>7. ASSUME NEW s \in Servers, StartServer(s) \/ Build(s) PROVE StartupTypeOK'
  BY <1>7 DEF StartServer, Build, Goto, StartupTypeOK
<1>8. ASSUME NEW t \in Tools, StartTool(t) PROVE StartupTypeOK'
  BY <1>8 DEF StartTool, Goto, StartupTypeOK
<1>9. CASE UNCHANGED startupVars
  BY <1>9 DEF startupVars, StartupTypeOK
<1> QED
  BY <1>1, <1>2, <1>3, <1>4, <1>5, <1>6, <1>7, <1>8, <1>9 DEF StartupNext, Migrate

-----------------------------------------------------------------------------
(* The invariant.                                                          *)

LEMMA InvInit == ASSUME StartupInit PROVE StartupInv
<1>1. PICK v \in 0..Old : schema = [version |-> v, dirty |-> FALSE] /\ applied = 1..v
  BY DEF StartupInit
<1>2. LockHeld /\ CleanIsWhole /\ InStep
  BY <1>1, ServerOrTool DEF StartupInit, LockHeld, CleanIsWhole, InStep, Holding
<1>3. ServersGoUp /\ NeverLowered
  BY ServerOrTool DEF StartupInit, ServersGoUp, NeverLowered, Holding
<1> QED
  BY <1>2, <1>3 DEF StartupInv

LEMMA StepWaiting ==
  ASSUME StartupTypeOK, StartupInv, NEW p \in Procs,
         EnsureVersionTable(p) \/ Lock(p) \/ LockTimesOut(p)
  PROVE  StartupInv'
<1> USE ServerOrTool, Releases
<1>1. CASE EnsureVersionTable(p)
  BY <1>1 DEF EnsureVersionTable, Goto, StartupTypeOK, StartupInv, LockHeld, CleanIsWhole, InStep,
              ServersGoUp, NeverLowered, Holding
<1>2. CASE Lock(p)
  <2>1. LockHeld' /\ CleanIsWhole' /\ InStep'
    BY <1>2 DEF Lock, Goto, StartupTypeOK, StartupInv, LockHeld, CleanIsWhole, InStep, Holding
  <2>2. ServersGoUp'
    BY <1>2 DEF Lock, Goto, StartupTypeOK, StartupInv, ServersGoUp, Holding
  <2>3. NeverLowered'
    BY <1>2 DEF Lock, Goto, StartupTypeOK, StartupInv, NeverLowered
  <2> QED
    BY <2>1, <2>2, <2>3 DEF StartupInv
<1>3. CASE LockTimesOut(p)
  <2>1. lock' = lock
    BY <1>3 DEF LockTimesOut, Exit, StartupInv, LockHeld, Holding
  <2> QED
    BY <1>3, <2>1 DEF LockTimesOut, Exit, Goto, Gone, StartupTypeOK, StartupInv, LockHeld,
                      CleanIsWhole, InStep, ServersGoUp, NeverLowered, Holding
<1> QED
  BY <1>1, <1>2, <1>3

LEMMA StepRefuse ==
  ASSUME StartupTypeOK, StartupInv, NEW p \in Procs, Refuse(p)
  PROVE  StartupInv'
<1> USE ServerOrTool, Releases
<1>1. LockHeld' /\ CleanIsWhole' /\ InStep'
  BY DEF Refuse, Goto, AfterUp, Gone, StartupTypeOK, StartupInv, LockHeld, CleanIsWhole, InStep, Holding
<1>2. ServersGoUp'
  BY DEF Refuse, Goto, AfterUp, Gone, StartupTypeOK, StartupInv, ServersGoUp, Holding
<1>3. NeverLowered'
  BY DEF Refuse, Goto, AfterUp, Gone, StartupTypeOK, StartupInv, NeverLowered
<1> QED
  BY <1>1, <1>2, <1>3 DEF StartupInv

LEMMA StepReturn ==
  ASSUME StartupTypeOK, StartupInv, NEW p \in Procs, Return(p)
  PROVE  StartupInv'
<1> USE ServerOrTool, Releases
<1>1. LockHeld' /\ CleanIsWhole' /\ InStep'
  BY DEF Return, Goto, AfterUp, Gone, StartupTypeOK, StartupInv, LockHeld, CleanIsWhole, InStep, Holding
<1>2. ServersGoUp'
  BY DEF Return, Goto, AfterUp, Gone, StartupTypeOK, StartupInv, ServersGoUp, Holding
<1>3. ASSUME p \in Servers PROVE 1..release[p] \subseteq applied
  <2>1. schema.version \in Nat /\ release[p] \in Nat /\ release[p] <= Latest /\ job[p].left \in Nat
    BY DEF StartupTypeOK
  <2>2. job[p].up /\ schema.version + job[p].left >= Latest
    BY <1>3 DEF Return, Refused, StartupInv, ServersGoUp
  <2>3. schema.version <= release[p] /\ (job[p].left = 0 \/ schema.version = release[p])
    BY <2>1, <2>2 DEF Return, Refused, Finished
  <2>4. schema.version = release[p]
    BY <2>1, <2>2, <2>3
  <2>5. applied = 1..schema.version
    BY DEF Return, Refused, StartupInv, CleanIsWhole
  <2> QED
    BY <2>4, <2>5
<1>4. NeverLowered'
  BY <1>3 DEF Return, Goto, AfterUp, Gone, StartupTypeOK, StartupInv, NeverLowered
<1> QED
  BY <1>1, <1>2, <1>4 DEF StartupInv

LEMMA StepMark ==
  ASSUME StartupTypeOK, StartupInv, NEW p \in Procs, Mark(p)
  PROVE  StartupInv'
<1> USE ServerOrTool, Releases
<1>0. /\ schema'.version = Target(p) /\ schema'.dirty /\ applied = 1..schema.version
      /\ schema.version \in Nat /\ job[p].left \in Nat /\ lock = p
  BY DEF Mark, Refused, StartupTypeOK, StartupInv, CleanIsWhole, LockHeld, Holding
<1>1. LockHeld' /\ CleanIsWhole'
  BY <1>0 DEF Mark, Goto, StartupTypeOK, StartupInv, LockHeld, CleanIsWhole, Holding
<1>2. ASSUME NEW q \in Procs, q # p PROVE pc[q] \notin Holding /\ pc'[q] = pc[q]
  BY <1>0, <1>2 DEF Mark, Goto, StartupTypeOK, StartupInv, LockHeld
<1>3. InStep'
  <2>1. job[p].left > 0 /\ job' = job /\ applied' = applied
    BY TargetType DEF Mark
  <2>2. IF job[p].up THEN schema'.version > 0 /\ applied = 1..(schema'.version - 1)
                     ELSE schema'.version < Latest /\ applied = 1..(schema'.version + 1)
    BY <1>0, TargetType DEF Mark, Target
  <2> QED
    BY <1>0, <1>2, <2>1, <2>2 DEF Mark, Goto, StartupTypeOK, InStep, Holding
<1>4. ServersGoUp'
  <2>1. ASSUME p \in Servers PROVE schema'.version + job[p].left > Latest
    BY <1>0, <2>1, TargetType DEF Mark, Target, Refused, StartupInv, ServersGoUp
  <2> QED
    BY <1>0, <1>2, <2>1 DEF Mark, Goto, StartupTypeOK, StartupInv, ServersGoUp, Holding
<1>5. NeverLowered'
  BY <1>2 DEF Mark, Goto, StartupTypeOK, StartupInv, NeverLowered, Holding
<1> QED
  BY <1>1, <1>3, <1>4, <1>5 DEF StartupInv

(* The holder works alone.                                                 *)
LEMMA OthersWait ==
  ASSUME StartupTypeOK, LockHeld, NEW p \in Procs, pc[p] \in Holding
  PROVE  lock = p /\ \A q \in Procs : q # p => pc[q] \notin Holding
BY DEF LockHeld

LEMMA StepApply ==
  ASSUME StartupTypeOK, StartupInv, NEW p \in Procs, Apply(p)
  PROVE  StartupInv'
<1> USE ServerOrTool, Releases
<1>0. pc[p] = "running" /\ schema.dirty /\ schema.version \in Nat /\ pc[p] \in Holding
  BY DEF Apply, StartupTypeOK, StartupInv, InStep, Holding
<1>1. LockHeld' /\ CleanIsWhole' /\ ServersGoUp'
  BY <1>0 DEF Apply, Goto, StartupTypeOK, StartupInv, LockHeld, CleanIsWhole, ServersGoUp, Holding
<1>2. \A q \in Procs : q # p => pc[q] \notin Holding /\ pc'[q] = pc[q]
  BY <1>0, OthersWait DEF Apply, Goto, StartupTypeOK, StartupInv
<1>3. applied' = 1..schema.version
  <2>1. CASE job[p].up
    <3>1. schema.version > 0 /\ applied = 1..(schema.version - 1)
      BY <1>0, <2>1 DEF StartupInv, InStep
    <3> QED
      BY <1>0, <2>1, <3>1 DEF Apply, Migrated
  <2>2. CASE ~job[p].up
    <3>1. applied = 1..(schema.version + 1)
      BY <1>0, <2>2 DEF StartupInv, InStep
    <3> QED
      BY <1>0, <2>2, <3>1 DEF Apply, Migrated
  <2> QED
    BY <2>1, <2>2
<1>4. InStep'
  BY <1>0, <1>2, <1>3 DEF Apply, Goto, StartupTypeOK, StartupInv, InStep, Holding
<1>5. NeverLowered'
  <2>1. ~lowered => applied \subseteq applied'
    BY <1>0 DEF Apply, Migrated, StartupInv, NeverLowered
  <2> QED
    BY <1>0, <2>1 DEF Apply, Goto, StartupTypeOK, StartupInv, NeverLowered
<1> QED
  BY <1>1, <1>4, <1>5 DEF StartupInv

LEMMA StepClear ==
  ASSUME StartupTypeOK, StartupInv, NEW p \in Procs, Clear(p)
  PROVE  StartupInv'
<1> USE ServerOrTool, Releases
<1>0. /\ pc[p] = "ran" /\ pc[p] \in Holding /\ applied = 1..schema.version
      /\ schema.version \in Nat /\ job[p].left \in Nat /\ job[p].left > 0
      /\ schema'.version = schema.version
  BY DEF Clear, StartupTypeOK, StartupInv, InStep, Holding
<1>1. LockHeld' /\ CleanIsWhole'
  BY <1>0 DEF Clear, Goto, StartupTypeOK, StartupInv, LockHeld, CleanIsWhole, Holding
<1>2. \A q \in Procs : q # p => pc[q] \notin Holding /\ pc'[q] = pc[q] /\ job'[q] = job[q]
  BY <1>0, OthersWait DEF Clear, Goto, StartupTypeOK, StartupInv
<1>3. InStep'
  BY <1>0, <1>2 DEF Clear, Goto, StartupTypeOK, InStep, Holding
<1>4. ServersGoUp'
  <2>1. job'[p].left = job[p].left - 1 /\ job'[p].up = job[p].up /\ pc'[p] = "reading"
    BY DEF Clear, Goto, StartupTypeOK
  <2>2. p \in Servers => job[p].up /\ schema.version + job[p].left > Latest
    BY <1>0 DEF StartupInv, ServersGoUp
  <2> QED
    BY <1>0, <1>2, <2>1, <2>2 DEF StartupInv, ServersGoUp, Holding
<1>5. NeverLowered'
  BY <1>2 DEF Clear, Goto, StartupTypeOK, StartupInv, NeverLowered, Holding
<1> QED
  BY <1>1, <1>3, <1>4, <1>5 DEF StartupInv

(* release may change with the step, for p alone, who is gone.             *)
LEMMA StepKill ==
  ASSUME StartupTypeOK, StartupInv, NEW p \in Procs, Kill(p),
         \A q \in Procs : q # p => release'[q] = release[q]
  PROVE  StartupInv'
<1> USE ServerOrTool, Releases
<1>0. /\ pc'[p] \in {"off", "done"} /\ job'[p].left = Latest /\ job'[p].up = job[p].up
      /\ schema' = schema /\ lowered' = lowered
      /\ \A q \in Procs : q # p => pc'[q] = pc[q] /\ job'[q] = job[q]
  BY DEF Kill, Exit, Goto, Gone, StartupTypeOK
<1>1. LockHeld'
  BY <1>0 DEF Kill, Exit, StartupTypeOK, StartupInv, LockHeld, Holding
<1>2. \/ applied' = applied
      \/ pc[p] = "running" /\ applied' = Migrated(p) /\ schema.dirty
  BY DEF Kill, StartupInv, InStep
<1>3. CleanIsWhole'
  BY <1>0, <1>2 DEF StartupInv, CleanIsWhole
<1>4. InStep'
  <2>1. CASE applied' = applied
    BY <1>0, <2>1 DEF StartupInv, InStep
  <2>2. CASE pc[p] = "running"
    <3>1. \A q \in Procs : q # p => pc[q] \notin Holding
      BY <2>2, OthersWait DEF StartupInv, Holding
    <3> QED
      BY <1>0, <3>1 DEF InStep, Holding
  <2> QED
    BY <1>2, <2>1, <2>2
<1>5. ServersGoUp'
  BY <1>0 DEF StartupInv, ServersGoUp
<1>6. NeverLowered'
  <2>1. ~lowered => applied \subseteq applied'
    BY <1>2 DEF Migrated, StartupInv, NeverLowered
  <2> QED
    BY <1>0, <2>1 DEF StartupInv, NeverLowered
<1> QED
  BY <1>1, <1>3, <1>4, <1>5, <1>6 DEF StartupInv

LEMMA InvStep ==
  ASSUME StartupTypeOK, StartupInv, [StartupNext]_startupVars
  PROVE  StartupInv'
<1> USE ServerOrTool, Releases
<1>1. ASSUME NEW p \in Procs, Migrate(p) PROVE StartupInv'
  BY <1>1, StepWaiting, StepRefuse, StepReturn, StepMark, StepApply, StepClear DEF Migrate
<1>2. ASSUME NEW p \in Procs, Fault(p) PROVE StartupInv'
  BY <1>2, StepKill DEF Fault
<1>3. ASSUME NEW s \in Servers, Replace(s) PROVE StartupInv'
  BY <1>3, StepKill DEF Replace, StartupTypeOK
<1>4. ASSUME NEW s \in Servers, StartServer(s) \/ Build(s) PROVE StartupInv'
  <2>1. LockHeld' /\ CleanIsWhole' /\ InStep'
    BY <1>4 DEF StartServer, Build, Goto, StartupTypeOK, StartupInv, LockHeld, CleanIsWhole, InStep, Holding
  <2>2. ServersGoUp'
    BY <1>4 DEF StartServer, Build, Goto, StartupTypeOK, StartupInv, ServersGoUp, Holding
  <2>3. NeverLowered'
    BY <1>4 DEF StartServer, Build, Goto, StartupTypeOK, StartupInv, NeverLowered
  <2> QED
    BY <2>1, <2>2, <2>3 DEF StartupInv
<1>5. ASSUME NEW t \in Tools, StartTool(t) PROVE StartupInv'
  <2>1. t \notin Servers /\ t \notin AutoRun
    OBVIOUS
  <2>2. LockHeld' /\ CleanIsWhole' /\ InStep'
    BY <1>5 DEF StartTool, Goto, StartupTypeOK, StartupInv, LockHeld, CleanIsWhole, InStep, Holding
  <2>3. ServersGoUp' /\ NeverLowered'
    BY <1>5, <2>1 DEF StartTool, Goto, StartupTypeOK, StartupInv, ServersGoUp, NeverLowered, Holding
  <2> QED
    BY <2>2, <2>3 DEF StartupInv
<1>6. CASE UNCHANGED startupVars
  BY <1>6 DEF startupVars, StartupInv, LockHeld, CleanIsWhole, InStep, ServersGoUp, NeverLowered
<1> QED
  BY <1>1, <1>2, <1>3, <1>4, <1>5, <1>6 DEF StartupNext

-----------------------------------------------------------------------------
(* The state has its types, and StartupInv holds, whoever migrates, fails  *)
(* or is replaced.                                                         *)
THEOREM StartupInvariant ==
  StartupSpec => [](StartupTypeOK /\ StartupInv)
<1>1. StartupInit => StartupTypeOK /\ StartupInv
  BY TypeInit, InvInit
<1>2. StartupTypeOK /\ StartupInv /\ [StartupNext]_startupVars => (StartupTypeOK /\ StartupInv)'
  BY TypeStep, InvStep DEF StartupInv
<1> QED
  BY <1>1, <1>2, PTL DEF StartupSpec

(* A version that is not dirty says what is in the database, for any       *)
(* number of migrating processes and crashes.                              *)
THEOREM CleanIsWholeHolds == StartupSpec => []CleanIsWhole
<1>1. StartupTypeOK /\ StartupInv => CleanIsWhole
  BY DEF StartupInv
<1> QED
  BY <1>1, StartupInvariant, PTL

(* No migrating server serves without the schema of its release, unless    *)
(* somebody took migrations back.                                          *)
THEOREM ServesMigratedHolds == StartupSpec => []ServesMigrated
<1>1. StartupTypeOK /\ StartupInv => ServesMigrated
  BY DEF StartupInv, NeverLowered, ServesMigrated
<1> QED
  BY <1>1, StartupInvariant, PTL

-----------------------------------------------------------------------------
(* The configuration a process starts with.                                *)

(* An overlay keeps sections and keys, and a number is a number after it   *)
(* if it was one and no setting replaces it by anything else.              *)
LEMMA OverlayKeeps ==
  ASSUME NEW c, NEW S
  PROVE  /\ DOMAIN Overlay(c, S) = DOMAIN c
         /\ \A x \in DOMAIN c : DOMAIN Overlay(c, S)[x] = DOMAIN c[x]
BY DEF Overlay

LEMMA OverlayInt ==
  ASSUME NEW c, NEW S, NEW x \in DOMAIN c, NEW k \in DOMAIN c[x],
         c[x][k] \in Int, Fit(S), <<x, k>> \in Amounts
  PROVE  Overlay(c, S)[x][k] \in Int
<1> DEFINE says == CHOOSE s \in S : Key(s) = <<x, k>>
<1>1. Overlay(c, S)[x][k] = IF \E s \in S : Key(s) = <<x, k>> THEN says.value ELSE c[x][k]
  BY DEF Overlay
<1>2. ASSUME \E s \in S : Key(s) = <<x, k>> PROVE says.value \in Int
  <2>1. says \in S /\ Key(says) = <<x, k>>
    BY <1>2
  <2> HIDE DEF says
  <2>2. says.value \in -MaxInt32..MaxInt32
    BY <2>1 DEF Fit
  <2>3. MaxInt32 \in Nat
    BY SMT DEF MaxInt32
  <2> QED
    BY <2>2, <2>3
<1> HIDE DEF says
<1> QED
  BY <1>1, <1>2

LEMMA UnmarshalledInt ==
  ASSUME Fit(inFile), Fit(inEnv), NEW x \in DOMAIN Defaults, NEW k \in DOMAIN Defaults[x],
         Defaults[x][k] \in Int, <<x, k>> \in Amounts
  PROVE  Unmarshalled[x][k] \in Int
<1>1. Fit(Heard)
  BY DEF Fit, Heard
<1>2. Overlay(Defaults, inFile)[x][k] \in Int
  BY OverlayInt
<1>3. x \in DOMAIN Overlay(Defaults, inFile) /\ k \in DOMAIN Overlay(Defaults, inFile)[x]
  BY OverlayKeeps
<1> QED
  BY <1>1, <1>2, <1>3, OverlayInt DEF Unmarshalled

LEMMA UnmarshalledKeeps ==
  /\ DOMAIN Unmarshalled = DOMAIN Defaults
  /\ \A x \in DOMAIN Defaults : DOMAIN Unmarshalled[x] = DOMAIN Defaults[x]
BY OverlayKeeps DEF Unmarshalled

(* The secrets replace keys of jwt and one of storage, nothing else.       *)
JWTSecrets == {"access_secret", "refresh_secret", "previous_access_secret", "previous_refresh_secret"}

LEMMA SecretsOnly ==
  ASSUME NEW c, {"jwt", "storage"} \subseteq DOMAIN c, JWTSecrets \subseteq DOMAIN c["jwt"]
  PROVE  /\ WithSecrets(c).jwt.access_secret = secrets.access
         /\ WithSecrets(c).jwt.refresh_secret = secrets.refresh
         /\ WithSecrets(c).jwt.previous_access_secret = secrets.previous_access
         /\ WithSecrets(c).jwt.previous_refresh_secret = secrets.previous_refresh
         /\ \A x \in DOMAIN c \ {"jwt", "storage"} : WithSecrets(c)[x] = c[x]
BY DEF WithSecrets, JWTSecrets

LEMMA DefaultKeys ==
  /\ {"jwt", "storage", "cache", "worker", "rate_limit"} \subseteq DOMAIN Defaults
  /\ JWTSecrets \subseteq DOMAIN Defaults["jwt"]
  /\ {"null_ttl_sec", "ttl_jitter_sec"} \subseteq DOMAIN Defaults["cache"]
  /\ "queue_size" \in DOMAIN Defaults["worker"]
  /\ {"rps", "burst", "window_sec"} \subseteq DOMAIN Defaults["rate_limit"]
BY SMT DEF Defaults, JWTSecrets

LEMMA DefaultAmounts ==
  /\ Defaults["cache"]["null_ttl_sec"] \in Int /\ Defaults["cache"]["ttl_jitter_sec"] \in Int
  /\ Defaults["worker"]["queue_size"] \in Int
  /\ Defaults["rate_limit"]["rps"] \in Int /\ Defaults["rate_limit"]["burst"] \in Int
  /\ Defaults["rate_limit"]["window_sec"] \in Int
BY SMT DEF Defaults

(* What the validators leave open, and is needed, the code sees to itself: *)
(* a ttl is never below a second, and a limit of rps * window_sec that is  *)
(* not positive is replaced by burst.                                      *)
LEMMA TTLPositive ==
  ASSUME NEW base \in Int, NEW jitter \in Int, NEW ttl \in EffectiveTTL(base, jitter)
  PROVE  ttl > 0
BY DEF EffectiveTTL, AtLeastSecond

LEMMA ProductPositive ==
  ASSUME NEW m \in Int, NEW n \in Int, m > 0, n > 0
  PROVE  m * n > 0
OBVIOUS

LEMMA LimitPositive ==
  ASSUME NEW c, c.rate_limit.rps \in Int, c.rate_limit.burst \in Int, c.rate_limit.window_sec \in Int,
         ValidRateLimit(c)
  PROVE  LimiterNeeds(c)
<1> DEFINE rps == c.rate_limit.rps
           burst == c.rate_limit.burst
           window == c.rate_limit.window_sec
<1>1. SUFFICES ASSUME c.rate_limit.enabled PROVE RateLimit(c) > 0 /\ window > 0
  BY DEF LimiterNeeds
<1>2. window > 0 /\ (rps > 0 \/ burst > 0)
  BY <1>1 DEF ValidRateLimit
<1>3. rps > 0 => rps * window > 0
  BY <1>2, ProductPositive
<1>4. RateLimit(c) = IF rps * window <= 0 THEN burst ELSE rps * window
  BY DEF RateLimit
<1>5. rps * window \in Int
  OBVIOUS
<1> HIDE DEF rps, burst, window
<1> QED
  BY <1>2, <1>3, <1>4, <1>5 DEF rps, burst, window

LEMMA ConfigInvInit == ConfigInit => ConfigInv
BY AmountsAssumption DEF ConfigInit, ConfigInv, FromSources

LEMMA ConfigStep == ASSUME ConfigInv, [ConfigNext]_configVars PROVE ConfigInv'
<1>1. ASSUME NEW program, Load(program) PROVE ConfigInv'
  <2>1. UNCHANGED <<inFile, inEnv, secrets>>
    BY <1>1 DEF Load
  <2> DEFINE c == WithSecrets(Unmarshalled)
  <2>2. /\ result'.by = program
        /\ result'.cfg = IF ~FileBackedSecret /\ Valid(program, c) THEN c ELSE NoConfig
    BY <1>1 DEF Load
  <2>3. c' = c /\ (FileBackedSecret' <=> FileBackedSecret)
    BY <2>1 DEF WithSecrets, Unmarshalled, Heard, Overlay, FileBackedSecret
  <2> HIDE DEF c
  <2>4. FromSources'
    BY <2>2, <2>3 DEF FromSources, c
  <2> QED
    BY <2>1, <2>4 DEF ConfigInv, Fit
<1>2. CASE UNCHANGED configVars
  BY <1>2 DEF configVars, ConfigInv, Fit, FromSources, FileBackedSecret, WithSecrets, Unmarshalled, Heard
<1> QED
  BY <1>1, <1>2 DEF ConfigNext

(* A configuration that loads is that of the sources, passed by the        *)
(* validators of the program, and its secrets are the environment's.       *)
THEOREM ConfigInvariant == ConfigSpec => []ConfigInv
BY ConfigInvInit, ConfigStep, PTL DEF ConfigSpec

(* Whatever the file and the environment say: a process starts with what   *)
(* its constructors and running parts need, or not at all.                 *)
THEOREM LoadedIsUsableHolds == ConfigSpec => []LoadedIsUsable
<1>1. ConfigInv => LoadedIsUsable
  <2> SUFFICES ASSUME ConfigInv, result.cfg # NoConfig
               PROVE  LoadedIsUsable
    BY DEF LoadedIsUsable, Loaded
  <2> DEFINE c == result.cfg
  <2>1. c = WithSecrets(Unmarshalled) /\ Valid(result.by, c) /\ Fit(inFile) /\ Fit(inEnv)
    BY DEF ConfigInv, FromSources
  <2>2. /\ c.jwt.access_secret = secrets.access /\ c.jwt.refresh_secret = secrets.refresh
        /\ c.jwt.previous_access_secret = secrets.previous_access
        /\ c.jwt.previous_refresh_secret = secrets.previous_refresh
        /\ c["cache"] = Unmarshalled["cache"] /\ c["worker"] = Unmarshalled["worker"]
        /\ c["rate_limit"] = Unmarshalled["rate_limit"]
    BY <2>1, DefaultKeys, UnmarshalledKeeps, SecretsOnly
  <2>3. /\ c.cache.null_ttl_sec \in Int /\ c.cache.ttl_jitter_sec \in Int
        /\ c.worker.queue_size \in Int
        /\ c.rate_limit.rps \in Int /\ c.rate_limit.burst \in Int /\ c.rate_limit.window_sec \in Int
    BY <2>1, <2>2, DefaultKeys, DefaultAmounts, UnmarshalledInt DEF Amounts
  <2> HIDE DEF c
  <2>4. ASSUME result.by = "migrate" PROVE MigratorNeeds(c)
    <3>1. ValidDB(c) /\ ValidMigration(c)
      BY <2>1, <2>4 DEF Valid, ValidateForMigration
    <3> QED
      BY <3>1 DEF ValidDB, ValidMigration, MigratorNeeds, DatabaseNeeds
  <2>5. ASSUME result.by = "server"
        PROVE  /\ MigratorNeeds(c) /\ PoolNeeds(c) /\ EnforcerNeeds(c) /\ CacheNeeds(c)
               /\ LockNeeds(c) /\ TokenNeeds(c) /\ LimiterNeeds(c) /\ DispatcherNeeds(c)
    <3>1. Validate(c)
      BY <2>1, <2>5 DEF Valid
    <3>2. MigratorNeeds(c)
      BY <3>1 DEF Validate, ValidDB, ValidMigration, MigratorNeeds, DatabaseNeeds
    <3>3. PoolNeeds(c)
      BY <2>3, <3>1 DEF Validate, ValidWorker, PoolNeeds
    <3>4. EnforcerNeeds(c)
      BY <3>1 DEF Validate, ValidRBAC, EnforcerNeeds
    <3>5. CacheNeeds(c)
      <4>1. \A ttl \in EffectiveTTL(300, c.cache.ttl_jitter_sec) : ttl > 0
        BY <2>3, TTLPositive
      <4>2. AtLeastSecond(c.cache.null_ttl_sec) > 0
        BY <2>3 DEF AtLeastSecond
      <4> QED
        BY <4>1, <4>2 DEF CacheNeeds
    <3>6. LockNeeds(c)
      BY <3>1 DEF Validate, ValidScheduler, LockNeeds
    <3>7. TokenNeeds(c)
      BY <2>2, <3>1 DEF Validate, ValidJWT, TokenNeeds, c
    <3>8. LimiterNeeds(c)
      BY <2>3, <3>1, LimitPositive DEF Validate
    <3>9. DispatcherNeeds(c)
      BY <3>1 DEF Validate, ValidMQ, DispatcherNeeds, RunsLoop, RegistersTask
    <3> QED
      BY <3>2, <3>3, <3>4, <3>5, <3>6, <3>7, <3>8, <3>9
  <2> QED
    BY <2>4, <2>5 DEF LoadedIsUsable, Loaded, c
<1> QED
  BY <1>1, ConfigInvariant, PTL
=============================================================================
