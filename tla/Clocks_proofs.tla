---------------------------- MODULE Clocks_proofs ----------------------------
(***************************************************************************)
(* Proofs about the two components that run on the instances' clocks: the  *)
(* sliding window, for any number of calls and instances, any limit and    *)
(* window, and any bound on skew and delay; and one token pair, for any    *)
(* instances and requests and any plan of configurations.                  *)
(***************************************************************************)
EXTENDS Sessions, RateLimiter, SequenceTheorems, FiniteSetTheorems, TLAPS

(* The limiter.                                                            *)

LEMMA LimiterNumbers ==
  /\ MaxSkew \in Nat /\ MaxDelay \in Nat /\ Window \in Nat /\ Window > 0
  /\ Limit \in Nat /\ Limit > 0
BY ClockAssumption, LimiterAssumption

LEMMA LimiterTypeInit == LimiterInit => LimiterTypeOK
BY LimiterNumbers DEF LimiterInit, ClockInit, LimiterTypeOK

LEMMA KeptSubset == \A c \in Calls : Kept(c) \subseteq members
BY DEF Kept

LEMMA LimiterTypeStep ==
  ASSUME LimiterTypeOK, [LimiterNext]_limiterVars
  PROVE  LimiterTypeOK'
<1> USE LimiterNumbers DEF LimiterTypeOK, clockVars
<1>1. ASSUME NEW c \in Calls, NEW i \in Instances, Ask(c, i) PROVE LimiterTypeOK'
  <2>1. Clock(i) \in Nat
    BY DEF Clock
  <2> QED
    BY <1>1, <2>1 DEF Ask
<1>2. ASSUME NEW c \in Calls, RunScript(c) PROVE LimiterTypeOK'
  <2>1. members' \subseteq counted' /\ counted' \subseteq Calls
    BY <1>2, KeptSubset DEF RunScript, Added
  <2> QED
    BY <1>2, <2>1 DEF RunScript
<1>3. ASSUME NEW c \in Calls, DegradeOpen(c) PROVE LimiterTypeOK'
  BY <1>3 DEF DegradeOpen
<1>4. CASE LimiterPass
  BY <1>4 DEF LimiterPass, Pass
<1>5. CASE UNCHANGED limiterVars
  BY <1>5 DEF limiterVars
<1> QED
  BY <1>1, <1>2, <1>3, <1>4, <1>5 DEF LimiterNext

-----------------------------------------------------------------------------
(* The set of members never holds more than Limit.                         *)

LEMMA MembersFinite == ASSUME LimiterTypeOK PROVE IsFiniteSet(members) /\ Cardinality(members) \in Nat
<1>1. IsFiniteSet(members)
  BY CallsAssumption, FS_Subset DEF LimiterTypeOK
<1> QED
  BY <1>1, FS_CardinalityType

LEMMA AddedFits ==
  ASSUME LimiterTypeOK, Cardinality(members) <= Limit, NEW c \in Calls
  PROVE  Cardinality(Added(c)) <= Limit
<1>1. IsFiniteSet(Kept(c)) /\ Cardinality(Kept(c)) <= Cardinality(members)
  BY MembersFinite, KeptSubset, FS_Subset
<1>2. Cardinality(Kept(c)) \in Nat
  BY <1>1, FS_CardinalityType
<1>3. CASE Full(c)
  BY <1>1, <1>2, <1>3, MembersFinite, LimiterNumbers DEF Added
<1>4. CASE ~Full(c)
  <2>1. Cardinality(Kept(c)) < Limit
    BY <1>2, <1>4, LimiterNumbers DEF Full
  <2>2. Cardinality(Kept(c) \cup {c}) <= Cardinality(Kept(c)) + 1
    BY <1>1, <1>2, FS_AddElement
  <2>3. Cardinality(Kept(c) \cup {c}) \in Nat
    BY <1>1, FS_AddElement, FS_CardinalityType
  <2> QED
    BY <1>2, <1>4, <2>1, <2>2, <2>3, LimiterNumbers DEF Added
<1> QED
  BY <1>3, <1>4

-----------------------------------------------------------------------------
(* The invariant.                                                          *)

LEMMA LimiterInvInit == LimiterInit => LimiterInv
BY LimiterNumbers, FS_EmptySet DEF LimiterInit, LimiterInv, AskedInTime, RanInTime, CountedStay

LEMMA StepAsk ==
  ASSUME LimiterTypeOK, LimiterInv, NEW c \in Calls, NEW i \in Instances, Ask(c, i)
  PROVE  LimiterInv'
<1> USE LimiterNumbers DEF LimiterTypeOK, clockVars
<1>1. Clock(i) \in Nat /\ now <= Clock(i) /\ Clock(i) <= now + MaxSkew
  BY DEF Clock
<1>2. AskedInTime'
  BY <1>1 DEF Ask, LimiterInv, AskedInTime
<1>3. c \notin counted
  BY DEF Ask, LimiterInv, RanInTime
<1>4. RanInTime' /\ CountedStay'
  BY <1>3 DEF Ask, LimiterInv, RanInTime, CountedStay, Recent
<1> QED
  BY <1>2, <1>4 DEF Ask, LimiterInv

LEMMA StepRun ==
  ASSUME LimiterTypeOK, LimiterInv, NEW c \in Calls, RunScript(c)
  PROVE  LimiterInv'
<1> USE LimiterNumbers DEF LimiterTypeOK, clockVars
<1>1. /\ asked[c] <= now /\ now <= asked[c] + MaxDelay
      /\ asked[c] <= score[c] /\ score[c] <= asked[c] + MaxSkew
  BY DEF RunScript, LimiterInv, AskedInTime
<1>2. now <= score[c] + MaxDelay /\ score[c] <= now + MaxSkew
  BY <1>1
<1>3. AskedInTime'
  BY DEF RunScript, LimiterInv, AskedInTime
<1>4. RanInTime'
  <2>1. ASSUME NEW d \in counted, d # c
        PROVE  verdict'[d] # "idle" /\ ran'[d] <= score'[d] + MaxDelay
               /\ score'[d] <= ran'[d] + MaxSkew /\ ran'[d] <= now
    <3>1. d \in Calls /\ ran'[d] = ran[d] /\ verdict'[d] = verdict[d]
      BY <2>1 DEF RunScript
    <3> QED
      BY <2>1, <3>1 DEF RunScript, LimiterInv, RanInTime
  <2>2. verdict'[c] # "idle" /\ ran'[c] = now
    BY DEF RunScript
  <2>3. counted' \subseteq counted \cup {c} /\ expiry' = now + Window /\ score' = score
    BY DEF RunScript
  <2>4. now' = now /\ ran' \in [Calls -> Nat] /\ counted' \subseteq Calls
    BY DEF RunScript
  <2>5. ASSUME NEW d \in counted'
        PROVE  /\ verdict'[d] # "idle" /\ ran'[d] <= now'
               /\ ran'[d] <= score'[d] + MaxDelay /\ score'[d] <= ran'[d] + MaxSkew
    BY <1>2, <2>1, <2>2, <2>3, <2>4
  <2>6. ASSUME NEW d \in counted' PROVE ran'[d] + Window <= expiry'
    BY <2>3, <2>4, <2>5
  <2> QED
    BY <2>5, <2>6 DEF RanInTime
<1>5. CountedStay'
  <2>1. ASSUME NEW d \in Calls, d # c, verdict'[d] = "allowed"
        PROVE  d \in counted' /\ (Recent(d)' => d \in members')
    <3>1. verdict[d] = "allowed" /\ ran'[d] = ran[d] /\ now' = now
      BY <2>1 DEF RunScript
    <3>2. d \in counted /\ (Recent(d) => d \in members)
      BY <3>1 DEF LimiterInv, CountedStay
    <3>3. Recent(d)' => Recent(d)
      BY <3>1 DEF Recent
    <3>4. ASSUME Recent(d) PROVE score[d] + Window > score[c]
      BY <1>2, <3>2, <3>4 DEF Recent, LimiterInv, RanInTime
    <3>5. Recent(d) => d \in Kept(c)
      BY <3>2, <3>4 DEF Kept
    <3> QED
      BY <3>2, <3>3, <3>5 DEF RunScript, Added
  <2>2. verdict'[c] = "allowed" => c \in counted' /\ c \in members'
    BY DEF RunScript, Added
  <2> QED
    BY <2>1, <2>2 DEF CountedStay
<1>6. Cardinality(members') <= Limit
  BY AddedFits DEF RunScript, LimiterInv
<1> QED
  BY <1>3, <1>4, <1>5, <1>6 DEF LimiterInv

LEMMA LimiterStepPass ==
  ASSUME LimiterTypeOK, LimiterInv, LimiterPass
  PROVE  LimiterInv'
<1> USE LimiterNumbers DEF LimiterTypeOK, clockVars
<1>1. now' = now + 1 /\ verdict' = verdict /\ score' = score /\ asked' = asked /\ ran' = ran
      /\ expiry' = expiry /\ counted' = counted
  BY DEF LimiterPass, Pass
<1>2. AskedInTime'
  BY <1>1 DEF LimiterPass, LimiterInv, AskedInTime
<1>3. RanInTime'
  BY <1>1 DEF LimiterInv, RanInTime
<1>4. ASSUME NEW c \in Calls, verdict[c] = "allowed", Recent(c)'
      PROVE  c \in members'
  <2>1. c \in counted /\ ran[c] + Window <= expiry
    BY <1>4 DEF LimiterInv, CountedStay, RanInTime
  <2>2. Recent(c) /\ now' < expiry
    BY <1>1, <1>4, <2>1 DEF Recent
  <2> QED
    BY <1>4, <2>2 DEF LimiterPass, LimiterInv, CountedStay
<1>5. CountedStay'
  BY <1>1, <1>4 DEF LimiterInv, CountedStay
<1>6. Cardinality(members') <= Limit
  BY FS_EmptySet DEF LimiterPass, LimiterInv
<1> QED
  BY <1>2, <1>3, <1>5, <1>6 DEF LimiterInv

LEMMA LimiterInvStep ==
  ASSUME LimiterTypeOK, LimiterInv, [LimiterNext]_limiterVars
  PROVE  LimiterInv'
<1>1. ASSUME NEW c \in Calls, DegradeOpen(c) PROVE LimiterInv'
  BY <1>1 DEF DegradeOpen, clockVars, LimiterTypeOK, LimiterInv, AskedInTime, RanInTime, CountedStay, Recent
<1>2. CASE UNCHANGED limiterVars
  BY <1>2 DEF limiterVars, clockVars, LimiterInv, AskedInTime, RanInTime, CountedStay, Recent
<1> QED
  BY <1>1, <1>2, StepAsk, StepRun, LimiterStepPass DEF LimiterNext

(* The state has its types and LimiterInv holds.                           *)
THEOREM LimiterInvariant == LimiterSpec => [](LimiterTypeOK /\ LimiterInv)
<1>1. LimiterInit => LimiterTypeOK /\ LimiterInv
  BY LimiterTypeInit, LimiterInvInit
<1>2. LimiterTypeOK /\ LimiterInv /\ [LimiterNext]_limiterVars => (LimiterTypeOK /\ LimiterInv)'
  BY LimiterTypeStep, LimiterInvStep
<1> QED
  BY <1>1, <1>2, PTL DEF LimiterSpec

-----------------------------------------------------------------------------
(* No more than Limit calls are let through within a window shortened by   *)
(* skew and delay: the recent ones are all members.                        *)
THEOREM BoundedRateHolds == LimiterSpec => []BoundedRate
<1>1. ASSUME LimiterTypeOK, LimiterInv PROVE BoundedRate
  <2> DEFINE R == {c \in Calls : verdict[c] = "allowed" /\ Recent(c)}
  <2>1. R \subseteq members
    BY <1>1 DEF LimiterInv, CountedStay
  <2>2. IsFiniteSet(R) /\ Cardinality(R) <= Cardinality(members)
    BY <1>1, <2>1, MembersFinite, FS_Subset
  <2>3. Cardinality(R) \in Nat /\ Cardinality(members) \in Nat /\ Limit \in Nat
    BY <1>1, <2>2, MembersFinite, FS_CardinalityType, LimiterNumbers
  <2>4. Cardinality(R) <= Limit
    BY <1>1, <2>2, <2>3 DEF LimiterInv
  <2> QED
    BY <2>4 DEF BoundedRate
<1> QED
  BY <1>1, LimiterInvariant, PTL

(* A call is turned away only if Limit calls were counted within a window  *)
(* lengthened by skew and delay.                                           *)
THEOREM RejectedWhenFullHolds == LimiterSpec => RejectedWhenFull
<1>1. ASSUME LimiterTypeOK, LimiterInv, [LimiterNext]_limiterVars, NEW c \in Calls,
             verdict[c] # "rejected", verdict'[c] = "rejected"
      PROVE  Cardinality({d \in counted : now < ran[d] + Window + MaxSkew + MaxDelay}) >= Limit
  <2> DEFINE R == {d \in counted : now < ran[d] + Window + MaxSkew + MaxDelay}
  <2>1. RunScript(c) /\ Full(c)
    <3>1. PICK d \in Calls : (\E i \in Instances : Ask(d, i)) \/ RunScript(d) \/ DegradeOpen(d)
      BY <1>1 DEF LimiterNext, LimiterPass, limiterVars
    <3> QED
      BY <1>1, <3>1 DEF Ask, RunScript, DegradeOpen, LimiterTypeOK
  <2>2. now <= score[c] + MaxDelay
    BY <1>1, <2>1, LimiterNumbers DEF RunScript, LimiterInv, AskedInTime, LimiterTypeOK
  <2>3. Kept(c) \subseteq R
    BY <1>1, <2>2, LimiterNumbers DEF Kept, LimiterInv, RanInTime, LimiterTypeOK
  <2>4. IsFiniteSet(R)
    BY <1>1, CallsAssumption, FS_Subset DEF LimiterTypeOK
  <2>5. IsFiniteSet(Kept(c)) /\ Cardinality(Kept(c)) <= Cardinality(R)
    BY <2>3, <2>4, FS_Subset
  <2>6. Cardinality(Kept(c)) \in Nat /\ Cardinality(R) \in Nat
    BY <2>4, <2>5, FS_CardinalityType
  <2> QED
    BY <2>1, <2>5, <2>6, LimiterNumbers DEF Full
<1>2. LimiterTypeOK /\ LimiterInv /\ [LimiterNext]_limiterVars =>
        [\A c \in Calls : verdict[c] # "rejected" /\ verdict'[c] = "rejected" =>
           Cardinality({d \in counted : now < ran[d] + Window + MaxSkew + MaxDelay}) >= Limit]_limiterVars
  BY <1>1
<1> QED
  BY <1>2, LimiterInvariant, PTL DEF RejectedWhenFull, LimiterSpec

-----------------------------------------------------------------------------
(* The token pair.                                                         *)

LEMMA SessionsNumbers ==
  /\ MaxSkew \in Nat /\ MaxTime \in Nat
  /\ \A kind \in Kinds : TTL[kind] \in Nat /\ TTL[kind] > 0
  /\ "access" \in Kinds /\ "refresh" \in Kinds
BY ClockAssumption, TTLAssumption DEF Kinds

LEMMA PlanLength == Len(Plan) \in Nat /\ Len(Plan) >= 1 /\ DOMAIN Plan = 1..Len(Plan)
<1>1. Len(Plan) \in Nat /\ DOMAIN Plan = 1..Len(Plan)
  BY PlanAssumption
<1>2. Len(Plan) # 0
  BY PlanAssumption
<1> QED
  BY <1>1, <1>2

LEMMA Primary ==
  ASSUME NEW n \in 1..Len(Plan)
  PROVE  /\ Plan[n].primary \in Keys
         /\ BuildKeys(Plan[n])[1] = Plan[n].primary
         /\ Plan[n].primary \in KeySet(n)
<1>1. Plan[n].primary \in Keys
  <2>1. Plan \in Seq([primary : Keys, previous : Keys \cup {None}])
    BY PlanAssumption
  <2>2. Plan[n] \in [primary : Keys, previous : Keys \cup {None}]
    BY <2>1, ElementOfSeq
  <2> QED
    BY <2>2
<1>2. BuildKeys(Plan[n])[1] = Plan[n].primary /\ 1 \in DOMAIN BuildKeys(Plan[n])
  BY DEF BuildKeys
<1> QED
  BY <1>1, <1>2 DEF KeySet

(* What one configuration signs with is known to it and to the next.       *)
LEMMA NextKnows ==
  ASSUME NEW n \in 1..Len(Plan), NEW k \in 1..Len(Plan), n <= k, k <= n + 1
  PROVE  Plan[n].primary \in KeySet(k)
<1>1. CASE k = n
  BY <1>1, Primary
<1>2. CASE k = n + 1
  <2>1. n \in 1..(Len(Plan) - 1)
    BY <1>2, PlanLength
  <2> QED
    BY <1>2, <2>1, PlanAssumption
<1> QED
  BY <1>1, <1>2, PlanLength

-----------------------------------------------------------------------------
(* Types.                                                                  *)

PairTyped == [pc : {"none", "signed", "half", "issued", "failed"}, at : Instances \cup {None},
              key : Keys \cup {None}, stage : 0..Len(Plan), made : Nat, nbf : Nat, ttl : Nat]

ReqTyped == [op : {"none", "auth", "block", "refresh", "revoke"}, at : Instances \cup {None}, ttl : Nat,
             late : BOOLEAN, pc : {"idle", "sent", "again", "granted"}]

LEMMA Types ==
  SessionsTypeOK <=>
    /\ now \in 0..MaxTime /\ skew \in [Instances -> 0..MaxSkew]
    /\ stage \in [Instances -> 1..Len(Plan)]
    /\ pair \in PairTyped
    /\ entry \in [{"new", "legacy", "black"} -> Nat]
    /\ req \in [Requests -> ReqTyped]
    /\ blocked \in BOOLEAN /\ fate \in {"live", "erased", "revoked"}
BY DEF SessionsTypeOK, PairTyped, ReqTyped

LEMMA IdleTyped == Idle \in ReqTyped /\ [Idle EXCEPT !.pc = "granted"] \in ReqTyped
BY DEF Idle, ReqTyped

LEMMA SessionsTypeInit == SessionsInit => SessionsTypeOK
<1> SUFFICES ASSUME SessionsInit PROVE SessionsTypeOK
  OBVIOUS
<1>1. now \in 0..MaxTime /\ skew \in [Instances -> 0..MaxSkew]
  BY ClockAssumption DEF SessionsInit, ClockInit
<1>2. stage \in [Instances -> 1..Len(Plan)]
  BY PlanLength DEF SessionsInit
<1>3. pair \in PairTyped
  BY DEF SessionsInit, PairTyped
<1>4. entry \in [{"new", "legacy", "black"} -> Nat]
  BY DEF SessionsInit
<1>5. req \in [Requests -> ReqTyped]
  BY IdleTyped DEF SessionsInit
<1>6. blocked \in BOOLEAN /\ fate \in {"live", "erased", "revoked"}
  BY DEF SessionsInit
<1> QED
  BY <1>1, <1>2, <1>3, <1>4, <1>5, <1>6, Types

LEMMA Reading ==
  ASSUME SessionsTypeOK, NEW i \in Instances
  PROVE  Clock(i) \in Nat /\ now <= Clock(i) /\ Clock(i) <= now + MaxSkew /\ skew[i] \in Nat
BY SessionsNumbers DEF SessionsTypeOK, Clock

LEMMA Ending == ASSUME SessionsTypeOK PROVE \A kind \in Kinds : Exp(kind) \in Nat
BY SessionsNumbers DEF SessionsTypeOK, Exp

LEMMA PairKept ==
  ASSUME pair \in PairTyped, NEW p \in {"half", "issued", "failed"}, NEW a \in {pair.at, None}, NEW t \in Nat
  PROVE  [pair EXCEPT !.pc = p, !.at = a, !.ttl = t] \in PairTyped
<1>1. pair.at \in Instances \cup {None}
  BY DEF PairTyped
<1>2. [pair EXCEPT !.pc = p] \in PairTyped
  BY DEF PairTyped
<1>3. [[pair EXCEPT !.pc = p] EXCEPT !.at = a] \in PairTyped
  BY <1>1, <1>2 DEF PairTyped
<1>4. [[[pair EXCEPT !.pc = p] EXCEPT !.at = a] EXCEPT !.ttl = t] \in PairTyped
  BY <1>3 DEF PairTyped
<1>5. [pair EXCEPT !.pc = p, !.at = a, !.ttl = t] = [[[pair EXCEPT !.pc = p] EXCEPT !.at = a] EXCEPT !.ttl = t]
  OBVIOUS
<1> QED
  BY <1>4, <1>5

LEMMA TypesPrimed ==
  ASSUME now' \in 0..MaxTime, skew' \in [Instances -> 0..MaxSkew], stage' \in [Instances -> 1..Len(Plan)],
         pair' \in PairTyped, entry' \in [{"new", "legacy", "black"} -> Nat],
         req' \in [Requests -> ReqTyped], blocked' \in BOOLEAN, fate' \in {"live", "erased", "revoked"}
  PROVE  SessionsTypeOK'
BY DEF SessionsTypeOK, PairTyped, ReqTyped

LEMMA SessionsTypeStep ==
  ASSUME SessionsTypeOK, TimesKept, [SessionsNext]_sessionVars
  PROVE  SessionsTypeOK'
<1> USE Types DEF clockVars
<1>1. ASSUME NEW i \in Instances, Generate(i) PROVE SessionsTypeOK'
  <2>1. BuildKeys(Plan[stage[i]])[1] \in Keys
    BY Primary
  <2>2. Clock(i) \in Nat /\ now \in Nat
    BY Reading
  <2>3. pair' \in PairTyped
    BY <1>1, <2>1, <2>2 DEF Generate, PairTyped
  <2> QED
    BY <1>1, <2>3, TypesPrimed DEF Generate
<1>2. ASSUME NEW i \in Instances, Rotate(i) PROVE SessionsTypeOK'
  <2>1. stage' \in [Instances -> 1..Len(Plan)]
    BY <1>2, PlanLength DEF Rotate
  <2>2. req' \in [Requests -> ReqTyped]
    BY <1>2, IdleTyped DEF Rotate
  <2>3. pair' \in PairTyped
    BY <1>2 DEF Rotate, PairTyped
  <2> QED
    BY <1>2, <2>1, <2>2, <2>3, TypesPrimed DEF Rotate
<1>3. ASSUME NEW r \in Requests, NEW i \in Instances, NEW op \in {"auth", "block", "refresh", "revoke"},
             Begin(r, i, op)
      PROVE  SessionsTypeOK'
  <2>1. (IF op = "block" THEN Remaining(i, "access") ELSE 0) \in Nat
    <3>1. op = "block" => Clock(i) < Exp("access")
      BY <1>3 DEF Begin, Parses, KindOf
    <3>2. Clock(i) \in Nat /\ Exp("access") \in Nat
      BY Reading, Ending, SessionsNumbers
    <3> QED
      BY <3>1, <3>2 DEF Remaining
  <2>2. Late(op) \in BOOLEAN
    BY DEF Late
  <2>3. req' \in [Requests -> ReqTyped]
    BY <1>3, <2>1, <2>2 DEF Begin, ReqTyped
  <2> QED
    BY <1>3, <2>3, TypesPrimed DEF Begin
<1>4. ASSUME NEW r \in Requests, Check(r) \/ CheckFails(r) \/ Leave(r) PROVE SessionsTypeOK'
  <2>1. [req[r] EXCEPT !.pc = "again"] \in ReqTyped
    BY DEF ReqTyped
  <2>2. \E x \in ReqTyped : req' = [req EXCEPT ![r] = x]
    <3>1. CheckFails(r) \/ Leave(r) => End(r)
      BY DEF CheckFails, Leave
    <3>2. Check(r) => End(r) \/ Grant(r) \/ req' = [req EXCEPT ![r] = [req[r] EXCEPT !.pc = "again"]]
      BY DEF Check, Answered
    <3> QED
      BY <1>4, <2>1, <3>1, <3>2, IdleTyped DEF End, Grant
  <2>3. req' \in [Requests -> ReqTyped]
    BY <2>2
  <2> QED
    BY <1>4, <2>3, TypesPrimed DEF Check, CheckFails, Leave
<1>5. ASSUME NEW r \in Requests, Block(r) PROVE SessionsTypeOK'
  <2>1. req' \in [Requests -> ReqTyped]
    BY <1>5, IdleTyped DEF Block, End
  <2>2. now + req[r].ttl \in Nat
    BY DEF ReqTyped
  <2>3. entry' \in [{"new", "legacy", "black"} -> Nat] /\ blocked' \in BOOLEAN
    BY <1>5, <2>2 DEF Block
  <2> QED
    BY <1>5, <2>1, <2>3, TypesPrimed DEF Block
<1>6. ASSUME NEW r \in Requests, Revoke(r) PROVE SessionsTypeOK'
  <2>1. req' \in [Requests -> ReqTyped]
    BY <1>6, IdleTyped DEF Revoke, End
  <2>2. entry' \in [{"new", "legacy", "black"} -> Nat] /\ fate' \in {"live", "erased", "revoked"}
    BY <1>6 DEF Revoke, Erased
  <2> QED
    BY <1>6, <2>1, <2>2, TypesPrimed DEF Revoke
<1>7. CASE StoreNew
  <2>1. pair.at \in Instances
    BY <1>7 DEF StoreNew, TimesKept
  <2>2. Remaining(pair.at, "refresh") \in Nat /\ now + Remaining(pair.at, "refresh") \in Nat
    <3>1. Clock(pair.at) < Exp("refresh")
      BY <1>7 DEF StoreNew
    <3>2. Clock(pair.at) \in Nat /\ Exp("refresh") \in Nat /\ now \in Nat
      BY <2>1, Reading, Ending, SessionsNumbers
    <3> QED
      BY <3>1, <3>2 DEF Remaining
  <2>3. pair' \in PairTyped
    <3>1. CASE pair' = [pair EXCEPT !.pc = "half", !.ttl = Remaining(pair.at, "refresh")]
      BY <2>2, <3>1 DEF PairTyped
    <3>2. CASE pair' = [pair EXCEPT !.pc = "failed", !.at = None, !.ttl = 0]
      BY <3>2, PairKept
    <3> QED
      BY <1>7, <3>1, <3>2 DEF StoreNew, StoreError
  <2>4. entry' \in [{"new", "legacy", "black"} -> Nat]
    BY <1>7, <2>2 DEF StoreNew
  <2> QED
    BY <1>7, <2>3, <2>4, TypesPrimed DEF StoreNew
<1>8. CASE StoreLegacy
  <2>1. now + pair.ttl \in Nat
    BY DEF PairTyped
  <2>2. pair' \in PairTyped
    <3>1. CASE pair' = [pair EXCEPT !.pc = "issued", !.at = None, !.ttl = 0]
      BY <3>1, PairKept
    <3>2. CASE pair' = [pair EXCEPT !.pc = "failed", !.at = None, !.ttl = 0]
      BY <3>2, PairKept
    <3> QED
      BY <1>8, <3>1, <3>2 DEF StoreLegacy, StoreError
  <2>3. entry' \in [{"new", "legacy", "black"} -> Nat]
    BY <1>8, <2>1 DEF StoreLegacy
  <2> QED
    BY <1>8, <2>2, <2>3, TypesPrimed DEF StoreLegacy
<1>9. CASE SessionsPass
  <2>1. now' \in 0..MaxTime
    BY <1>9, SessionsNumbers DEF SessionsPass, Pass
  <2>2. entry' \in [{"new", "legacy", "black"} -> Nat]
    BY <1>9 DEF SessionsPass
  <2> QED
    BY <1>9, <2>1, <2>2, TypesPrimed DEF SessionsPass, Pass
<1>10. CASE UNCHANGED sessionVars
  BY <1>10, TypesPrimed DEF sessionVars
<1> QED
  BY <1>1, <1>2, <1>3, <1>4, <1>5, <1>6, <1>7, <1>8, <1>9, <1>10 DEF SessionsNext

-----------------------------------------------------------------------------
(* The invariant.                                                          *)

LEMMA SessionsInvInit == SessionsInit => SessionsInv
BY DEF SessionsInit, SessionsInv, KeysKept, TimesKept, StoredLongEnough, Gone, Blocked, Idle

LEMMA StepGenerate ==
  ASSUME SessionsTypeOK, SessionsInv, NEW i \in Instances, Generate(i)
  PROVE  SessionsInv'
<1> USE SessionsNumbers DEF SessionsTypeOK, clockVars
<1>1. pair'.key = Plan[stage[i]].primary /\ pair'.stage = stage[i]
  BY Primary DEF Generate
<1>2. ASSUME NEW j \in Instances, stage[j] >= stage[i] PROVE pair'.key \in KeySet(stage[j])
  BY <1>1, <1>2, NextKnows DEF SessionsInv, KeysKept
<1>3. KeysKept'
  <2>1. \A j \in Instances : KeySet(stage[j])' = KeySet(stage[j])
    BY DEF Generate, KeySet
  <2> QED
    BY <1>1, <1>2, <2>1 DEF Generate, SessionsInv, KeysKept
<1>4. TimesKept'
  BY Reading DEF Generate, TimesKept, Clock
<1>5. StoredLongEnough'
  BY DEF Generate, StoredLongEnough
<1>6. (\A r \in Requests : req[r].op = "none") /\ fate = "live" /\ ~blocked
  BY DEF Generate, SessionsInv, Gone, Blocked, Handed
<1>7. Gone' /\ Blocked'
  BY <1>6 DEF Generate, Gone, Blocked
<1> QED
  BY <1>3, <1>4, <1>5, <1>7 DEF SessionsInv

LEMMA StepStoreNew ==
  ASSUME SessionsTypeOK, SessionsInv, StoreNew
  PROVE  SessionsInv'
<1> USE SessionsNumbers DEF SessionsTypeOK, clockVars
<1> DEFINE ttl == Remaining(pair.at, "refresh")
<1>1. pair.at \in Instances /\ pair.nbf = pair.made + skew[pair.at]
  BY DEF StoreNew, SessionsInv, TimesKept
<1>2. ttl \in Nat /\ now + ttl = pair.made + TTL["refresh"]
  <2>1. Clock(pair.at) < Exp("refresh") /\ Clock(pair.at) = now + skew[pair.at]
    BY DEF StoreNew, Clock
  <2>2. Exp("refresh") = pair.made + skew[pair.at] + TTL["refresh"]
    BY <1>1 DEF Exp
  <2>3. now \in Nat /\ skew[pair.at] \in Nat
    BY <1>1, Reading
  <2>4. pair.made \in Nat /\ TTL["refresh"] \in Nat
    OBVIOUS
  <2>5. ttl = Exp("refresh") - Clock(pair.at)
    BY DEF Remaining
  <2> HIDE DEF ttl, SessionsTypeOK
  <2> QED
    BY <2>1, <2>2, <2>3, <2>4, <2>5
<1>3. /\ pair'.key = pair.key /\ pair'.stage = pair.stage /\ pair'.made = pair.made /\ pair'.nbf = pair.nbf
      /\ \/ pair'.pc = "half" /\ pair'.ttl = ttl /\ pair'.at = pair.at /\ entry'["new"] = now + ttl
         \/ pair'.pc = "failed"
      /\ entry'["black"] = entry["black"]
  BY DEF StoreNew, StoreError
<1>4. (\A r \in Requests : req[r].op = "none") /\ fate = "live" /\ ~blocked /\ pair.pc = "signed"
  BY DEF StoreNew, SessionsInv, Gone, Blocked, Handed
<1>5. KeysKept'
  BY <1>3, <1>4 DEF StoreNew, SessionsInv, KeysKept, KeySet, Exp
<1>6. TimesKept'
  BY <1>1, <1>3, <1>4 DEF StoreNew, SessionsInv, TimesKept
<1>7. StoredLongEnough'
  BY <1>2, <1>3, <1>4 DEF StoreNew, StoredLongEnough, Lasts
<1>8. Gone' /\ Blocked'
  BY <1>4 DEF StoreNew, Gone, Blocked
<1> QED
  BY <1>5, <1>6, <1>7, <1>8 DEF SessionsInv

LEMMA StepStoreLegacy ==
  ASSUME SessionsTypeOK, SessionsInv, StoreLegacy
  PROVE  SessionsInv'
<1> USE SessionsNumbers DEF SessionsTypeOK, clockVars
<1>1. /\ pair'.key = pair.key /\ pair'.stage = pair.stage /\ pair'.made = pair.made /\ pair'.nbf = pair.nbf
      /\ \/ pair'.pc = "issued" /\ entry'["legacy"] = now + pair.ttl /\ entry'["new"] = entry["new"]
         \/ pair'.pc = "failed"
  BY DEF StoreLegacy, StoreError
<1>2. /\ (\A r \in Requests : req[r].op = "none") /\ fate = "live" /\ ~blocked /\ pair.pc = "half"
      /\ Lasts("new") /\ now + pair.ttl >= pair.made + TTL["refresh"]
  BY DEF StoreLegacy, SessionsInv, StoredLongEnough, Gone, Blocked, Handed
<1>3. KeysKept'
  BY <1>1, <1>2 DEF StoreLegacy, SessionsInv, KeysKept, KeySet, Exp
<1>4. TimesKept'
  BY <1>1, <1>2 DEF StoreLegacy, SessionsInv, TimesKept
<1>5. StoredLongEnough'
  BY <1>1, <1>2 DEF StoreLegacy, StoredLongEnough, Lasts
<1>6. Gone' /\ Blocked'
  BY <1>2 DEF StoreLegacy, Gone, Blocked
<1> QED
  BY <1>3, <1>4, <1>5, <1>6 DEF SessionsInv

(* What a step that changes requests only has to keep.                     *)
LEMMA OnlyRequests ==
  ASSUME SessionsTypeOK, SessionsInv, UNCHANGED <<clockVars, stage, pair, entry, blocked, fate>>,
         \A r \in Requests :
            \/ req'[r].op = "none"
            \/ req'[r].op = req[r].op /\ req'[r].late = req[r].late /\ req'[r].ttl = req[r].ttl
            \/ /\ pair.pc \in Handed
               /\ req'[r].op = "auth" /\ req'[r].late => blocked
               /\ req'[r].op = "refresh" /\ req'[r].late => fate = "revoked"
               /\ req'[r].op = "block" => now + req'[r].ttl + MaxSkew >= Exp("access")
  PROVE  SessionsInv'
<1> USE DEF clockVars
<1>1. KeysKept' /\ TimesKept' /\ StoredLongEnough'
  BY DEF SessionsInv, KeysKept, TimesKept, StoredLongEnough, Lasts, KeySet, Exp
<1>2. Gone'
  BY DEF SessionsInv, Gone
<1>3. Blocked'
  BY DEF SessionsInv, Blocked, Exp
<1> QED
  BY <1>1, <1>2, <1>3 DEF SessionsInv

LEMMA StepBegin ==
  ASSUME SessionsTypeOK, SessionsInv, NEW r \in Requests, NEW i \in Instances,
         NEW op \in {"auth", "block", "refresh", "revoke"}, Begin(r, i, op)
  PROVE  SessionsInv'
<1> USE SessionsNumbers DEF SessionsTypeOK
<1>1. Clock(i) < Exp(KindOf(op)) /\ Clock(i) \in Nat /\ Clock(i) <= now + MaxSkew
  BY Reading DEF Begin, Parses
<1>2. op = "block" => now + Remaining(i, "access") + MaxSkew >= Exp("access")
  <2>1. op = "block" => Clock(i) < Exp("access")
    BY <1>1 DEF KindOf
  <2>2. Remaining(i, "access") = Exp("access") - Clock(i) /\ Exp("access") \in Nat /\ now \in Nat
    BY Ending DEF Remaining
  <2> QED
    BY <1>1, <2>1, <2>2
<1>3. /\ req'[r].op = op /\ req'[r].late = Late(op)
      /\ req'[r].ttl = IF op = "block" THEN Remaining(i, "access") ELSE 0
  BY DEF Begin
<1>4. \A d \in Requests : d # r => req'[d] = req[d]
  BY DEF Begin
<1>5. /\ pair.pc \in Handed
      /\ op = "auth" /\ Late(op) => blocked
      /\ op = "refresh" /\ Late(op) => fate = "revoked"
  BY DEF Begin, Handed, Late
<1> QED
  BY <1>2, <1>3, <1>4, <1>5, OnlyRequests DEF Begin

LEMMA StepAnswer ==
  ASSUME SessionsTypeOK, SessionsInv, NEW r \in Requests, Check(r) \/ CheckFails(r) \/ Leave(r)
  PROVE  SessionsInv'
<1>1. ASSUME NEW d \in Requests
      PROVE  \/ req'[d].op = "none"
             \/ req'[d].op = req[d].op /\ req'[d].late = req[d].late /\ req'[d].ttl = req[d].ttl
  <2>1. req'[r].op = "none" \/ req'[r] = [req[r] EXCEPT !.pc = "again"]
    <3>1. CheckFails(r) \/ Leave(r) => End(r)
      BY DEF CheckFails, Leave
    <3>2. Check(r) => End(r) \/ Grant(r) \/ req' = [req EXCEPT ![r] = [req[r] EXCEPT !.pc = "again"]]
      BY Types DEF Check, Answered
    <3> QED
      BY <3>1, <3>2, Types DEF End, Grant, Idle
  <2>2. d # r => req'[d] = req[d]
    BY Types DEF Check, CheckFails, Leave, Answered, End, Grant
  <2>3. req[r] \in [op : {"none", "auth", "block", "refresh", "revoke"}, at : Instances \cup {None},
                    ttl : Nat, late : BOOLEAN, pc : {"idle", "sent", "again", "granted"}]
    BY DEF SessionsTypeOK
  <2> QED
    BY <2>1, <2>2, <2>3
<1>2. UNCHANGED <<clockVars, stage, pair, entry, blocked, fate>>
  BY DEF Check, CheckFails, Leave
<1> QED
  BY <1>1, <1>2, OnlyRequests

LEMMA StepBlock ==
  ASSUME SessionsTypeOK, SessionsInv, NEW r \in Requests, Block(r)
  PROVE  SessionsInv'
<1> USE DEF clockVars
<1>1. /\ UNCHANGED <<now, skew, stage, pair, fate>>
      /\ entry'["new"] = entry["new"] /\ entry'["legacy"] = entry["legacy"]
      /\ \/ entry'["black"] = now + req[r].ttl
         \/ entry'["black"] = entry["black"] /\ blocked' = blocked
      /\ blocked => blocked'
  <2>1. UNCHANGED <<now, skew, stage, pair, fate>>
    BY DEF Block
  <2>2. \/ entry' = [entry EXCEPT !["black"] = now + req[r].ttl]
        \/ entry' = entry /\ blocked' = blocked
    BY DEF Block
  <2>3. blocked => blocked'
    BY Zenon DEF Block
  <2>4. entry \in [{"new", "legacy", "black"} -> Nat]
    BY Types
  <2>5. /\ entry'["new"] = entry["new"] /\ entry'["legacy"] = entry["legacy"]
        /\ \/ entry'["black"] = now + req[r].ttl
           \/ entry'["black"] = entry["black"] /\ blocked' = blocked
    <3>1. CASE entry' = [entry EXCEPT !["black"] = now + req[r].ttl]
      BY <2>4, <3>1
    <3> QED
      BY <2>2, <3>1
  <2> QED
    BY <2>1, <2>3, <2>5
<1>2. \A d \in Requests : req'[d].op = "none" \/ req'[d] = req[d]
  BY Types DEF Block, End, Idle
<1>3. req[r].op = "block" /\ pair.pc \in Handed /\ now + req[r].ttl + MaxSkew >= Exp("access")
  BY DEF Block, Answered, SessionsInv, Gone, Blocked
<1>4. KeysKept' /\ TimesKept' /\ StoredLongEnough'
  BY <1>1 DEF SessionsInv, KeysKept, TimesKept, StoredLongEnough, Lasts, KeySet, Exp
<1>5. Gone'
  BY <1>1, <1>2 DEF SessionsInv, Gone
<1>6. Exp("access")' = Exp("access")
  BY <1>1 DEF Exp
<1>7. Blocked'
  <2>1. \A d \in Requests : req'[d].op = "block" => now' + req'[d].ttl + MaxSkew >= Exp("access")'
    BY <1>1, <1>2, <1>6 DEF SessionsInv, Blocked
  <2>2. \A d \in Requests : req'[d].op = "auth" /\ req'[d].late => blocked'
    BY <1>1, <1>2 DEF SessionsInv, Blocked
  <2>3. blocked' => entry'["black"] + MaxSkew >= Exp("access")' \/ now' + MaxSkew >= Exp("access")'
    BY <1>1, <1>3, <1>6 DEF SessionsInv, Blocked
  <2>4. pair'.pc \in Handed
    BY <1>1, <1>3
  <2> QED
    BY <2>1, <2>2, <2>3, <2>4 DEF Blocked, Handed
<1> QED
  BY <1>4, <1>5, <1>7 DEF SessionsInv

LEMMA StepRevoke ==
  ASSUME SessionsTypeOK, SessionsInv, NEW r \in Requests, Revoke(r)
  PROVE  SessionsInv'
<1> USE DEF SessionsTypeOK, clockVars
<1>1. /\ UNCHANGED <<now, skew, stage, pair, blocked>> /\ entry'["black"] = entry["black"]
      /\ \/ fate' # "live" /\ entry'["new"] = 0 /\ entry'["legacy"] = 0
         \/ UNCHANGED <<entry, fate>>
      /\ fate = "revoked" => fate' = "revoked"
  BY DEF Revoke, Erased
<1>2. \A d \in Requests : req'[d].op = "none" \/ req'[d] = req[d]
  BY DEF Revoke, End, Idle
<1>3. pair.pc \in Handed
  BY DEF Revoke, Answered, SessionsInv, Gone
<1>4. KeysKept' /\ TimesKept'
  BY <1>1 DEF SessionsInv, KeysKept, TimesKept, KeySet, Exp
<1>5. StoredLongEnough'
  BY <1>1, <1>3 DEF SessionsInv, StoredLongEnough, Lasts, Handed
<1>6. Gone'
  BY <1>1, <1>2, <1>3 DEF SessionsInv, Gone
<1>7. Blocked'
  BY <1>1, <1>2 DEF SessionsInv, Blocked, Exp
<1> QED
  BY <1>4, <1>5, <1>6, <1>7 DEF SessionsInv

LEMMA StepRotate ==
  ASSUME SessionsTypeOK, SessionsInv, NEW i \in Instances, Rotate(i)
  PROVE  SessionsInv'
<1> USE SessionsNumbers DEF SessionsTypeOK, clockVars
<1>1. /\ UNCHANGED <<now, skew, entry, blocked, fate>>
      /\ pair'.key = pair.key /\ pair'.stage = pair.stage /\ pair'.made = pair.made /\ pair'.nbf = pair.nbf
      /\ pair'.at = pair.at /\ pair'.ttl = pair.ttl
      /\ pair'.pc = IF pair.at = i THEN "failed" ELSE pair.pc
      /\ stage'[i] = stage[i] + 1 /\ \A j \in Instances : j # i => stage'[j] = stage[j]
  BY DEF Rotate
<1>2. \A d \in Requests : req'[d].op = "none" \/ req'[d] = req[d]
  BY DEF Rotate, Idle
<1>3. pair.pc = "none" => pair'.pc = "none"
  BY <1>1, KeyAssumption DEF SessionsInv, TimesKept
<1>4. pair'.pc = pair.pc \/ pair'.pc = "failed"
  BY <1>1
<1>5. \A kind \in Kinds : Exp(kind)' = Exp(kind)
  BY <1>1 DEF Exp
<1>6. \A j \in Instances : KeySet(stage[j])' = KeySet(stage'[j])
  BY DEF KeySet
<1>7. KeysKept'
  <2>1. ASSUME NEW j \in Instances, NEW k \in Instances PROVE stage'[j] <= stage'[k] + 1
    <3>1. stage[j] <= stage[k] + 1 /\ stage[i] <= stage[k] /\ stage[j] \in Nat /\ stage[k] \in Nat
      BY DEF SessionsInv, KeysKept, Rotate
    <3>2. stage'[j] = stage[j] \/ (j = i /\ stage'[j] = stage[i] + 1)
      BY <1>1
    <3>3. stage'[k] = stage[k] \/ stage'[k] = stage[k] + 1
      BY <1>1
    <3> QED
      BY <3>1, <3>2, <3>3
  <2>2. pair.pc # "none" => pair'.stage \in 1..Len(Plan) /\ pair'.key = Plan[pair'.stage].primary
    BY <1>1 DEF SessionsInv, KeysKept
  <2>3. CASE \A kind \in Kinds : now >= Exp(kind)
    BY <1>1, <1>3, <1>5, <2>1, <2>2, <2>3 DEF KeysKept
  <2>4. CASE /\ pair.pc # "none"
             /\ \A j \in Instances : stage[j] >= pair.stage => pair.key \in KeySet(stage[j])
    <3>1. CASE pair.key \in KeySet(stage[i] + 1) \/ stage[i] + 1 < pair.stage
      <4>1. \A j \in Instances : stage'[j] >= pair'.stage => pair'.key \in KeySet(stage'[j])
        <5>1. stage[i] \in Nat
          OBVIOUS
        <5> SUFFICES ASSUME NEW j \in Instances, stage'[j] >= pair.stage
                     PROVE  pair.key \in KeySet(stage'[j])
          BY <1>1
        <5>2. CASE j = i
          <6>1. stage'[j] = stage[i] + 1 /\ pair.stage \in Nat
            BY <1>1, <5>2
          <6> QED
            BY <3>1, <5>1, <6>1
        <5>3. CASE j # i
          BY <1>1, <2>4, <5>3
        <5> QED
          BY <5>2, <5>3
      <4> QED
        BY <1>6, <2>1, <2>2, <2>4, <4>1 DEF KeysKept
    <3>2. CASE pair.key \notin KeySet(stage[i] + 1) /\ stage[i] + 1 >= pair.stage
      <4>1. stage[i] + 1 # pair.stage
        BY <2>4, <3>2, Primary DEF SessionsInv, KeysKept
      <4>2. stage[i] >= pair.stage
        BY <2>4, <3>2, <4>1 DEF SessionsInv, KeysKept
      <4>3. \A kind \in Kinds : now >= Exp(kind)
        BY <2>4, <3>2, <4>2 DEF Rotate
      <4> QED
        BY <2>3, <4>3
    <3> QED
      BY <2>4, <3>1, <3>2 DEF SessionsInv, KeysKept
  <2>5. CASE pair.pc = "none"
    BY <1>3, <2>1, <2>5 DEF KeysKept
  <2> QED
    BY <2>3, <2>4, <2>5 DEF SessionsInv, KeysKept
<1>8. TimesKept'
  BY <1>1, <1>3, <1>4 DEF SessionsInv, TimesKept
<1>9. StoredLongEnough'
  BY <1>1, <1>4 DEF SessionsInv, StoredLongEnough, Lasts
<1>10. pair.pc \in Handed => pair'.pc \in Handed
  BY <1>4 DEF Handed
<1>11. Gone'
  BY <1>1, <1>2, <1>10 DEF SessionsInv, Gone, Handed
<1>12. Blocked'
  BY <1>1, <1>2, <1>5, <1>10 DEF SessionsInv, Blocked, Handed
<1> QED
  BY <1>7, <1>8, <1>9, <1>11, <1>12 DEF SessionsInv

LEMMA SessionsStepPass ==
  ASSUME SessionsTypeOK, SessionsInv, SessionsPass
  PROVE  SessionsInv'
<1> USE SessionsNumbers DEF SessionsTypeOK, clockVars
<1>1. now' = now + 1 /\ UNCHANGED <<skew, stage, pair, req, blocked, fate>>
  BY DEF SessionsPass, Pass
<1>2. \A e \in {"new", "legacy", "black"} :
         /\ entry'[e] = IF entry[e] > now + 1 THEN entry[e] ELSE 0
         /\ entry[e] \in Nat
  BY DEF SessionsPass
<1>3. \A kind \in Kinds : Exp(kind)' = Exp(kind) /\ Exp(kind) \in Nat
  BY <1>1 DEF Exp
<1>4. KeysKept'
  BY <1>1, <1>3 DEF SessionsInv, KeysKept, KeySet
<1>5. TimesKept'
  BY <1>1 DEF SessionsInv, TimesKept
<1>6. \A e \in {"new", "legacy"} : Lasts(e) => Lasts(e)'
  BY <1>1, <1>2 DEF Lasts
<1>7. StoredLongEnough'
  BY <1>1, <1>6 DEF SessionsInv, StoredLongEnough
<1>8. Gone'
  BY <1>1, <1>2 DEF SessionsInv, Gone, Handed
<1>9. Blocked'
  <2>1. \A r \in Requests : req[r].ttl \in Nat
    OBVIOUS
  <2>2. \A r \in Requests : req'[r].op = "block" => now' + req'[r].ttl + MaxSkew >= Exp("access")'
    BY <1>1, <1>3, <2>1 DEF SessionsInv, Blocked
  <2>3. blocked => \/ entry'["black"] + MaxSkew >= Exp("access")
                   \/ now' + MaxSkew >= Exp("access")
    BY <1>1, <1>2, <1>3 DEF SessionsInv, Blocked
  <2> QED
    BY <1>1, <1>3, <2>2, <2>3 DEF SessionsInv, Blocked, Handed
<1> QED
  BY <1>4, <1>5, <1>7, <1>8, <1>9 DEF SessionsInv

LEMMA SessionsInvStep ==
  ASSUME SessionsTypeOK, SessionsInv, [SessionsNext]_sessionVars
  PROVE  SessionsInv'
<1>1. CASE UNCHANGED sessionVars
  BY <1>1 DEF sessionVars, clockVars, SessionsInv, KeysKept, TimesKept, StoredLongEnough, Lasts, Gone,
     Blocked, Handed, KeySet, Exp
<1> QED
  BY <1>1, StepGenerate, StepRotate, StepBegin, StepAnswer, StepBlock, StepRevoke, StepStoreNew,
     StepStoreLegacy, SessionsStepPass DEF SessionsNext

(* The state has its types and SessionsInv holds.                          *)
THEOREM SessionsInvariant == SessionsSpec => [](SessionsTypeOK /\ SessionsInv)
<1>1. SessionsInit => SessionsTypeOK /\ SessionsInv
  BY SessionsTypeInit, SessionsInvInit
<1>2. SessionsTypeOK /\ SessionsInv /\ [SessionsNext]_sessionVars => (SessionsTypeOK /\ SessionsInv)'
  BY SessionsTypeStep, SessionsInvStep DEF SessionsInv
<1> QED
  BY <1>1, <1>2, PTL DEF SessionsSpec

-----------------------------------------------------------------------------
(* A pair that is within its times everywhere is accepted by an instance   *)
(* that has its key.                                                       *)
LEMMA Accepted ==
  ASSUME SessionsTypeOK, SessionsInv, pair.pc = "issued", NEW kind \in Kinds, NEW i \in Instances,
         WellWithin(kind), ~(now >= Exp(kind)) => pair.key \in KeySet(stage[i])
  PROVE  Parses(i, kind)
<1> USE SessionsNumbers DEF SessionsTypeOK, WellWithin
<1>1. pair.made <= pair.nbf /\ pair.nbf <= pair.made + MaxSkew
  BY DEF SessionsInv, TimesKept
<1>2. pair.nbf <= Clock(i) /\ Clock(i) < Exp(kind) /\ now < Exp(kind)
  <2>1. Exp(kind) = pair.nbf + TTL[kind] /\ TTL[kind] \in Nat /\ Exp(kind) \in Nat
    BY SessionsNumbers, Ending DEF Exp
  <2>2. Clock(i) \in Nat /\ now <= Clock(i) /\ Clock(i) <= now + MaxSkew
    BY Reading
  <2>3. pair.made \in Nat /\ pair.nbf \in Nat /\ now \in Nat /\ MaxSkew \in Nat
    OBVIOUS
  <2> HIDE DEF SessionsTypeOK
  <2>4. pair.nbf <= Clock(i)
    BY <1>1, <2>2, <2>3
  <2>5. Clock(i) < Exp(kind)
    BY <1>1, <2>1, <2>2, <2>3
  <2>6. now < Exp(kind)
    BY <1>1, <2>1, <2>3
  <2> QED
    BY <2>4, <2>5, <2>6
<1>3. pair.key \in KeySet(stage[i])
  BY <1>2, Ending
<1>4. Verifies(BuildKeys(Plan[stage[i]]), pair.key)
  BY <1>3 DEF Verifies, KeySet
<1> QED
  BY <1>2, <1>4 DEF Parses

(* Every instance that is as far in the rotation as the one that signed a  *)
(* pair accepts it, between the slowest clock's issue and the fastest's    *)
(* end.                                                                    *)
THEOREM AcceptedAfterRotationHolds == SessionsSpec => []AcceptedAfterRotation
<1>1. ASSUME SessionsTypeOK, SessionsInv, pair.pc = "issued", NEW kind \in Kinds, NEW i \in Instances,
             WellWithin(kind), stage[i] >= pair.stage
      PROVE  Parses(i, kind)
  <2>1. ~(now >= Exp(kind)) => pair.key \in KeySet(stage[i])
    BY <1>1 DEF SessionsInv, KeysKept
  <2> QED
    BY <1>1, <2>1, Accepted
<1>2. SessionsTypeOK /\ SessionsInv => AcceptedAfterRotation
  BY <1>1 DEF AcceptedAfterRotation
<1> QED
  BY <1>2, SessionsInvariant, PTL

-----------------------------------------------------------------------------
(* The careful rotation.                                                   *)

(* Then what one configuration signs with is known to both neighbours.     *)
LEMMA Neighbours ==
  ASSUME KeysOverlap, NEW n \in 1..Len(Plan), NEW k \in 1..Len(Plan), n <= k + 1, k <= n + 1
  PROVE  Plan[n].primary \in KeySet(k)
<1>1. CASE n <= k
  BY <1>1, NextKnows
<1>2. CASE n = k + 1
  <2>1. k \in 1..(Len(Plan) - 1)
    BY <1>2, PlanLength
  <2> QED
    BY <1>2, <2>1 DEF KeysOverlap
<1> QED
  BY <1>1, <1>2, PlanLength

LEMMA SharedInit == SessionsInit => KeysShared
BY DEF SessionsInit, KeysShared

LEMMA SharedStep ==
  ASSUME KeysOverlap, SessionsTypeOK, SessionsInv, KeysShared, [SessionsNext]_sessionVars
  PROVE  KeysShared'
<1> USE DEF SessionsTypeOK, clockVars, sessionVars
<1>1. ASSUME NEW i \in Instances, Generate(i) PROVE KeysShared'
  <2>1. pair'.key = Plan[stage[i]].primary /\ stage' = stage
    BY <1>1, Primary DEF Generate
  <2>2. \A j \in Instances : pair'.key \in KeySet(stage[j])
    BY <2>1, Neighbours DEF SessionsInv, KeysKept
  <2>3. \A j \in Instances : KeySet(stage[j])' = KeySet(stage[j])
    BY <2>1 DEF KeySet
  <2> QED
    BY <2>2, <2>3 DEF KeysShared
<1>2. ASSUME NEW i \in Instances, Rotate(i) PROVE KeysShared'
  <2>1. /\ now' = now /\ pair'.key = pair.key /\ pair'.nbf = pair.nbf
        /\ pair.pc = "none" => pair'.pc = "none"
        /\ stage'[i] = stage[i] + 1 /\ \A j \in Instances : j # i => stage'[j] = stage[j]
    BY <1>2, KeyAssumption DEF Rotate, SessionsInv, TimesKept
  <2>2. \A j \in Instances : KeySet(stage[j])' = KeySet(stage'[j])
    BY DEF KeySet
  <2>3. \A kind \in Kinds : Exp(kind)' = Exp(kind)
    BY <2>1 DEF Exp
  <2>4. CASE pair.pc = "none" \/ \A kind \in Kinds : now >= Exp(kind)
    BY <2>1, <2>3, <2>4 DEF KeysShared
  <2>5. CASE \A j \in Instances : pair.key \in KeySet(stage[j])
    <3>1. pair.key \in KeySet(stage[i] + 1) \/ \A kind \in Kinds : now >= Exp(kind)
      BY <1>2, <2>5 DEF Rotate
    <3>2. CASE pair.key \in KeySet(stage[i] + 1)
      <4>1. \A j \in Instances : pair'.key \in KeySet(stage'[j])
        BY <2>1, <2>5, <3>2
      <4> QED
        BY <2>2, <4>1 DEF KeysShared
    <3> QED
      BY <2>4, <3>1, <3>2
  <2> QED
    BY <2>4, <2>5 DEF KeysShared
<1>3. ASSUME UNCHANGED stage, pair'.key = pair.key, pair'.nbf = pair.nbf, now' \in Nat, now' >= now,
             pair.pc = "none" => pair'.pc = "none"
      PROVE  KeysShared'
  <2>1. \A j \in Instances : KeySet(stage[j])' = KeySet(stage[j])
    BY <1>3 DEF KeySet
  <2>2. \A kind \in Kinds : Exp(kind)' = Exp(kind) /\ Exp(kind) \in Nat
    BY <1>3, Ending DEF Exp
  <2>3. CASE pair.pc = "none" \/ \A j \in Instances : pair.key \in KeySet(stage[j])
    BY <1>3, <2>1, <2>3 DEF KeysShared
  <2>4. CASE \A kind \in Kinds : now >= Exp(kind)
    BY <1>3, <2>2, <2>4 DEF KeysShared
  <2> QED
    BY <2>3, <2>4 DEF KeysShared
<1>4. CASE UNCHANGED sessionVars
  BY <1>3, <1>4
<1>5. CASE SessionsPass
  BY <1>3, <1>5 DEF SessionsPass, Pass
<1>6. CASE StoreNew \/ StoreLegacy
  <2>1. UNCHANGED <<stage, now>> /\ pair'.key = pair.key /\ pair'.nbf = pair.nbf /\ pair.pc # "none"
    BY <1>6 DEF StoreNew, StoreLegacy, StoreError
  <2> QED
    BY <1>3, <2>1
<1>7. ASSUME NEW q \in Requests,
             \/ \E i \in Instances, op \in {"auth", "block", "refresh", "revoke"} : Begin(q, i, op)
             \/ Check(q) \/ CheckFails(q) \/ Block(q) \/ Revoke(q) \/ Leave(q)
      PROVE  KeysShared'
  <2>1. UNCHANGED <<stage, now, pair>>
    BY <1>7 DEF Begin, Check, CheckFails, Block, Revoke, Leave
  <2> QED
    BY <1>3, <2>1
<1> QED
  BY <1>1, <1>2, <1>4, <1>5, <1>6, <1>7 DEF SessionsNext

(* Secrets rotate without downtime if each is given to the instances as a  *)
(* previous one before the first of them signs with it: then every         *)
(* instance accepts a pair, at any time of the rotation.                   *)
THEOREM AcceptedEverywhereHolds ==
  ASSUME KeysOverlap PROVE SessionsSpec => []AcceptedEverywhere
<1>1. SessionsTypeOK /\ SessionsInv /\ KeysShared /\ [SessionsNext]_sessionVars => KeysShared'
  BY SharedStep
<1>2. ASSUME SessionsTypeOK, SessionsInv, KeysShared, pair.pc = "issued",
             NEW kind \in Kinds, NEW i \in Instances, WellWithin(kind)
      PROVE  Parses(i, kind)
  <2>1. ~(now >= Exp(kind)) => pair.key \in KeySet(stage[i])
    BY <1>2 DEF KeysShared
  <2> QED
    BY <1>2, <2>1, Accepted
<1>3. SessionsTypeOK /\ SessionsInv /\ KeysShared => AcceptedEverywhere
  BY <1>2 DEF AcceptedEverywhere
<1> QED
  BY <1>1, <1>3, SharedInit, SessionsInvariant, PTL DEF SessionsSpec

-----------------------------------------------------------------------------
(* A refresh token nobody revoked stays in Redis, under both keys.         *)
THEOREM RefreshUsableHolds == SessionsSpec => []RefreshUsable
<1>1. SessionsTypeOK /\ SessionsInv => RefreshUsable
  BY SessionsNumbers DEF SessionsTypeOK, SessionsInv, StoredLongEnough, Lasts, RefreshUsable, Present
<1> QED
  BY <1>1, SessionsInvariant, PTL

(* A request is granted by the answer to its lookup and nothing else.      *)
LEMMA GrantedByCheck ==
  ASSUME SessionsTypeOK, [SessionsNext]_sessionVars, NEW r \in Requests, NEW op \in {"auth", "refresh"},
         Granted(r, op)
  PROVE  \/ op = "auth" /\ ~Present("black")
         \/ op = "refresh" /\ (Present("new") \/ Present("legacy"))
<1> USE Types DEF sessionVars
<1>1. req' # req
  BY DEF Granted
<1>2. ~ \E d \in Requests : End(d)
  BY DEF Granted, End, Idle
<1>3. ASSUME NEW d \in Requests, NEW i \in Instances, NEW o \in {"auth", "block", "refresh", "revoke"}
      PROVE  ~Begin(d, i, o)
  <2>1. SUFFICES ASSUME Begin(d, i, o) PROVE FALSE
    OBVIOUS
  <2>2. d # r
    BY <2>1 DEF Granted, Begin, Idle
  <2>3. req'[r] = req[r]
    BY <2>1, <2>2 DEF Begin
  <2> QED
    BY <2>3 DEF Granted
<1>4. ASSUME NEW i \in Instances PROVE ~Rotate(i)
  BY DEF Granted, Rotate, Idle
<1>5. \E d \in Requests : Check(d)
  BY <1>1, <1>2, <1>3, <1>4 DEF SessionsNext, Generate, StoreNew, StoreLegacy, SessionsPass, CheckFails,
     Block, Revoke, Leave
<1>6. PICK d \in Requests : Check(d)
  BY <1>5
<1>7. d = r
  <2>1. End(d) \/ Grant(d) \/ req' = [req EXCEPT ![d] = [req[d] EXCEPT !.pc = "again"]]
    BY <1>6 DEF Check, Answered
  <2>2. d # r => req'[r] = req[r]
    BY <2>1 DEF End, Grant
  <2> QED
    BY <2>2 DEF Granted
<1>8. req'[r] # [req[r] EXCEPT !.pc = "again"]
  BY DEF Granted, ReqTyped
<1>9. CASE op = "auth"
  BY <1>2, <1>6, <1>7, <1>9 DEF Granted, Check, Answered
<1>10. CASE op = "refresh"
  BY <1>2, <1>6, <1>7, <1>8, <1>10 DEF Granted, Check, Answered
<1> QED
  BY <1>9, <1>10

(* A token BlacklistAccessToken has blocked admits no later request until  *)
(* it is about to expire.                                                  *)
THEOREM BlockedUntilExpiryHolds == SessionsSpec => BlockedUntilExpiry
<1>1. ASSUME SessionsTypeOK, SessionsInv, [SessionsNext]_sessionVars, NEW r \in Requests,
             Granted(r, "auth"), req[r].late
      PROVE  now + MaxSkew >= Exp("access")
  <2>1. ~Present("black") /\ blocked
    BY <1>1, GrantedByCheck DEF Granted, SessionsInv, Blocked
  <2>2. now \in Nat /\ entry["black"] \in Nat /\ MaxSkew \in Nat /\ Exp("access") \in Nat
    BY <1>1, SessionsNumbers DEF SessionsTypeOK, Exp
  <2> QED
    BY <1>1, <2>1, <2>2 DEF SessionsInv, Blocked, Present
<1>2. SessionsTypeOK /\ SessionsInv /\ [SessionsNext]_sessionVars =>
        [\A r \in Requests : Granted(r, "auth") /\ req[r].late => now + MaxSkew >= Exp("access")]_sessionVars
  BY <1>1
<1> QED
  BY <1>2, SessionsInvariant, PTL DEF BlockedUntilExpiry, SessionsSpec

(* A refresh token RevokeRefreshToken has revoked is never valid again.    *)
THEOREM RevokedForGoodHolds == SessionsSpec => RevokedForGood
<1>1. ASSUME SessionsTypeOK, SessionsInv, [SessionsNext]_sessionVars, NEW r \in Requests,
             Granted(r, "refresh")
      PROVE  ~req[r].late
  <2>1. Present("new") \/ Present("legacy")
    BY <1>1, GrantedByCheck
  <2>2. fate # "revoked"
    BY <1>1, <2>1 DEF SessionsInv, Gone, Present, SessionsTypeOK
  <2> QED
    BY <1>1, <2>2 DEF Granted, SessionsInv, Gone
<1>2. SessionsTypeOK /\ SessionsInv /\ [SessionsNext]_sessionVars =>
        [\A r \in Requests : Granted(r, "refresh") => ~req[r].late]_sessionVars
  BY <1>1
<1> QED
  BY <1>2, SessionsInvariant, PTL DEF RevokedForGood, SessionsSpec
=============================================================================
