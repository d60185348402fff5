----------------------- MODULE VpaRecommender_proofs -----------------------
(***************************************************************************)
(* Proofs about the VPA recommender for every value of its constants: a   *)
(* model VPA links only aggregations that exist and match it, the model   *)
(* stays well typed, and AsList sorts the conditions by type.             *)
(***************************************************************************)
EXTENDS VpaRecommender, FiniteSetTheorems, SequenceTheorems, TLAPS

\* The parts of the type invariant the linking argument needs.
LinkTypes ==
    /\ apiVpas \subseteq VpaIDs /\ apiSel \in [VpaIDs -> Selectors]
    /\ vpas \subseteq VpaIDs /\ sel \in [VpaIDs -> Selectors]
    /\ aggs \in [VpaIDs -> SUBSET Keys]
    /\ aggKeys \subseteq Keys

(***************************************************************************)
(* Every linked aggregation exists and passes matchesAggregation with the  *)
(* VPA's current selector.  This is inductive with the types: every        *)
(* operation that links an aggregation checks it against the VPA's current *)
(* selector, a selector change recreates the VPA, and the GC removes an    *)
(* aggregation from the cluster state and from every VPA together.         *)
(***************************************************************************)
LinkedMatch ==
    \A v \in vpas :
        aggs[v] \subseteq {k \in aggKeys : matchesAggregation(v, sel[v], k)}

AInv == LinkTypes /\ LinkedMatch

\* Linking a set of keys adds only keys of that set that match the VPA.
LEMMA LinkAggregationsMatch ==
    ASSUME NEW used, NEW v, NEW s, NEW ks
    PROVE  LinkAggregations(used, v, s, ks)
               \subseteq used \cup {k \in ks : matchesAggregation(v, s, k)}
BY DEF LinkAggregations, UseAggregationIfMatching, UsesAggregation

LEMMA InitAInv == Init => AInv
<1> SUFFICES ASSUME Init PROVE AInv
  OBVIOUS
<1>1. /\ apiVpas \in SUBSET VpaIDs /\ apiSel \in [VpaIDs -> Selectors]
      /\ vpas = apiVpas /\ sel = apiSel /\ aggs = [v \in VpaIDs |-> {}]
      /\ aggKeys = {}
  BY DEF Init
<1>2. QED
  BY <1>1 DEF AInv, LinkTypes, LinkedMatch

LEMMA LoadVPAsAInv == AInv /\ LoadVPAs => AInv'
<1> SUFFICES ASSUME AInv, LoadVPAs PROVE AInv'
  OBVIOUS
<1> DEFINE kept(v) == v \in vpas /\ sel[v] = apiSel[v]
<1>1. /\ vpas' = apiVpas /\ aggKeys' = aggKeys
      /\ UNCHANGED <<apiVpas, apiSel>>
      /\ sel' = [v \in VpaIDs |-> IF v \in apiVpas THEN apiSel[v]
                                  ELSE NilSelector]
      /\ aggs' = [v \in VpaIDs |->
                    IF kept(v) THEN aggs[v]
                    ELSE IF v \in apiVpas
                         THEN LinkAggregations({}, v, apiSel[v], aggKeys)
                         ELSE {}]
  BY DEF LoadVPAs, apiVars
<1>2. LinkTypes'
  <2>1. \A v \in apiVpas : LinkAggregations({}, v, apiSel[v], aggKeys)
                              \subseteq Keys
    BY LinkAggregationsMatch DEF AInv, LinkTypes
  <2>2. QED
    BY <1>1, <2>1, VpaConstantsAssumption DEF AInv, LinkTypes
<1>3. ASSUME NEW v \in vpas'
      PROVE  aggs'[v] \subseteq
                 {k \in aggKeys' : matchesAggregation(v, sel'[v], k)}
  <2>1. v \in apiVpas /\ v \in VpaIDs /\ sel'[v] = apiSel[v]
    BY <1>1, <1>3 DEF AInv, LinkTypes
  <2>2. CASE kept(v)
    BY <1>1, <2>1, <2>2 DEF AInv, LinkedMatch
  <2>3. CASE ~kept(v)
    <3>1. aggs'[v] = LinkAggregations({}, v, apiSel[v], aggKeys)
      BY <1>1, <2>1, <2>3
    <3>2. QED
      BY <3>1, <2>1, <1>1, LinkAggregationsMatch
  <2>4. QED
    BY <2>2, <2>3
<1>4. QED
  BY <1>2, <1>3 DEF AInv, LinkedMatch

LEMMA LoadPodsAInv == AInv /\ LoadPods => AInv'
<1> SUFFICES ASSUME AInv, LoadPods PROVE AInv'
  OBVIOUS
<1>1. PICK new \in SUBSET (Keys \ aggKeys) :
        /\ aggKeys' = aggKeys \cup new
        /\ aggs' = [v \in VpaIDs |->
                      IF v \in vpas
                      THEN LinkAggregations(aggs[v], v, sel[v], new)
                      ELSE aggs[v]]
  BY DEF LoadPods
<1>2. UNCHANGED <<apiVpas, apiSel, vpas, sel>>
  BY DEF LoadPods, apiVars
<1>3. LinkTypes'
  <2>1. \A v \in vpas : LinkAggregations(aggs[v], v, sel[v], new)
                           \subseteq Keys
    <3> TAKE v \in vpas
    <3>1. aggs[v] \subseteq Keys
      BY DEF AInv, LinkTypes
    <3>2. QED
      BY <3>1, LinkAggregationsMatch
  <2>2. QED
    BY <1>1, <1>2, <2>1 DEF AInv, LinkTypes
<1>4. ASSUME NEW v \in vpas'
      PROVE  aggs'[v] \subseteq
                 {k \in aggKeys' : matchesAggregation(v, sel'[v], k)}
  <2>1. v \in vpas /\ v \in VpaIDs /\ sel'[v] = sel[v]
    BY <1>2, <1>4 DEF AInv, LinkTypes
  <2>2. aggs'[v] = LinkAggregations(aggs[v], v, sel[v], new)
    BY <1>1, <2>1
  <2>3. aggs[v] \subseteq {k \in aggKeys : matchesAggregation(v, sel[v], k)}
    BY <2>1 DEF AInv, LinkedMatch
  <2>4. QED
    BY <1>1, <2>1, <2>2, <2>3, LinkAggregationsMatch
<1>5. QED
  BY <1>3, <1>4 DEF AInv, LinkedMatch

LEMMA GarbageCollectAInv == AInv /\ GarbageCollect => AInv'
<1> SUFFICES ASSUME AInv, GarbageCollect PROVE AInv'
  OBVIOUS
<1>1. UNCHANGED <<apiVpas, apiSel, vpas, sel>>
  BY DEF GarbageCollect, apiVars
<1>2. CASE now - lastGC > GCInterval
  <2>1. PICK expired \in SUBSET aggKeys :
          /\ aggKeys' = aggKeys \ expired
          /\ aggs' = [v \in VpaIDs |-> DeleteAggregations(aggs[v], expired)]
    BY <1>2 DEF GarbageCollect
  <2>2. QED
    BY <1>1, <2>1
       DEF AInv, LinkTypes, LinkedMatch, DeleteAggregations
<1>3. CASE ~(now - lastGC > GCInterval)
  <2>1. UNCHANGED <<aggKeys, aggs>>
    BY <1>3 DEF GarbageCollect
  <2>2. QED
    BY <1>1, <2>1 DEF AInv, LinkTypes, LinkedMatch
<1>4. QED
  BY <1>2, <1>3

\* The other steps leave the model VPAs and the aggregations alone.
LEMMA OtherStepsAInv ==
    AInv /\ (\/ UpdateVPAs \/ MaintainCheckpoints \/ Tick
             \/ \E v \in VpaIDs, s \in Selectors :
                   CreateVpa(v, s) \/ ChangeSelector(v, s)
             \/ \E v \in VpaIDs : DeleteVpa(v)
             \/ UNCHANGED vars)
    => AInv'
<1> SUFFICES ASSUME AInv,
                    \/ UpdateVPAs \/ MaintainCheckpoints \/ Tick
                    \/ \E v \in VpaIDs, s \in Selectors :
                          CreateVpa(v, s) \/ ChangeSelector(v, s)
                    \/ \E v \in VpaIDs : DeleteVpa(v)
                    \/ UNCHANGED vars
             PROVE  AInv'
  OBVIOUS
<1>1. UNCHANGED <<vpas, sel, aggs, aggKeys>>
  BY DEF UpdateVPAs, MaintainCheckpoints, Tick, CreateVpa, ChangeSelector,
         DeleteVpa, vars, vpaVars
<1>2. apiVpas' \subseteq VpaIDs /\ apiSel' \in [VpaIDs -> Selectors]
  BY DEF AInv, LinkTypes, UpdateVPAs, MaintainCheckpoints, Tick, CreateVpa,
         ChangeSelector, DeleteVpa, vars, apiVars
<1>3. QED
  BY <1>1, <1>2 DEF AInv, LinkTypes, LinkedMatch

LEMMA NextAInv == AInv /\ [Next]_vars => AInv'
BY LoadVPAsAInv, LoadPodsAInv, GarbageCollectAInv, OtherStepsAInv DEF Next

\* Every aggregation a VPA of the model uses exists in the cluster state and
\* matches the VPA's namespace and its current, non-nil selector.
THEOREM AggregationsMatch == Spec => []UsedAggregationsMatch
<1>1. AInv => UsedAggregationsMatch
  BY DEF AInv, LinkedMatch, UsedAggregationsMatch, matchesAggregation
<1>2. QED
  BY InitAInv, NextAInv, <1>1, PTL DEF Spec

-----------------------------------------------------------------------------

(***************************************************************************)
(* AsList puts the condition of type t at position pos(t), one more than  *)
(* the number of types below t.  Since TypeRank is injective, pos is a    *)
(* bijection from the types onto 1..n, so every position holds a          *)
(* condition of the map and the list is a sequence of conditions.         *)
(***************************************************************************)

\* The types of D whose rank is below that of t.
Below(D, t) == {u \in D : TypeRank[u] < TypeRank[t]}

\* Fewer types than D holds, less t itself, are below t.
LEMMA BelowBound ==
    ASSUME NEW D \in SUBSET CondTypes, IsFiniteSet(D), NEW t \in D
    PROVE  /\ IsFiniteSet(Below(D, t))
           /\ Cardinality(Below(D, t)) \in 0..(Cardinality(D) - 1)
<1>1. Below(D, t) \subseteq D \ {t}
  BY VpaConstantsAssumption DEF Below
<1>2. IsFiniteSet(D \ {t}) /\ Cardinality(D \ {t}) = Cardinality(D) - 1
  BY FS_RemoveElement
<1>3. IsFiniteSet(Below(D, t))
      /\ Cardinality(Below(D, t)) <= Cardinality(D \ {t})
  BY <1>1, <1>2, FS_Subset
<1>4. Cardinality(Below(D, t)) \in Nat
  BY <1>3, FS_CardinalityType
<1>5. QED
  BY <1>2, <1>3, <1>4

\* A type of higher rank has more types below it.
LEMMA BelowStrict ==
    ASSUME NEW D \in SUBSET CondTypes, IsFiniteSet(D), NEW s \in D,
           NEW t \in D, TypeRank[s] < TypeRank[t]
    PROVE  Cardinality(Below(D, s)) < Cardinality(Below(D, t))
<1>1. Below(D, s) \cup {s} \subseteq Below(D, t)
  BY VpaConstantsAssumption DEF Below
<1>2. s \notin Below(D, s)
  BY VpaConstantsAssumption DEF Below
<1>3. IsFiniteSet(Below(D, s)) /\ IsFiniteSet(Below(D, t))
      /\ Cardinality(Below(D, s)) \in Nat
      /\ Cardinality(Below(D, t)) \in Nat
  BY BelowBound
<1>4. Cardinality(Below(D, s) \cup {s}) = Cardinality(Below(D, s)) + 1
  BY <1>2, <1>3, FS_AddElement
<1>5. Cardinality(Below(D, s) \cup {s}) <= Cardinality(Below(D, t))
  BY <1>1, <1>3, FS_Subset
<1>6. QED
  BY <1>3, <1>4, <1>5

\* Every position 1..n is pos(t) of some type t.
LEMMA PosOnto ==
    ASSUME NEW D \in SUBSET CondTypes, IsFiniteSet(D)
    PROVE  \A i \in 1..Cardinality(D) :
               \E t \in D : Cardinality(Below(D, t)) + 1 = i
<1> DEFINE f == [t \in D |-> Cardinality(Below(D, t)) + 1]
           n == Cardinality(D)
<1>0. n \in Nat
  BY FS_CardinalityType
<1>1. f \in [D -> 1..n]
  BY <1>0, BelowBound
<1>2. ASSUME NEW s \in D, NEW t \in D, f[s] = f[t] PROVE s = t
  <2>1. TypeRank[s] \in Nat /\ TypeRank[t] \in Nat
    BY VpaConstantsAssumption
  <2>2. Cardinality(Below(D, s)) = Cardinality(Below(D, t))
    BY <1>2, BelowBound
  <2>3. ~(TypeRank[s] < TypeRank[t])
    <3> SUFFICES ASSUME TypeRank[s] < TypeRank[t] PROVE FALSE
      OBVIOUS
    <3>1. Cardinality(Below(D, s)) < Cardinality(Below(D, t))
      BY BelowStrict
    <3>2. QED
      BY <2>2, <3>1, BelowBound
  <2>6. ~(TypeRank[t] < TypeRank[s])
    <3> SUFFICES ASSUME TypeRank[t] < TypeRank[s] PROVE FALSE
      OBVIOUS
    <3>1. Cardinality(Below(D, t)) < Cardinality(Below(D, s))
      BY BelowStrict
    <3>2. QED
      BY <2>2, <3>1, BelowBound
  <2>4. TypeRank[s] = TypeRank[t]
    BY <2>1, <2>3, <2>6
  <2>5. QED
    BY <2>4, VpaConstantsAssumption
<1>3. f \in Injection(D, 1..n)
  BY <1>1, <1>2, Zenon DEF Injection, IsInjective
<1>4. IsFiniteSet(1..n) /\ Cardinality(1..n) = n
  BY <1>0, FS_Interval
<1>5. Cardinality(D) = Cardinality(1..n)
  BY <1>4
<1>6. f \in Surjection(D, 1..n)
  BY <1>3, <1>4, <1>5, FS_Injection
<1>7. QED
  BY <1>6 DEF Surjection

\* The list of a finite map of conditions is a sequence of conditions.
LEMMA AsListType ==
    ASSUME NEW m, DOMAIN m \subseteq CondTypes, IsFiniteSet(DOMAIN m),
           \A t \in DOMAIN m : m[t] \in Cond
    PROVE  AsList(m) \in Seq(Cond)
<1> DEFINE D == DOMAIN m
           n == Cardinality(D)
           at(i) == CHOOSE t \in D : Cardinality(Below(D, t)) + 1 = i
<1>1. n \in Nat
  BY FS_CardinalityType
<1>2. \A i \in 1..n : at(i) \in D
  BY PosOnto
<1>3. AsList(m) = [i \in 1..n |-> m[at(i)]]
  BY DEF AsList, Below
<1>4. [i \in 1..n |-> m[at(i)]] \in [1..n -> Cond]
  BY <1>2
<1>5. [1..n -> Cond] \subseteq Seq(Cond)
  BY <1>1, SeqDef
<1>6. QED
  BY <1>3, <1>4, <1>5
\* The position of every type of a finite map is that type's pos, and the
\* type at a position is the one whose pos it is.
LEMMA PosInverse ==
    ASSUME NEW D \in SUBSET CondTypes, IsFiniteSet(D)
    PROVE  LET at(i) == CHOOSE t \in D : Cardinality(Below(D, t)) + 1 = i
           IN  /\ \A i \in 1..Cardinality(D) :
                     /\ at(i) \in D
                     /\ Cardinality(Below(D, at(i))) + 1 = i
               /\ \A t \in D : at(Cardinality(Below(D, t)) + 1) = t
<1> DEFINE at(i) == CHOOSE t \in D : Cardinality(Below(D, t)) + 1 = i
           pos(t) == Cardinality(Below(D, t)) + 1
<1>1. \A i \in 1..Cardinality(D) : at(i) \in D /\ pos(at(i)) = i
  BY PosOnto
<1>2. ASSUME NEW s \in D, NEW t \in D, pos(s) = pos(t) PROVE s = t
  <2>1. TypeRank[s] \in Nat /\ TypeRank[t] \in Nat
    BY VpaConstantsAssumption
  <2>2. Cardinality(Below(D, s)) \in Nat /\ Cardinality(Below(D, t)) \in Nat
    BY BelowBound
  <2>3. ~(TypeRank[s] < TypeRank[t])
    BY <1>2, <2>2, BelowStrict
  <2>4. ~(TypeRank[t] < TypeRank[s])
    BY <1>2, <2>2, BelowStrict
  <2>5. QED
    BY <2>1, <2>3, <2>4, VpaConstantsAssumption
<1>3. \A t \in D : pos(t) \in 1..Cardinality(D)
  BY BelowBound, FS_CardinalityType
<1>4. \A t \in D : at(pos(t)) = t
  BY <1>1, <1>2, <1>3
<1>5. QED
  BY <1>1, <1>4

\* vpaConditionsMap.AsList (vpa.go:55-67) lists every condition of the map
\* exactly once, sorted by type, so that no condition floats in the list.
THEOREM AsListSorted ==
    ASSUME NEW m, DOMAIN m \subseteq CondTypes, IsFiniteSet(DOMAIN m),
           \A t \in DOMAIN m : m[t] \in Cond /\ m[t].type = t
    PROVE  /\ Len(AsList(m)) = Cardinality(DOMAIN m)
           /\ \A t \in DOMAIN m :
                 AsList(m)[Cardinality(Below(DOMAIN m, t)) + 1] = m[t]
           /\ \A i, j \in 1..Len(AsList(m)) :
                 i < j => TypeRank[AsList(m)[i].type]
                              < TypeRank[AsList(m)[j].type]
<1> DEFINE D == DOMAIN m
           n == Cardinality(D)
           at(i) == CHOOSE t \in D : Cardinality(Below(D, t)) + 1 = i
           pos(t) == Cardinality(Below(D, t)) + 1
<1>1. n \in Nat
  BY FS_CardinalityType
<1>2. AsList(m) = [i \in 1..n |-> m[at(i)]]
  BY DEF AsList, Below
<1>3. /\ \A i \in 1..n : at(i) \in D /\ pos(at(i)) = i
      /\ \A t \in D : at(pos(t)) = t
  BY PosInverse
<1>4. Len(AsList(m)) = n
  BY <1>1, <1>2
<1>5. \A t \in D : AsList(m)[pos(t)] = m[t]
  <2> TAKE t \in D
  <2>1. pos(t) \in 1..n
    BY <1>1, BelowBound
  <2>2. QED
    BY <1>2, <1>3, <2>1
<1>6. ASSUME NEW i \in 1..n, NEW j \in 1..n, i < j
      PROVE  TypeRank[AsList(m)[i].type] < TypeRank[AsList(m)[j].type]
  <2>1. AsList(m)[i].type = at(i) /\ AsList(m)[j].type = at(j)
    BY <1>2, <1>3
  <2>2. at(i) \in D /\ at(j) \in D /\ pos(at(i)) = i /\ pos(at(j)) = j
    BY <1>3
  <2>3. TypeRank[at(i)] \in Nat /\ TypeRank[at(j)] \in Nat
    BY <2>2, VpaConstantsAssumption
  <2>4. ~(TypeRank[at(j)] < TypeRank[at(i)])
    <3> SUFFICES ASSUME TypeRank[at(j)] < TypeRank[at(i)] PROVE FALSE
      OBVIOUS
    <3>1. Cardinality(Below(D, at(j))) < Cardinality(Below(D, at(i)))
      BY <2>2, BelowStrict
    <3>2. Cardinality(Below(D, at(i))) \in Nat
          /\ Cardinality(Below(D, at(j))) \in Nat
      BY <2>2, BelowBound
    <3>3. QED
      BY <1>6, <2>2, <3>1, <3>2
  <2>5. TypeRank[at(j)] # TypeRank[at(i)]
    BY <1>6, <2>2, VpaConstantsAssumption
  <2>6. QED
    BY <2>1, <2>3, <2>4, <2>5
<1>7. QED
  BY <1>4, <1>5, <1>6

-----------------------------------------------------------------------------
(***************************************************************************)
(* Type correctness.  TypeOK is inductive once it also says that every    *)
(* VPA's condition map is finite: AsList counts its types, and only a     *)
(* finite map gives a list of conditions at every position.               *)
(***************************************************************************)

\* A finite map from condition types to conditions.
CondMapOK(m) ==
    /\ DOMAIN m \subseteq CondTypes
    /\ IsFiniteSet(DOMAIN m)
    /\ \A t \in DOMAIN m : m[t] \in Cond

TInv == TypeOK /\ \A v \in VpaIDs : IsFiniteSet(DOMAIN conds[v])

LEMMA TInvConds == TInv => \A v \in VpaIDs : CondMapOK(conds[v])
BY DEF TInv, TypeOK, CondMapOK

\* vpaConditionsMap.Set, at a time of the behaviour, keeps a map finite
\* and well typed.
LEMMA SetType ==
    ASSUME NEW m, CondMapOK(m), NEW type \in CondTypes,
           NEW status \in BOOLEAN, now \in Times
    PROVE  CondMapOK(Set(m, type, status))
<1>1. DOMAIN Set(m, type, status) = DOMAIN m \cup {type}
  BY DEF Set
<1>2. IsFiniteSet(DOMAIN m \cup {type})
  BY FS_AddElement DEF CondMapOK
<1>3. \A t \in DOMAIN m \cup {type} : Set(m, type, status)[t] \in Cond
  BY DEF Set, Cond, CondMapOK
<1>4. QED
  BY <1>1, <1>2, <1>3 DEF CondMapOK

LEMMA EmptyConditionsType == CondMapOK(EmptyConditions)
BY FS_EmptySet DEF EmptyConditions, CondMapOK

LEMMA NoStatusType == NoStatus \in Status
BY EmptySeq DEF NoStatus, Status, Recommendation

\* The status UpdateVPAs writes is a status.
LEMMA NewStatusType ==
    ASSUME NEW r \in Recommendation, NEW m, CondMapOK(m)
    PROVE  NewStatus(r, m) \in Status
BY AsListType DEF NewStatus, Status, CondMapOK

LEMMA InitTInv == Init => TInv
<1> SUFFICES ASSUME Init PROVE TInv
  OBVIOUS
<1>1. \A v \in VpaIDs : conds[v] = EmptyConditions
  BY DEF Init
<1>2. \A v \in VpaIDs : CondMapOK(conds[v])
  BY <1>1, EmptyConditionsType
<1>3. apiStatus \in [VpaIDs -> Status] /\ obsStatus = apiStatus
  BY NoStatusType DEF Init
<1>4. /\ now = 0 /\ lastGC = 0 /\ lastCpGC = 0
      /\ apiVpas \subseteq VpaIDs /\ apiSel \in [VpaIDs -> Selectors]
      /\ observed = apiVpas /\ vpas = apiVpas /\ sel = apiSel
      /\ aggs = [v \in VpaIDs |-> {}]
      /\ initAgg \in [VpaIDs -> SUBSET Containers]
      /\ rec = [v \in VpaIDs |-> Nil] /\ aggKeys = {} /\ pc = "LoadVPAs"
  BY DEF Init
<1>5. QED
  BY <1>2, <1>3, <1>4, VpaConstantsAssumption
     DEF TInv, TypeOK, CondMapOK, Times, Recommendation, Phases

LEMMA LoadVPAsTInv == TInv /\ LoadVPAs => TInv'
<1> SUFFICES ASSUME TInv, LoadVPAs PROVE TInv'
  OBVIOUS
<1> DEFINE kept(v) == v \in vpas /\ sel[v] = apiSel[v]
<1>1. /\ observed' = apiVpas /\ obsStatus' = apiStatus /\ vpas' = apiVpas
      /\ sel' = [v \in VpaIDs |-> IF v \in apiVpas THEN apiSel[v]
                                  ELSE NilSelector]
      /\ aggs' = [v \in VpaIDs |->
                    IF kept(v) THEN aggs[v]
                    ELSE IF v \in apiVpas
                         THEN LinkAggregations({}, v, apiSel[v], aggKeys)
                         ELSE {}]
      /\ initAgg' = [v \in VpaIDs |-> IF kept(v) THEN initAgg[v] ELSE {}]
      /\ rec' = [v \in VpaIDs |-> IF kept(v) THEN rec[v] ELSE Nil]
      /\ conds' = [v \in VpaIDs |->
                     IF kept(v) THEN conds[v] ELSE EmptyConditions]
      /\ UNCHANGED <<now, apiVpas, apiSel, apiStatus, aggKeys, lastGC,
                     lastCpGC>>
      /\ pc' = "LoadPods"
  BY DEF LoadVPAs, apiVars
<1>2. \A v \in VpaIDs : LinkAggregations({}, v, apiSel[v], aggKeys)
                           \subseteq Keys
  BY LinkAggregationsMatch DEF TInv, TypeOK
<1>3. \A v \in VpaIDs : CondMapOK(conds'[v])
  BY <1>1, TInvConds, EmptyConditionsType
<1>4. QED
  BY <1>1, <1>2, <1>3, VpaConstantsAssumption
     DEF TInv, TypeOK, CondMapOK, Recommendation, Phases

LEMMA LoadPodsTInv == TInv /\ LoadPods => TInv'
<1> SUFFICES ASSUME TInv, LoadPods PROVE TInv'
  OBVIOUS
<1>1. PICK new \in SUBSET (Keys \ aggKeys) :
        /\ aggKeys' = aggKeys \cup new
        /\ aggs' = [v \in VpaIDs |->
                      IF v \in vpas
                      THEN LinkAggregations(aggs[v], v, sel[v], new)
                      ELSE aggs[v]]
  BY DEF LoadPods
<1>2. /\ UNCHANGED <<now, apiVpas, apiSel, apiStatus, observed, obsStatus,
                     vpas, sel, initAgg, rec, conds, lastGC, lastCpGC>>
      /\ pc' = "UpdateVPAs"
  BY DEF LoadPods, apiVars
<1>3. \A v \in VpaIDs : LinkAggregations(aggs[v], v, sel[v], new)
                           \subseteq Keys
  BY LinkAggregationsMatch DEF TInv, TypeOK
<1>4. QED
  BY <1>1, <1>2, <1>3 DEF TInv, TypeOK, Phases

LEMMA UpdateVPAsTInv == TInv /\ UpdateVPAs => TInv'
<1> SUFFICES ASSUME TInv, UpdateVPAs PROVE TInv'
  OBVIOUS
<1> DEFINE upd == observed \cap vpas
           r == [v \in VpaIDs |->
                   IF v \in upd THEN AggregateStateByContainerName(v)
                   ELSE rec[v]]
           c == [v \in VpaIDs |->
                   IF v \in upd /\ r[v] # {}
                   THEN Set(conds[v], RecommendationProvided, TRUE)
                   ELSE conds[v]]
<1>1. /\ rec' = r /\ conds' = c
      /\ \E failed \in SUBSET upd :
            apiStatus' = [v \in VpaIDs |->
                IF /\ v \in upd \ failed
                   /\ v \in apiVpas
                   /\ NewStatus(r[v], c[v]) # obsStatus[v]
                THEN NewStatus(r[v], c[v])
                ELSE apiStatus[v]]
      /\ pc' = "MaintainCheckpoints"
      /\ UNCHANGED <<now, apiVpas, apiSel, observed, obsStatus, vpas, sel,
                     aggs, initAgg, aggKeys, lastGC, lastCpGC>>
  BY DEF UpdateVPAs
<1>2. \A v \in VpaIDs : r[v] \in Recommendation
  BY VpaConstantsAssumption
     DEF TInv, TypeOK, AggregateStateByContainerName, Recommendation
<1>3. \A v \in VpaIDs : CondMapOK(c[v])
  <2> TAKE v \in VpaIDs
  <2>1. CondMapOK(conds[v]) /\ now \in Times
    BY TInvConds DEF TInv, TypeOK
  <2>2. CondMapOK(Set(conds[v], RecommendationProvided, TRUE))
    BY <2>1, SetType, VpaConstantsAssumption
  <2>3. QED
    BY <2>1, <2>2
<1>4. \A v \in VpaIDs : NewStatus(r[v], c[v]) \in Status
  BY <1>2, <1>3, NewStatusType
<1>5. apiStatus' \in [VpaIDs -> Status]
  BY <1>1, <1>4 DEF TInv, TypeOK
<1>6. QED
  BY <1>1, <1>2, <1>3, <1>5 DEF TInv, TypeOK, CondMapOK, Phases

LEMMA MaintainCheckpointsTInv == TInv /\ MaintainCheckpoints => TInv'
<1> SUFFICES ASSUME TInv, MaintainCheckpoints PROVE TInv'
  OBVIOUS
<1>1. /\ lastCpGC' \in {now, lastCpGC} /\ pc' = "GarbageCollect"
      /\ UNCHANGED <<now, apiVpas, apiSel, apiStatus, observed, obsStatus,
                     vpas, sel, aggs, initAgg, rec, conds, aggKeys, lastGC>>
  BY DEF MaintainCheckpoints, apiVars, vpaVars
<1>2. QED
  BY <1>1 DEF TInv, TypeOK, Phases

LEMMA GarbageCollectTInv == TInv /\ GarbageCollect => TInv'
<1> SUFFICES ASSUME TInv, GarbageCollect PROVE TInv'
  OBVIOUS
<1>1. /\ pc' = "LoadVPAs"
      /\ UNCHANGED <<now, apiVpas, apiSel, apiStatus, observed, obsStatus,
                     vpas, sel, initAgg, rec, conds, lastCpGC>>
  BY DEF GarbageCollect, apiVars
<1>2. /\ aggKeys' \subseteq aggKeys /\ lastGC' \in {now, lastGC}
      /\ aggs' \in [VpaIDs -> SUBSET Keys] \/ UNCHANGED aggs
  BY DEF GarbageCollect, DeleteAggregations, TInv, TypeOK
<1>3. QED
  BY <1>1, <1>2 DEF TInv, TypeOK, Phases

\* The users' steps at the API server and the clock.
LEMMA EnvironmentTInv ==
    TInv /\ (\/ \E v \in VpaIDs, s \in Selectors :
                   CreateVpa(v, s) \/ ChangeSelector(v, s)
             \/ \E v \in VpaIDs : DeleteVpa(v)
             \/ Tick)
    => TInv'
<1> SUFFICES ASSUME TInv,
                    \/ \E v \in VpaIDs, s \in Selectors :
                          CreateVpa(v, s) \/ ChangeSelector(v, s)
                    \/ \E v \in VpaIDs : DeleteVpa(v)
                    \/ Tick
             PROVE  TInv'
  OBVIOUS
<1>1. UNCHANGED <<observed, obsStatus, vpas, sel, aggs, initAgg, rec, conds,
                  aggKeys, lastGC, lastCpGC, pc>>
  BY DEF CreateVpa, ChangeSelector, DeleteVpa, Tick, vpaVars, apiVars
<1> DEFINE ApiOK == /\ apiVpas \subseteq VpaIDs
                    /\ apiSel \in [VpaIDs -> Selectors]
                    /\ apiStatus \in [VpaIDs -> Status] /\ now \in Times
<1>0. ApiOK /\ NoStatus \in Status
  BY NoStatusType DEF TInv, TypeOK
<1>2. ApiOK'
  <2>1. CASE \E v \in VpaIDs, s \in Selectors : CreateVpa(v, s)
    BY <1>0, <2>1 DEF CreateVpa
  <2>2. CASE \E v \in VpaIDs, s \in Selectors : ChangeSelector(v, s)
    BY <1>0, <2>2 DEF ChangeSelector
  <2>3. CASE \E v \in VpaIDs : DeleteVpa(v)
    BY <1>0, <2>3 DEF DeleteVpa
  <2>4. CASE Tick
    BY <1>0, <2>4, VpaConstantsAssumption DEF Tick, apiVars, Times
  <2>5. QED
    BY <2>1, <2>2, <2>3, <2>4
<1>3. QED
  BY <1>1, <1>2 DEF TInv, TypeOK

LEMMA NextTInv == TInv /\ [Next]_vars => TInv'
<1> SUFFICES ASSUME TInv, [Next]_vars PROVE TInv'
  OBVIOUS
<1>1. CASE UNCHANGED vars
  BY <1>1 DEF vars, TInv, TypeOK
<1>2. QED
  BY <1>1, LoadVPAsTInv, LoadPodsTInv, UpdateVPAsTInv,
     MaintainCheckpointsTInv, GarbageCollectTInv, EnvironmentTInv DEF Next

\* Every reachable state of the recommender is well typed; in particular
\* every status UpdateVPAs writes carries a list of conditions
\* (vpaConditionsMap.AsList) and a recommendation of known containers.
THEOREM RecommenderTypeCorrect == Spec => []TypeOK
<1>1. TInv => TypeOK
  BY DEF TInv
<1>2. QED
  BY InitTInv, NextTInv, <1>1, PTL DEF Spec

=============================================================================
