--------------------------- MODULE VpaRecommender ---------------------------
(***************************************************************************)
(* The VPA recommender's main loop (recommender/routines/recommender.go)   *)
(* and the per-VPA model object it updates (recommender/model/vpa.go).     *)
(*                                                                         *)
(* RunOnce is a sequence of phases (pc): LoadVPAs, LoadPods (with          *)
(* LoadRealTimeMetrics), UpdateVPAs, MaintainCheckpoints and               *)
(* GarbageCollect.  Users create, delete and re-select VPA objects at the  *)
(* API server between any two phases, and the clock advances.             *)
(*                                                                         *)
(* ClusterState and ClusterStateFeeder are not part of this repository;   *)
(* they are modelled at the interface where they call the vpa.go methods: *)
(* LoadVPAs records the listed objects as ObservedVpas and creates a model *)
(* VPA with NewVpa, linking every known aggregation through               *)
(* UseAggregationIfMatching, when a VPA is new or its selector changed;   *)
(* LoadPods adds aggregations and links them the same way; the            *)
(* aggregation GC removes expired aggregations from the cluster state and *)
(* from every VPA (DeleteAggregation).  Which aggregations have expired   *)
(* depends on sample times, which are not modelled: any subset may.       *)
(*                                                                         *)
(* A recommendation is abstracted to the set of containers it covers:     *)
(* GetRecommendedPodResources gives one per container name of             *)
(* AggregateStateByContainerName, and ApplyVPAPolicy (and its error path, *)
(* which returns the uncapped recommendation) keeps the containers and    *)
(* changes only the amounts.                                               *)
(***************************************************************************)
EXTENDS Naturals, FiniteSets, Sequences

CONSTANTS
    VpaIDs,          \* VPA objects (namespace and name)
    Keys,            \* aggregation keys (namespace, pod labels, container)
    Containers,      \* container names
    ContainerOf,     \* the container name of an aggregation key
    KeyNs,           \* the namespace of an aggregation key
    VpaNs,           \* the namespace of a VPA
    Namespaces,
    Selectors,       \* label selectors a VPA may have
    NilSelector,     \* the nil selector: matches no pod
    SelMatches,      \* the aggregation keys whose labels a selector matches
    CondTypes,       \* VPA condition types
    TypeRank,        \* the string order of the condition types
    RecommendationProvided,
    MaxTime,         \* the last instant of a behaviour
    GCInterval,      \* AggregateContainerStateGCInterval
    CheckpointsGCInterval,
    UseCheckpoints,
    Nil

ASSUME VpaConstantsAssumption ==
    /\ ContainerOf \in [Keys -> Containers]
    /\ KeyNs \in [Keys -> Namespaces]
    /\ VpaNs \in [VpaIDs -> Namespaces]
    /\ NilSelector \in Selectors
    /\ SelMatches \in [Selectors -> SUBSET Keys]
    /\ RecommendationProvided \in CondTypes
    /\ TypeRank \in [CondTypes -> Nat]
    /\ \A s, t \in CondTypes : TypeRank[s] = TypeRank[t] => s = t
    /\ {MaxTime, GCInterval, CheckpointsGCInterval} \subseteq Nat
    /\ UseCheckpoints \in BOOLEAN

VARIABLES
    now,         \* the clock
    apiVpas,     \* VPA objects at the API server
    apiSel,      \* their selectors
    apiStatus,   \* their status: the recommendation and the conditions list
    observed,    \* clusterState.ObservedVpas: the objects LoadVPAs listed
    obsStatus,   \* the status of each as listed
    vpas,        \* clusterState.Vpas: the VPAs of the model
    sel,         \* vpa.PodSelector
    aggs,        \* vpa.aggregateContainerStates: the keys used
    initAgg,     \* vpa.ContainersInitialAggregateState: checkpointed containers
    rec,         \* vpa.Recommendation: containers covered, or Nil
    conds,       \* vpa.Conditions: condition type -> condition
    aggKeys,     \* the aggregations of the cluster state
    lastGC,      \* lastAggregateContainerStateGC
    lastCpGC,    \* lastCheckpointGC
    pc           \* the phase of RunOnce that runs next

vars == <<now, apiVpas, apiSel, apiStatus, observed, obsStatus, vpas, sel,
          aggs, initAgg, rec, conds, aggKeys, lastGC, lastCpGC, pc>>
apiVars == <<apiVpas, apiSel, apiStatus>>
vpaVars == <<vpas, sel, aggs, initAgg, rec, conds>>

Times == 0..MaxTime
Phases == {"LoadVPAs", "LoadPods", "UpdateVPAs", "MaintainCheckpoints",
           "GarbageCollect"}
Cond == [type : CondTypes, status : BOOLEAN, ltt : Times]
Recommendation == {Nil} \cup SUBSET Containers
Status == [rec : Recommendation, conds : Seq(Cond)]
NoStatus == [rec |-> Nil, conds |-> <<>>]
EmptyConditions == [t \in {} |-> Nil]

-----------------------------------------------------------------------------
(* vpa.go *)

\* Mutant: the condition is built without its Type.
SetWithoutType(m, type, status) ==
    LET ltt == IF type \in DOMAIN m /\ m[type].status = status
               THEN m[type].ltt ELSE now
    IN [t \in DOMAIN m \cup {type} |->
           IF t = type THEN [status |-> status, ltt |-> ltt] ELSE m[t]]

\* vpaConditionsMap.Set: the transition time is kept when the condition is
\* present with the same status, and is now otherwise.
Set(m, type, status) ==
    LET ltt == IF type \in DOMAIN m /\ m[type].status = status
               THEN m[type].ltt ELSE now
    IN [t \in DOMAIN m \cup {type} |->
           IF t = type THEN [type |-> type, status |-> status, ltt |-> ltt]
           ELSE m[t]]

\* vpaConditionsMap.AsList: the conditions sorted by type.
AsList(m) ==
    LET pos(t) == Cardinality({u \in DOMAIN m : TypeRank[u] < TypeRank[t]}) + 1
    IN [i \in 1..Cardinality(DOMAIN m) |-> m[CHOOSE t \in DOMAIN m : pos(t) = i]]

\* Mutant: the namespaces are not compared.
matchesAggregationAnyNamespace(v, s, k) ==
    s # NilSelector /\ k \in SelMatches[s]

\* matchesAggregation, for a VPA v with selector s.
matchesAggregation(v, s, k) ==
    /\ VpaNs[v] = KeyNs[k]
    /\ s # NilSelector
    /\ k \in SelMatches[s]

UsesAggregation(used, k) == k \in used

UseAggregationIfMatching(used, v, s, k) ==
    IF ~UsesAggregation(used, k) /\ matchesAggregation(v, s, k)
    THEN used \cup {k} ELSE used

\* UseAggregationIfMatching called for every key of ks.
LinkAggregations(used, v, s, ks) ==
    used \cup UNION {UseAggregationIfMatching(used, v, s, k) : k \in ks}

DeleteAggregations(used, ks) == used \ ks

\* AggregateStateByContainerName with MergeCheckpointedState: the container
\* names of the VPA's aggregations and of its checkpointed initial states.
AggregateStateByContainerName(v) ==
    {ContainerOf[k] : k \in aggs[v]} \cup initAgg[v]

HasRecommendation(v) == rec[v] # Nil /\ rec[v] # {}

\* The status UpdateVpaStatusIfNeeded builds from a model VPA.
NewStatus(r, m) == [rec |-> r, conds |-> AsList(m)]

-----------------------------------------------------------------------------
(* The recommender *)

\* Make, after the feeder's InitFromCheckpoints: the VPAs listed at start
\* carry the containers of their checkpoints as initial aggregate states.
Init ==
    /\ now = 0
    /\ apiVpas \in SUBSET VpaIDs
    /\ apiSel \in [VpaIDs -> Selectors]
    /\ apiStatus = [v \in VpaIDs |-> NoStatus]
    /\ observed = apiVpas
    /\ obsStatus = apiStatus
    /\ vpas = apiVpas
    /\ sel = apiSel
    /\ aggs = [v \in VpaIDs |-> {}]
    /\ initAgg \in [VpaIDs -> SUBSET Containers]
    /\ \A v \in VpaIDs \ apiVpas : initAgg[v] = {}
    /\ rec = [v \in VpaIDs |-> Nil]
    /\ conds = [v \in VpaIDs |-> EmptyConditions]
    /\ aggKeys = {}
    /\ lastGC = now
    /\ lastCpGC = now
    /\ pc = "LoadVPAs"

\* The feeder's LoadVPAs: ObservedVpas is the listing; a VPA that is new or
\* whose selector changed is (re)created with NewVpa and linked to the
\* known aggregations; a VPA no longer listed is deleted.
LoadVPAs ==
    /\ pc = "LoadVPAs"
    /\ observed' = apiVpas
    /\ obsStatus' = apiStatus
    /\ vpas' = apiVpas
    /\ LET kept(v) == v \in vpas /\ sel[v] = apiSel[v]
       IN /\ sel' = [v \in VpaIDs |-> IF v \in apiVpas THEN apiSel[v]
                                      ELSE NilSelector]
          /\ aggs' = [v \in VpaIDs |->
                        IF kept(v) THEN aggs[v]
                        ELSE IF v \in apiVpas
                             THEN LinkAggregations({}, v, apiSel[v], aggKeys)
                             ELSE {}]
          /\ initAgg' = [v \in VpaIDs |-> IF kept(v) THEN initAgg[v] ELSE {}]
          /\ rec' = [v \in VpaIDs |-> IF kept(v) THEN rec[v] ELSE Nil]
          /\ conds' = [v \in VpaIDs |->
                         IF kept(v) THEN conds[v] ELSE EmptyConditions]
    /\ pc' = "LoadPods"
    /\ UNCHANGED <<now, apiVars, aggKeys, lastGC, lastCpGC>>

\* LoadPods and LoadRealTimeMetrics: containers of new pods get
\* aggregations, which every VPA links to if it matches them.
LoadPods ==
    /\ pc = "LoadPods"
    /\ \E new \in SUBSET (Keys \ aggKeys) :
          /\ aggKeys' = aggKeys \cup new
          /\ aggs' = [v \in VpaIDs |->
                        IF v \in vpas
                        THEN LinkAggregations(aggs[v], v, sel[v], new)
                        ELSE aggs[v]]
    /\ pc' = "UpdateVPAs"
    /\ UNCHANGED <<now, apiVars, observed, obsStatus, vpas, sel, initAgg,
                   rec, conds, lastGC, lastCpGC>>

\* UpdateVPAs: for every observed VPA that the model has, compute the
\* recommendation, set RecommendationProvided when it is not empty, and
\* write the status when it differs from the listed one.  A write fails
\* when the object is gone, or for any other API error (failed).
UpdateVPAs ==
    /\ pc = "UpdateVPAs"
    /\ LET upd == observed \cap vpas
           r == [v \in VpaIDs |->
                   IF v \in upd THEN AggregateStateByContainerName(v)
                   ELSE rec[v]]
           c == [v \in VpaIDs |->
                   IF v \in upd /\ r[v] # {}
                   THEN Set(conds[v], RecommendationProvided, TRUE)
                   ELSE conds[v]]
       IN /\ rec' = r
          /\ conds' = c
          /\ \E failed \in SUBSET upd :
                apiStatus' = [v \in VpaIDs |->
                    IF /\ v \in upd \ failed
                       /\ v \in apiVpas
                       /\ NewStatus(r[v], c[v]) # obsStatus[v]
                    THEN NewStatus(r[v], c[v])
                    ELSE apiStatus[v]]
    /\ pc' = "MaintainCheckpoints"
    /\ UNCHANGED <<now, apiVpas, apiSel, observed, obsStatus, vpas, sel,
                   aggs, initAgg, aggKeys, lastGC, lastCpGC>>

\* MaintainCheckpoints: store checkpoints and, once per interval, garbage
\* collect those of deleted VPAs.  The checkpoint objects themselves are
\* read only at start (Init), so only the timer is kept.
MaintainCheckpoints ==
    /\ pc = "MaintainCheckpoints"
    /\ lastCpGC' = IF UseCheckpoints /\ now - lastCpGC > CheckpointsGCInterval
                   THEN now ELSE lastCpGC
    /\ pc' = "GarbageCollect"
    /\ UNCHANGED <<now, apiVars, observed, obsStatus, vpaVars, aggKeys,
                   lastGC>>

\* GarbageCollect: once per interval, drop the expired aggregations from
\* the cluster state and from every VPA.
GarbageCollect ==
    /\ pc = "GarbageCollect"
    /\ IF now - lastGC > GCInterval
       THEN \E expired \in SUBSET aggKeys :
               /\ aggKeys' = aggKeys \ expired
               /\ aggs' = [v \in VpaIDs |-> DeleteAggregations(aggs[v], expired)]
               /\ lastGC' = now
       ELSE UNCHANGED <<aggKeys, aggs, lastGC>>
    /\ pc' = "LoadVPAs"
    /\ UNCHANGED <<now, apiVars, observed, obsStatus, vpas, sel, initAgg,
                   rec, conds, lastCpGC>>

-----------------------------------------------------------------------------
(* The environment: users of the API server and the clock *)

CreateVpa(v, s) ==
    /\ v \notin apiVpas
    /\ apiVpas' = apiVpas \cup {v}
    /\ apiSel' = [apiSel EXCEPT ![v] = s]
    /\ apiStatus' = [apiStatus EXCEPT ![v] = NoStatus]
    /\ UNCHANGED <<now, observed, obsStatus, vpaVars, aggKeys, lastGC,
                   lastCpGC, pc>>

DeleteVpa(v) ==
    /\ v \in apiVpas
    /\ apiVpas' = apiVpas \ {v}
    /\ apiStatus' = [apiStatus EXCEPT ![v] = NoStatus]
    /\ UNCHANGED <<now, apiSel, observed, obsStatus, vpaVars, aggKeys,
                   lastGC, lastCpGC, pc>>

ChangeSelector(v, s) ==
    /\ v \in apiVpas
    /\ s # apiSel[v]
    /\ apiSel' = [apiSel EXCEPT ![v] = s]
    /\ UNCHANGED <<now, apiVpas, apiStatus, observed, obsStatus, vpaVars,
                   aggKeys, lastGC, lastCpGC, pc>>

Tick ==
    /\ now < MaxTime
    /\ now' = now + 1
    /\ UNCHANGED <<apiVars, observed, obsStatus, vpaVars, aggKeys, lastGC,
                   lastCpGC, pc>>

Next ==
    \/ LoadVPAs \/ LoadPods \/ UpdateVPAs \/ MaintainCheckpoints
    \/ GarbageCollect
    \/ \E v \in VpaIDs, s \in Selectors : CreateVpa(v, s) \/ ChangeSelector(v, s)
    \/ \E v \in VpaIDs : DeleteVpa(v)
    \/ Tick

Spec == Init /\ [][Next]_vars

-----------------------------------------------------------------------------
(* Properties *)

TypeOK ==
    /\ now \in Times
    /\ apiVpas \subseteq VpaIDs /\ apiSel \in [VpaIDs -> Selectors]
    /\ apiStatus \in [VpaIDs -> Status]
    /\ observed \subseteq VpaIDs /\ obsStatus \in [VpaIDs -> Status]
    /\ vpas \subseteq VpaIDs /\ sel \in [VpaIDs -> Selectors]
    /\ aggs \in [VpaIDs -> SUBSET Keys]
    /\ initAgg \in [VpaIDs -> SUBSET Containers]
    /\ rec \in [VpaIDs -> Recommendation]
    /\ \A v \in VpaIDs : /\ DOMAIN conds[v] \subseteq CondTypes
                         /\ \A t \in DOMAIN conds[v] : conds[v][t] \in Cond
    /\ aggKeys \subseteq Keys
    /\ lastGC \in Times /\ lastCpGC \in Times
    /\ pc \in Phases

\* The conditions of a status, by type.
StatusCond(st, t) == {i \in DOMAIN st.conds : st.conds[i].type = t}

\* A VPA of the model uses only aggregations the cluster state still has
\* and that match it: its namespace and its current, non-nil selector
\* (UseAggregationIfMatching, NewVpa on a selector change, the GC's
\* DeleteAggregation).
UsedAggregationsMatch ==
    \A v \in vpas : \A k \in aggs[v] :
        /\ k \in aggKeys
        /\ KeyNs[k] = VpaNs[v]
        /\ sel[v] # NilSelector /\ k \in SelMatches[sel[v]]

\* The status at the API server says RecommendationProvided only when it
\* carries a non-empty recommendation (UpdateVPAs, recommender.go:102).
RecommendationProvidedMeansRecommendation ==
    \A v \in apiVpas :
        (\E i \in StatusCond(apiStatus[v], RecommendationProvided) :
            apiStatus[v].conds[i].status)
        => apiStatus[v].rec \notin {Nil, {}}

=============================================================================
