------------------------- MODULE GkeManager_proofs -------------------------
(***************************************************************************)
(* Proofs about GkeManager for every value of its constants: the type      *)
(* invariant, the consistency of the instance index with the registry and *)
(* of the registry with the last clean cluster description.               *)
(***************************************************************************)
EXTENDS GkeManager, TLAPS

Clean == Listed(reply.pools) \cap Malformed = {}

(***************************************************************************)
(* The inductive invariant.  The index may name an unregistered MIG only  *)
(* while refreshNodePools is about to regenerate it: the goroutine may    *)
(* have indexed a MIG the removal loop then unregistered, and that loop   *)
(* always sends the refresh on to the regeneration when it removed one.   *)
(* Between the registration loop and the removal loop the listed MIGs     *)
(* already carry their listed configurations; after the removal loop the  *)
(* registry is the description's.                                         *)
(***************************************************************************)
IndexInv == pc # "regenerate" => index \subseteq Registered

ListingInv ==
    /\ pc \in {"idle", "regenerate", "finish"} /\ Clean
          => registry = ConfigOf(reply.pools)
    /\ pc = "unregister" =>
          \A m \in Listed(reply.pools) : registry[m] = reply.pools[MigPool[m]]

GInv == TypeOK /\ IndexInv /\ ListingInv

\* A description taken from pools of the right type is a Cluster.
LEMMA SnapshotType ==
    ASSUME NEW pools \in [Pools -> Configs \cup {None}],
           cloudLocs \subseteq Locations, cloudLimit \in Limits \cup {None}
    PROVE  Snapshot(pools) \in Cluster
BY DEF Snapshot, Cluster

\* ConfigOf builds a registry of the right type.
LEMMA ConfigOfType ==
    ASSUME NEW pools \in [Pools -> Configs \cup {None}]
    PROVE  ConfigOf(pools) \in [Migs -> Configs \cup {None}]
BY GkeConstantsAssumption DEF ConfigOf, Listed

\* The intervals are positive natural numbers.
LEMMA IntervalsNat ==
    /\ RefreshInterval \in Nat /\ MachinesRefreshInterval \in Nat
    /\ RegenerateInterval \in Nat
BY GkeConstantsAssumption

\* Aging a saturated age keeps it within its range.
LEMMA OlderRange ==
    ASSUME NEW d \in Nat, NEW a \in 0..d
    PROVE  Older(a, d) \in 0..d
BY DEF Older

LEMMA InitGInv == Init => GInv
<1> SUFFICES ASSUME Init PROVE GInv
  OBVIOUS
<1> DEFINE L == Listed(cloud)
<1>1. PICK done \in SUBSET (L \ Malformed) :
        /\ L \cap Malformed = {} => done = L
        /\ registry = [m \in Migs |-> IF m \in done THEN cloud[MigPool[m]]
                                                    ELSE None]
        /\ index \in IF L \cap Malformed = {} THEN SUBSET done ELSE {{}}
  BY DEF Init
<1>2. registry \in [Migs -> Configs \cup {None}]
  BY <1>1, GkeConstantsAssumption DEF Init, Listed
<1>3. done \subseteq Registered
  BY <1>1, GkeConstantsAssumption DEF Listed, Registered
<1>4. TypeOK
  <2>1. reply \in Cluster
    BY SnapshotType DEF Init
  <2>2. index \subseteq Migs
    BY <1>1, <1>3 DEF Registered
  <2>3. /\ cloud \in [Pools -> Configs \cup {None}]
        /\ cloudLocs \subseteq Locations /\ cloudLimit \in Limits \cup {None}
        /\ locs = cloudLocs /\ machines = cloudLocs
        /\ limiter = IF NapMode /\ cloudLimit # None THEN cloudLimit ELSE None
        /\ lrAge = 0 /\ machAge = 0 /\ regenAge = RegenerateInterval
        /\ pc = "idle" /\ caller = "refresh" /\ target = None
        /\ changed = FALSE /\ ret = "none" /\ stopped = FALSE /\ deleted = {}
    BY DEF Init
  <2>4. lrAge \in 0..RefreshInterval /\ machAge \in 0..MachinesRefreshInterval
        /\ regenAge \in 0..RegenerateInterval
    BY <2>3, IntervalsNat
  <2>5. limiter \in Limits \cup {None} /\ machines \subseteq Locations
        /\ locs \subseteq Locations
    BY <2>3
  <2>6. pc \in Phases /\ caller \in Callers /\ target \in Pools \cup {None}
        /\ ret \in Results /\ deleted \subseteq Pools
    BY <2>3 DEF Phases, Callers, Results
  <2>7. changed \in BOOLEAN /\ stopped \in BOOLEAN
    BY <2>3, Zenon
  <2> QED
    BY <1>2, <2>1, <2>2, <2>3, <2>4, <2>5, <2>6, <2>7, Zenon DEF TypeOK
<1>5. IndexInv
  BY <1>1, <1>3 DEF IndexInv
<1>6. ListingInv
  BY <1>1 DEF Init, ListingInv, Clean, Snapshot, ConfigOf
<1> QED
  BY <1>4, <1>5, <1>6 DEF GInv

(***************************************************************************)
(* refreshNodePools.                                                       *)
(***************************************************************************)
LEMMA RegisterNodePoolsGInv == GInv /\ RegisterNodePools => GInv'
<1> SUFFICES ASSUME GInv, RegisterNodePools PROVE GInv'
  OBVIOUS
<1> DEFINE L == Listed(reply.pools)
<1>1. PICK done \in SUBSET (L \ Malformed) :
        /\ L \cap Malformed = {} => done = L
        /\ registry' = [m \in Migs |-> IF m \in done
                                          THEN reply.pools[MigPool[m]]
                                          ELSE registry[m]]
        /\ \E fetched \in SUBSET
               {ZoneOf[m] : m \in {m \in done :
                                   registry[m] # reply.pools[MigPool[m]]}} :
              machines' = machines \cup fetched
        /\ changed' = ({m \in done : registry[m] # reply.pools[MigPool[m]]}
                       # {})
        /\ pc' = IF L \cap Malformed = {} THEN "unregister" ELSE "finish"
  BY DEF cloudVars, RegisterNodePools, RegisterMigs, MachineTypesFetched
<1>2. reply.pools \in [Pools -> Configs \cup {None}]
  BY DEF GInv, TypeOK, Cluster
<1>3. registry' \in [Migs -> Configs \cup {None}]
  BY <1>1, <1>2, GkeConstantsAssumption DEF GInv, TypeOK
<1>4. machines' \subseteq Locations
  <2>1. PICK fetched \in SUBSET
               {ZoneOf[m] : m \in {m \in done :
                                   registry[m] # reply.pools[MigPool[m]]}} :
              machines' = machines \cup fetched
    BY <1>1
  <2>2. done \subseteq Migs
    BY <1>1 DEF Listed
  <2>3. \A m \in done : ZoneOf[m] \in Locations
    BY <2>2, GkeConstantsAssumption
  <2>4. fetched \subseteq Locations
    BY <2>1, <2>3
  <2> QED
    BY <2>1, <2>4 DEF GInv, TypeOK
<1>5. TypeOK'
  BY <1>1, <1>3, <1>4 DEF cloudVars, GInv, TypeOK, RegisterNodePools, Phases
<1>6. Registered \subseteq Registered'
  BY <1>1, <1>2, GkeConstantsAssumption DEF Registered, Listed
<1>7. IndexInv'
  BY <1>6 DEF cloudVars, GInv, IndexInv, RegisterNodePools
<1>8. ListingInv'
  <2>1. CASE L \cap Malformed = {}
    <3>1. pc' = "unregister" /\ done = L
      BY <1>1, <2>1
    <3>2. reply' = reply
      BY DEF RegisterNodePools
    <3>3. \A m \in L : registry'[m] = reply.pools[MigPool[m]]
      BY <1>1, <3>1 DEF Listed
    <3> QED
      BY <3>1, <3>2, <3>3 DEF ListingInv
  <2>2. CASE L \cap Malformed # {}
    BY <1>1, <2>2 DEF cloudVars, ListingInv, RegisterNodePools, Clean
  <2> QED
    BY <2>1, <2>2
<1> QED
  BY <1>5, <1>7, <1>8 DEF GInv

LEMMA UnregisterMissingMigsGInv == GInv /\ UnregisterMissingMigs => GInv'
<1> SUFFICES ASSUME GInv, UnregisterMissingMigs PROVE GInv'
  OBVIOUS
<1> DEFINE stale == Registered \ Listed(reply.pools)
<1>1. registry' = [m \in Migs |-> IF m \in stale THEN None ELSE registry[m]]
  BY DEF cloudVars, UnregisterMissingMigs
<1>2. TypeOK'
  BY <1>1 DEF cloudVars, GInv, TypeOK, UnregisterMissingMigs, Phases
<1>3. IndexInv'
  <2>1. CASE stale = {}
    <3>1. registry' = registry
      BY <1>1, <2>1 DEF GInv, TypeOK, Registered
    <3> QED
      BY <3>1 DEF cloudVars, GInv, IndexInv, UnregisterMissingMigs, Registered
  <2>2. CASE stale # {}
    BY <2>2 DEF cloudVars, IndexInv, UnregisterMissingMigs
  <2> QED
    BY <2>1, <2>2
<1>4. registry' = ConfigOf(reply.pools)
  BY <1>1 DEF cloudVars, GInv, TypeOK, ListingInv, UnregisterMissingMigs, ConfigOf,
             Registered
<1>5. ListingInv'
  BY <1>4 DEF cloudVars, ListingInv, UnregisterMissingMigs, Clean
<1> QED
  BY <1>2, <1>3, <1>5 DEF GInv

LEMMA RegenerateAfterRefreshGInv == GInv /\ RegenerateAfterRefresh => GInv'
<1> SUFFICES ASSUME GInv, RegenerateAfterRefresh PROVE GInv'
  OBVIOUS
<1>1. index' \subseteq Registered
  BY DEF cloudVars, RegenerateAfterRefresh, RegenerateResults
<1>2. TypeOK'
  BY <1>1 DEF cloudVars, GInv, TypeOK, RegenerateAfterRefresh, Registered, Phases
<1> QED
  BY <1>1, <1>2 DEF GInv, IndexInv, ListingInv, Clean, Registered,
                    RegenerateAfterRefresh

\* The three ends of refreshClusterResources leave the registry and index.
LEMMA FinishGInv ==
    GInv /\ (FinishForceRefresh \/ FinishCreateNodePool \/ FinishDeleteNodePool)
        => GInv'
<1> SUFFICES ASSUME GInv,
                    FinishForceRefresh \/ FinishCreateNodePool
                      \/ FinishDeleteNodePool
             PROVE GInv'
  OBVIOUS
<1>1. locs' \subseteq Locations /\ limiter' \in Limits \cup {None}
  BY GkeConstantsAssumption
  DEF cloudVars, GInv, TypeOK, Cluster, ApplyClusterInfo, FinishForceRefresh,
      FinishCreateNodePool, FinishDeleteNodePool
<1>2. /\ machines' \subseteq Locations
      /\ lrAge' \in 0..RefreshInterval
      /\ machAge' \in 0..MachinesRefreshInterval
      /\ ret' \in Results
  BY GkeConstantsAssumption
  DEF cloudVars, GInv, TypeOK, Cluster, FinishForceRefresh, FinishCreateNodePool,
      FinishDeleteNodePool, Results, RefreshMachinesCache, ApplyClusterInfo
<1>3. /\ pc' = "idle"
      /\ UNCHANGED <<cloudVars, registry, index, regenAge, caller, target,
                     changed, reply, stopped, deleted>>
  BY DEF cloudVars, FinishForceRefresh, FinishCreateNodePool, FinishDeleteNodePool
<1>4. pc = "finish"
  BY DEF cloudVars, FinishForceRefresh, FinishCreateNodePool, FinishDeleteNodePool
<1> QED
  BY <1>1, <1>2, <1>3, <1>4
  DEF GInv, TypeOK, IndexInv, ListingInv, Clean, Registered, cloudVars,
      Phases

(***************************************************************************)
(* The calls of the loop at rest.                                          *)
(***************************************************************************)

\* A GetCluster from rest either keeps pc at rest or starts a refresh; the
\* registry and the index are untouched.
LEMMA GetClusterGInv ==
    ASSUME GInv, pc = "idle", NEW c \in Callers,
           NEW pools \in [Pools -> Configs \cup {None}],
           GetCluster(c, pools),
           UNCHANGED <<cloudLocs, cloudLimit, registry, index>>
    PROVE  /\ reply' \in Cluster /\ pc' \in Phases /\ caller' \in Callers
           /\ ret' \in Results
           /\ IndexInv' /\ ListingInv'
<1>1. CASE reply' = Snapshot(pools) /\ pc' = "register" /\ ret' = "none"
  <2>1. reply' \in Cluster
    BY <1>1, SnapshotType DEF GInv, TypeOK
  <2> QED
    BY <1>1, <2>1 DEF GetCluster, Phases, Results, IndexInv, ListingInv,
                      GInv, Registered
<1>2. CASE pc' = "idle" /\ ret' = "err" /\ UNCHANGED reply
  BY <1>2 DEF GetCluster, Phases, Results, GInv, TypeOK, IndexInv,
              ListingInv, Clean, Registered
<1> QED
  BY <1>1, <1>2 DEF GetCluster

LEMMA RefreshGInv == GInv /\ Refresh => GInv'
<1> SUFFICES ASSUME GInv, Refresh PROVE GInv'
  OBVIOUS
<1>1. CASE lrAge < RefreshInterval /\ ret' = "ok" /\ caller' = "refresh"
           /\ UNCHANGED <<pc, reply>>
  BY <1>1 DEF cloudVars, Refresh, GInv, TypeOK, IndexInv, ListingInv, Clean, Registered,
              Results, Callers, cloudVars
<1>2. CASE lrAge >= RefreshInterval /\ GetCluster("refresh", cloud)
  <2>1. /\ reply' \in Cluster /\ pc' \in Phases /\ caller' \in Callers
        /\ ret' \in Results /\ IndexInv' /\ ListingInv'
    BY <1>2, GetClusterGInv DEF cloudVars, Refresh, GInv, TypeOK, Callers
  <2> QED
    BY <2>1 DEF Refresh, GInv, TypeOK, cloudVars
<1> QED
  BY <1>1, <1>2 DEF Refresh

LEMMA CreateNodePoolGInv == GInv /\ CreateNodePool => GInv'
<1> SUFFICES ASSUME GInv, CreateNodePool PROVE GInv'
  OBVIOUS
<1>1. PICK p \in AutoprovPools : \E c \in Configs :
        /\ target' = p
        /\ \/ /\ ret' = "err" /\ caller' = "create"
              /\ UNCHANGED <<cloud, pc, reply, deleted>>
           \/ /\ cloud[p] = None
              /\ cloud' = [cloud EXCEPT ![p] = c]
              /\ deleted' = deleted \ {p}
              /\ GetCluster("create", cloud')
  BY DEF CreateNodePool
<1>2. PICK c \in Configs :
        /\ target' = p
        /\ \/ /\ ret' = "err" /\ caller' = "create"
              /\ UNCHANGED <<cloud, pc, reply, deleted>>
           \/ /\ cloud[p] = None
              /\ cloud' = [cloud EXCEPT ![p] = c]
              /\ deleted' = deleted \ {p}
              /\ GetCluster("create", cloud')
  BY <1>1
<1>3. p \in Pools
  BY GkeConstantsAssumption
<1>4. UNCHANGED <<cloudLocs, cloudLimit, registry, index, locs, machines,
                  limiter, lrAge, machAge, regenAge, changed, stopped>>
      /\ pc = "idle"
  BY DEF CreateNodePool
<1>5. CASE ret' = "err" /\ caller' = "create"
           /\ UNCHANGED <<cloud, pc, reply, deleted>>
  BY <1>2, <1>3, <1>4, <1>5
  DEF GInv, TypeOK, IndexInv, ListingInv, Clean, Registered, Results, Callers
<1>6. CASE /\ cloud[p] = None
           /\ cloud' = [cloud EXCEPT ![p] = c]
           /\ deleted' = deleted \ {p}
           /\ GetCluster("create", cloud')
  <2>1. cloud' \in [Pools -> Configs \cup {None}]
    BY <1>3, <1>6 DEF GInv, TypeOK
  <2>2. /\ reply' \in Cluster /\ pc' \in Phases /\ caller' \in Callers
        /\ ret' \in Results /\ IndexInv' /\ ListingInv'
    BY <1>4, <1>6, <2>1, GetClusterGInv DEF Callers
  <2> QED
    BY <1>2, <1>3, <1>4, <1>6, <2>1, <2>2 DEF GInv, TypeOK
<1> QED
  BY <1>2, <1>5, <1>6

LEMMA DeleteNodePoolGInv == GInv /\ DeleteNodePool => GInv'
<1> SUFFICES ASSUME GInv, DeleteNodePool PROVE GInv'
  OBVIOUS
<1>1. PICK m \in Registered : DeleteNodePoolOf(m)
  BY DEF DeleteNodePool
<1> DEFINE p == MigPool[m]
<1>2. p \in Pools /\ target' = p
  BY <1>1, GkeConstantsAssumption DEF DeleteNodePoolOf, Registered
<1>3. UNCHANGED <<cloudLocs, cloudLimit, registry, index, locs, machines,
                  limiter, lrAge, machAge, regenAge, changed, stopped>>
      /\ pc = "idle"
  BY DEF DeleteNodePool
<1>4. CASE ret' = "err" /\ caller' = "delete"
           /\ UNCHANGED <<cloud, pc, reply, deleted>>
  BY <1>2, <1>3, <1>4
  DEF GInv, TypeOK, IndexInv, ListingInv, Clean, Registered, Results, Callers
<1>5. CASE /\ p \in AutoprovPools
           /\ cloud[p] # None
           /\ cloud' = [cloud EXCEPT ![p] = None]
           /\ deleted' = deleted \cup {p}
           /\ GetCluster("delete", cloud')
  <2>1. cloud' \in [Pools -> Configs \cup {None}]
    BY <1>2, <1>5 DEF GInv, TypeOK
  <2>2. /\ reply' \in Cluster /\ pc' \in Phases /\ caller' \in Callers
        /\ ret' \in Results /\ IndexInv' /\ ListingInv'
    BY <1>3, <1>5, <2>1, GetClusterGInv DEF Callers
  <2> QED
    BY <1>2, <1>3, <1>5, <2>1, <2>2 DEF GInv, TypeOK
<1> QED
  BY <1>1, <1>4, <1>5 DEF DeleteNodePoolOf

\* The remaining steps touch neither the registry nor the phase; the index
\* only ever grows by, or is rebuilt from, registered MIGs.
LEMMA OtherStepsGInv ==
    GInv /\ (GetMigForInstance \/ ClearMachinesCache \/ Cleanup
             \/ RegenerateInstancesCache \/ CloudChanged \/ AdvanceTime)
        => GInv'
<1> SUFFICES ASSUME GInv,
                    GetMigForInstance \/ ClearMachinesCache \/ Cleanup
                      \/ RegenerateInstancesCache \/ CloudChanged
                      \/ AdvanceTime
             PROVE GInv'
  OBVIOUS
<1>1. CASE GetMigForInstance
  BY <1>1 DEF cloudVars, GetMigForInstance, GInv, TypeOK, IndexInv, ListingInv, Clean,
              Registered, Results
<1>2. CASE ClearMachinesCache
  BY <1>2, IntervalsNat DEF cloudVars, ClearMachinesCache, GInv, TypeOK, IndexInv, ListingInv, Clean,
              Registered, Results
<1>3. CASE Cleanup
  BY <1>3 DEF cloudVars, Cleanup, GInv, TypeOK, IndexInv, ListingInv, Clean,
              Registered, Results
<1>4. CASE RegenerateInstancesCache
  <2>1. index' \subseteq Registered
    BY <1>4 DEF cloudVars, RegenerateInstancesCache, RegenerateResults
  <2> QED
    BY <1>4, <2>1, GkeConstantsAssumption
    DEF cloudVars, RegenerateInstancesCache, GInv, TypeOK, IndexInv, ListingInv, Clean,
        Registered, Results
<1>5. CASE CloudChanged
  <2>1. /\ cloud' \in [Pools -> Configs \cup {None}]
        /\ cloudLocs' \subseteq Locations
        /\ cloudLimit' \in Limits \cup {None}
        /\ deleted' \subseteq Pools
    BY <1>5 DEF cloudVars, CloudChanged, GInv, TypeOK
  <2> QED
    BY <1>5, <2>1 DEF cloudVars, CloudChanged, GInv, TypeOK, IndexInv, ListingInv,
                      Clean, Registered, Results
<1>6. CASE AdvanceTime
  <2>1. /\ lrAge' \in 0..RefreshInterval
        /\ machAge' \in 0..MachinesRefreshInterval
        /\ regenAge' \in 0..RegenerateInterval
    BY <1>6, OlderRange, GkeConstantsAssumption DEF AdvanceTime, GInv, TypeOK
  <2> QED
    BY <1>6, <2>1 DEF AdvanceTime, GInv, TypeOK, IndexInv, ListingInv, Clean,
                      Registered, Results, cloudVars
<1> QED
  BY <1>1, <1>2, <1>3, <1>4, <1>5, <1>6

LEMMA NextGInv == GInv /\ [Next]_vars => GInv'
<1> SUFFICES ASSUME GInv, [Next]_vars PROVE GInv'
  OBVIOUS
<1>1. CASE UNCHANGED vars
  BY <1>1 DEF vars, GInv, TypeOK, IndexInv, ListingInv, Clean, Registered
<1> QED
  BY <1>1, RegisterNodePoolsGInv, UnregisterMissingMigsGInv,
     RegenerateAfterRefreshGInv, FinishGInv, RefreshGInv, CreateNodePoolGInv,
     DeleteNodePoolGInv, OtherStepsGInv DEF Next

\* The type invariant holds in every reachable state.
THEOREM GkeTypeCorrect == Spec => []TypeOK
<1>1. Spec => []GInv
  BY InitGInv, NextGInv, PTL DEF Spec
<1> QED
  BY <1>1, PTL DEF GInv

\* GetMigForInstance never finds an unregistered MIG in the instance index
\* while the loop is between calls, whatever the goroutine does.
THEOREM IndexConsistent == Spec => []IndexNamesOnlyRegistered
<1>1. Spec => []GInv
  BY InitGInv, NextGInv, PTL DEF Spec
<1>2. GInv => IndexNamesOnlyRegistered
  BY DEF GInv, IndexInv, IndexNamesOnlyRegistered
<1> QED
  BY <1>1, <1>2, PTL

\* After every refresh from a description without malformed URLs, the
\* registry is that description.
THEOREM RegistryConsistent == Spec => []RegistryReflectsCleanListing
<1>1. Spec => []GInv
  BY InitGInv, NextGInv, PTL DEF Spec
<1>2. GInv => RegistryReflectsCleanListing
  BY DEF GInv, ListingInv, Clean, RegistryReflectsCleanListing
<1> QED
  BY <1>1, <1>2, PTL
=============================================================================
