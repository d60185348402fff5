----------------------------- MODULE GkeManager -----------------------------
(***************************************************************************)
(* The GKE cloud-provider manager, gkeManagerImpl                          *)
(* (cloudprovider/gke/gke_manager.go), and the part of the GCE cache it    *)
(* drives: the registry of MIGs (cache.migs), the index from instances to  *)
(* MIGs (instancesCache), the machine-type cache, the node locations and   *)
(* the resource limiter.                                                   *)
(*                                                                         *)
(* Two threads use the manager.  The autoscaler loop calls Refresh,        *)
(* CreateNodePool, DeleteNodePool and the lookups; the goroutine started   *)
(* by CreateGkeManager regenerates the instance index every hour.  Every  *)
(* cache call takes the cache mutex, so each is atomic, but a refresh is a *)
(* sequence of them: the loop's refresh is split at the cache calls        *)
(* (pc) and the goroutine may run between any two.                         *)
(*                                                                         *)
(* The GCE cache is not part of this repository; its operations are        *)
(* modelled from the way gke_manager.go uses them: RegisterMig reports a   *)
(* change when a MIG is new or its configuration differs, UnregisterMig    *)
(* removes a MIG from cache.migs only, and RegenerateInstancesCache clears *)
(* the index and then fills it MIG by MIG, stopping at the first error.    *)
(*                                                                         *)
(* Time is kept as ages saturated at the interval compared with, as in     *)
(* StaticAutoscaler.                                                       *)
(***************************************************************************)
EXTENDS Naturals

CONSTANTS
    Pools,           \* node pools of the cluster
    Migs,            \* instance groups (one per pool and zone)
    MigPool,         \* the node pool of a MIG
    ZoneOf,          \* the zone of a MIG
    Locations,       \* zones the cluster may have nodes in
    Configs,         \* node-pool configurations (min and max node count)
    Limits,          \* resource limits the cluster may report
    AutoprovPools,   \* node pools created by node autoprovisioning
    Malformed,       \* MIGs whose instance-group URL ParseIgmUrl rejects
    NapMode,         \* mode = ModeGKENAP
    RefreshInterval, MachinesRefreshInterval, RegenerateInterval,
    None

ASSUME GkeConstantsAssumption ==
    /\ MigPool \in [Migs -> Pools]
    /\ ZoneOf \in [Migs -> Locations]
    /\ AutoprovPools \subseteq Pools
    /\ Malformed \subseteq Migs
    /\ NapMode \in BOOLEAN
    /\ {RefreshInterval, MachinesRefreshInterval, RegenerateInterval}
           \subseteq Nat \ {0}
    /\ None \notin Configs \cup Limits

VARIABLES
    cloud,       \* cloud[p]: configuration of node pool p at GKE, or None
    cloudLocs,   \* the cluster's locations at GKE
    cloudLimit,  \* the cluster's resource limits at GKE, or None
    registry,    \* cache.migs: the registered configuration of each MIG
    index,       \* instancesCache: the MIGs whose instances are indexed
    locs,        \* gkeConfigurationCache.nodeLocations
    machines,    \* machine-type cache: the locations whose types it holds
    limiter,     \* the cached resource limiter, or None
    lrAge,       \* now - lastRefresh
    machAge,     \* now - machinesCacheLastRefresh
    regenAge,    \* time since the goroutine's last run
    pc,          \* where the loop's current manager call is
    caller,      \* the call that runs refreshClusterResources
    target,      \* the node pool CreateNodePool or DeleteNodePool acts on
    changed,     \* refreshNodePools' local "changed"
    reply,       \* the last cluster description GetCluster returned
    ret,         \* the result of the call that returned in this step
    stopped,     \* Cleanup closed the interrupt channel
    \* History, for stating the properties.
    deleted      \* pools that DeleteNodePool deleted at GKE

cloudVars == <<cloud, cloudLocs, cloudLimit>>
vars == <<cloud, cloudLocs, cloudLimit, registry, index, locs, machines,
          limiter, lrAge, machAge, regenAge, pc, caller, target, changed,
          reply, ret, stopped, deleted>>

Phases == {"idle", "register", "unregister", "regenerate", "finish"}
Callers == {"refresh", "create", "delete"}
Results == {"none", "ok", "err"}
Cluster == [pools : [Pools -> Configs \cup {None}],
            locs : SUBSET Locations, limit : Limits \cup {None}]

\* The MIGs of the node pools a cluster description lists.
Listed(pools) == {m \in Migs : pools[MigPool[m]] # None}

\* The registry refreshNodePools builds from a description.
ConfigOf(pools) ==
    [m \in Migs |-> IF m \in Listed(pools) THEN pools[MigPool[m]] ELSE None]

Registered == {m \in Migs : registry[m] # None}

\* GetCluster: the description of the cluster as GKE holds it now.
Snapshot(pools) == [pools |-> pools, locs |-> cloudLocs, limit |-> cloudLimit]

TypeOK ==
    /\ cloud \in [Pools -> Configs \cup {None}]
    /\ cloudLocs \subseteq Locations
    /\ cloudLimit \in Limits \cup {None}
    /\ registry \in [Migs -> Configs \cup {None}]
    /\ index \subseteq Migs
    /\ locs \subseteq Locations /\ machines \subseteq Locations
    /\ limiter \in Limits \cup {None}
    /\ lrAge \in 0..RefreshInterval
    /\ machAge \in 0..MachinesRefreshInterval
    /\ regenAge \in 0..RegenerateInterval
    /\ pc \in Phases /\ caller \in Callers /\ target \in Pools \cup {None}
    /\ changed \in BOOLEAN /\ reply \in Cluster /\ ret \in Results
    /\ stopped \in BOOLEAN /\ deleted \subseteq Pools

-----------------------------------------------------------------------------
(* refreshNodePools, in three steps separated by cache calls.              *)

\* registerMig: RegisterMig stores the MIGs met with their listed
\* configurations.
RegisterMigs(done) ==
    [m \in Migs |-> IF m \in done THEN reply.pools[MigPool[m]] ELSE registry[m]]

\* GetMigTemplateNode for MIGs RegisterMig reported changed: it fetches the
\* template and, for a machine type not in the cache, fetches the type and
\* adds it (AddMachineToCache); any failure is only logged by registerMig.
MachineTypesFetched(new) == SUBSET {ZoneOf[m] : m \in new}

\* The loop over node pools registers each listed MIG in turn.  ParseIgmUrl
\* failing on a URL returns from refreshNodePools before the removal loop;
\* the MIGs met before it stay registered.  refreshClusterResources ignores
\* that error (line 500) and goes on.
RegisterNodePools ==
    LET L == Listed(reply.pools)
        New(done) == {m \in done : registry[m] # reply.pools[MigPool[m]]}
    IN
    /\ pc = "register"
    /\ \E done \in SUBSET (L \ Malformed) :
          /\ L \cap Malformed = {} => done = L
          /\ registry' = RegisterMigs(done)
          /\ \E fetched \in MachineTypesFetched(New(done)) :
                machines' = machines \cup fetched
          /\ changed' = (New(done) # {})
          /\ pc' = IF L \cap Malformed = {} THEN "unregister" ELSE "finish"
    /\ UNCHANGED <<cloudVars, index, locs, limiter, lrAge, machAge, regenAge,
                   caller, target, reply, ret, stopped, deleted>>

UnregisterMissingMigsUnchanged ==
    LET stale == Registered \ Listed(reply.pools) IN
    /\ pc = "unregister"
    /\ registry' = [m \in Migs |-> IF m \in stale THEN None ELSE registry[m]]
    /\ changed' = changed
    /\ pc' = IF changed' THEN "regenerate" ELSE "finish"
    /\ UNCHANGED <<cloudVars, index, locs, machines, limiter, lrAge, machAge,
                   regenAge, caller, target, reply, ret, stopped, deleted>>

UnregisterMissingMigsSkipped ==
    /\ pc = "unregister"
    /\ pc' = IF changed THEN "regenerate" ELSE "finish"
    /\ UNCHANGED <<cloudVars, registry, index, locs, machines, limiter, lrAge,
                   machAge, regenAge, caller, target, changed, reply, ret,
                   stopped, deleted>>

\* The second loop unregisters every registered MIG the description does
\* not list; if anything changed, the instance index is regenerated.
UnregisterMissingMigs ==
    LET stale == Registered \ Listed(reply.pools) IN
    /\ pc = "unregister"
    /\ registry' = [m \in Migs |-> IF m \in stale THEN None ELSE registry[m]]
    /\ changed' = (changed \/ stale # {})
    /\ pc' = IF changed' THEN "regenerate" ELSE "finish"
    /\ UNCHANGED <<cloudVars, index, locs, machines, limiter, lrAge, machAge,
                   regenAge, caller, target, reply, ret, stopped, deleted>>

\* RegenerateInstancesCache clears the index and fills it MIG by MIG; a
\* failed fetch leaves it holding only the MIGs done before.  The error is
\* returned from refreshNodePools and ignored at line 500.
RegenerateResults == SUBSET Registered

RegenerateAfterRefresh ==
    /\ pc = "regenerate"
    /\ index' \in RegenerateResults
    /\ pc' = "finish"
    /\ UNCHANGED <<cloudVars, registry, locs, machines, limiter, lrAge,
                   machAge, regenAge, caller, target, changed, reply, ret,
                   stopped, deleted>>

\* refreshResourceLimiter and setNodeLocations, the rest of
\* refreshClusterResources.  Without limits in NAP mode the old ones stay.
ApplyClusterInfo ==
    /\ limiter' = IF NapMode /\ reply.limit # None THEN reply.limit
                                                   ELSE limiter
    /\ locs' = reply.locs

\* refreshMachinesCache refetches the machine types of every node location
\* (as just set) once its interval has passed, and replaces the cache only
\* if every fetch succeeded.
RefreshMachinesCache ==
    \/ /\ machAge < MachinesRefreshInterval
       /\ ret' = "ok"
       /\ UNCHANGED <<machines, machAge>>
    \/ /\ machAge >= MachinesRefreshInterval
       /\ machines' = locs' /\ machAge' = 0
       /\ ret' = "ok"
    \/ /\ machAge >= MachinesRefreshInterval
       /\ locs' # {}
       /\ ret' = "err"
       /\ UNCHANGED <<machines, machAge>>

\* forceRefresh after refreshClusterResources: refreshMachinesCache, then
\* lastRefresh is set unless it failed.
FinishForceRefresh ==
    /\ pc = "finish" /\ caller = "refresh"
    /\ ApplyClusterInfo
    /\ RefreshMachinesCache
    /\ lrAge' = IF ret' = "ok" THEN 0 ELSE lrAge
    /\ pc' = "idle"
    /\ UNCHANGED <<cloudVars, registry, index, regenAge, caller, target,
                   changed, reply, stopped, deleted>>

\* CreateNodePool after the refresh looks the new pool up among the
\* registered MIGs by node-pool name; it fails if none is found.
FinishCreateNodePool ==
    /\ pc = "finish" /\ caller = "create"
    /\ ApplyClusterInfo
    /\ ret' = IF \E m \in Registered : MigPool[m] = target THEN "ok" ELSE "err"
    /\ pc' = "idle"
    /\ UNCHANGED <<cloudVars, registry, index, machines, lrAge, machAge,
                   regenAge, caller, target, changed, reply, stopped, deleted>>

\* DeleteNodePool returns what refreshClusterResources returned.
FinishDeleteNodePool ==
    /\ pc = "finish" /\ caller = "delete"
    /\ ApplyClusterInfo
    /\ ret' = "ok"
    /\ pc' = "idle"
    /\ UNCHANGED <<cloudVars, registry, index, machines, lrAge, machAge,
                   regenAge, caller, target, changed, reply, stopped, deleted>>

-----------------------------------------------------------------------------
(* The calls of the autoscaler loop.                                       *)

\* refreshClusterResources starts with GetCluster, on the given pools; on
\* failure the call returns the error and nothing else changes.
GetCluster(c, pools) ==
    /\ caller' = c
    /\ \/ /\ reply' = Snapshot(pools) /\ pc' = "register" /\ ret' = "none"
       \/ /\ pc' = "idle" /\ ret' = "err" /\ UNCHANGED reply

\* Refresh returns at once while lastRefresh is younger than refreshInterval
\* and calls forceRefresh otherwise.
Refresh ==
    /\ pc = "idle" /\ ~stopped
    /\ target' = None
    /\ \/ /\ lrAge < RefreshInterval
          /\ ret' = "ok" /\ caller' = "refresh"
          /\ UNCHANGED <<pc, reply>>
       \/ /\ lrAge >= RefreshInterval
          /\ GetCluster("refresh", cloud)
    /\ UNCHANGED <<cloudVars, registry, index, locs, machines, limiter, lrAge,
                   machAge, regenAge, changed, stopped, deleted>>

\* CreateNodePool (NAP mode only: assertGKENAP) asks GKE to create an
\* autoprovisioned pool, then refreshes the cluster resources.  GKE refuses
\* a pool that exists; any create call may fail.
CreateNodePool ==
    /\ pc = "idle" /\ ~stopped /\ NapMode
    /\ \E p \in AutoprovPools, c \in Configs :
          /\ target' = p
          /\ \/ /\ ret' = "err" /\ caller' = "create"
                /\ UNCHANGED <<cloud, pc, reply, deleted>>
             \/ /\ cloud[p] = None
                /\ cloud' = [cloud EXCEPT ![p] = c]
                /\ deleted' = deleted \ {p}
                /\ GetCluster("create", cloud')
    /\ UNCHANGED <<cloudLocs, cloudLimit, registry, index, locs, machines,
                   limiter, lrAge, machAge, regenAge, changed, stopped>>

DeleteNodePoolOfMigName(m) ==
    /\ target' = m
    /\ ret' = "err" /\ caller' = "delete"
    /\ UNCHANGED <<cloud, pc, reply, deleted>>

\* DeleteNodePool (NAP mode only) refuses a MIG whose pool was not
\* autoprovisioned, asks GKE to delete the pool of the MIG, and refreshes
\* the cluster resources.  The GKE call may fail.
DeleteNodePoolOf(m) ==
    LET p == MigPool[m] IN
    /\ target' = p
    /\ \/ /\ ret' = "err" /\ caller' = "delete"
          /\ UNCHANGED <<cloud, pc, reply, deleted>>
       \/ /\ p \in AutoprovPools
          /\ cloud[p] # None
          /\ cloud' = [cloud EXCEPT ![p] = None]
          /\ deleted' = deleted \cup {p}
          /\ GetCluster("delete", cloud')

DeleteNodePool ==
    /\ pc = "idle" /\ ~stopped /\ NapMode
    /\ \E m \in Registered : DeleteNodePoolOf(m)
    /\ UNCHANGED <<cloudLocs, cloudLimit, registry, index, locs, machines,
                   limiter, lrAge, machAge, regenAge, changed, stopped>>

\* GetMigForInstance, for an instance of a registered MIG missing from the
\* index, regenerates the index entries of that MIG.  ret records only the
\* results of Refresh, CreateNodePool and DeleteNodePool.
GetMigForInstance ==
    /\ pc = "idle" /\ ~stopped
    /\ \E m \in Registered \ index : index' = index \cup {m}
    /\ ret' = "none"
    /\ UNCHANGED <<cloudVars, registry, locs, machines, limiter, lrAge,
                   machAge, regenAge, pc, caller, target, changed, reply,
                   stopped, deleted>>

\* clearMachinesCache empties the machine-type cache once its interval
\* has passed.
ClearMachinesCache ==
    /\ pc = "idle" /\ ~stopped
    /\ machAge >= MachinesRefreshInterval
    /\ machines' = {} /\ machAge' = 0
    /\ ret' = "none"
    /\ UNCHANGED <<cloudVars, registry, index, locs, limiter, lrAge,
                   regenAge, pc, caller, target, changed, reply, stopped,
                   deleted>>

\* Cleanup closes the interrupt channel, which stops the goroutine.
Cleanup ==
    /\ pc = "idle" /\ ~stopped
    /\ stopped' = TRUE
    /\ ret' = "none"
    /\ UNCHANGED <<cloudVars, registry, index, locs, machines, limiter, lrAge,
                   machAge, regenAge, pc, caller, target, changed, reply,
                   deleted>>

-----------------------------------------------------------------------------
(* The goroutine, GKE and time.                                            *)

\* wait.Until runs RegenerateInstancesCache at once and then an interval
\* after each run ends, until the interrupt channel is closed; it takes the
\* cache mutex, so it runs between two cache calls of the loop.
RegenerateInstancesCache ==
    /\ ~stopped
    /\ regenAge >= RegenerateInterval
    /\ index' \in RegenerateResults
    /\ regenAge' = 0
    /\ ret' = "none"
    /\ UNCHANGED <<cloudVars, registry, locs, machines, limiter, lrAge,
                   machAge, pc, caller, target, changed, reply, stopped,
                   deleted>>

\* The user or GKE creates, resizes or deletes a node pool, or changes the
\* cluster's locations or limits.
CloudChanged ==
    /\ \/ \E p \in Pools, c \in Configs \cup {None} :
             /\ c # cloud[p]
             /\ cloud' = [cloud EXCEPT ![p] = c]
             /\ deleted' = IF c = None THEN deleted ELSE deleted \ {p}
             /\ UNCHANGED <<cloudLocs, cloudLimit>>
       \/ /\ cloudLocs' \in SUBSET Locations \ {cloudLocs}
          /\ UNCHANGED <<cloud, cloudLimit, deleted>>
       \/ /\ cloudLimit' \in (Limits \cup {None}) \ {cloudLimit}
          /\ UNCHANGED <<cloud, cloudLocs, deleted>>
    /\ ret' = "none"
    /\ UNCHANGED <<registry, index, locs, machines, limiter, lrAge, machAge,
                   regenAge, pc, caller, target, changed, reply, stopped>>

Older(a, d) == IF a < d THEN a + 1 ELSE d

AdvanceTime ==
    /\ lrAge' = Older(lrAge, RefreshInterval)
    /\ machAge' = Older(machAge, MachinesRefreshInterval)
    /\ regenAge' = Older(regenAge, RegenerateInterval)
    /\ ret' = "none"
    /\ UNCHANGED <<cloudVars, registry, index, locs, machines, limiter, pc,
                   caller, target, changed, reply, stopped, deleted>>

-----------------------------------------------------------------------------
\* CreateGkeManager: forceRefresh on an empty cache must succeed (or the
\* manager is not created); it registers the listed MIGs (up to a malformed
\* URL), regenerates the index if it registered any, fetches the machine
\* types of every location, sets lastRefresh and starts the goroutine.
Init ==
    /\ cloud \in [Pools -> Configs \cup {None}]
    /\ cloudLocs \in SUBSET Locations
    /\ cloudLimit \in Limits \cup {None}
    /\ reply = Snapshot(cloud)
    /\ LET L == Listed(cloud) IN
       \E done \in SUBSET (L \ Malformed) :
          /\ L \cap Malformed = {} => done = L
          /\ registry = [m \in Migs |-> IF m \in done THEN cloud[MigPool[m]]
                                                      ELSE None]
          /\ index \in IF L \cap Malformed = {} THEN SUBSET done ELSE {{}}
    /\ locs = cloudLocs /\ machines = cloudLocs
    /\ limiter = IF NapMode /\ cloudLimit # None THEN cloudLimit ELSE None
    /\ lrAge = 0 /\ machAge = 0 /\ regenAge = RegenerateInterval
    /\ pc = "idle" /\ caller = "refresh" /\ target = None
    /\ changed = FALSE /\ ret = "none" /\ stopped = FALSE /\ deleted = {}

Next ==
    \/ Refresh \/ CreateNodePool \/ DeleteNodePool \/ GetMigForInstance
    \/ ClearMachinesCache \/ Cleanup
    \/ RegisterNodePools \/ UnregisterMissingMigs \/ RegenerateAfterRefresh
    \/ FinishForceRefresh \/ FinishCreateNodePool \/ FinishDeleteNodePool
    \/ RegenerateInstancesCache \/ CloudChanged \/ AdvanceTime

Spec == Init /\ [][Next]_vars

-----------------------------------------------------------------------------
(* Properties.  They are stated when the loop is between manager calls     *)
(* (pc = "idle"), which is when the autoscaler reads the registry.         *)

\* Whenever the loop is between calls, the instance index names only
\* registered MIGs: GetMigForInstance never answers with a MIG that
\* refreshNodePools unregistered, even when the hourly goroutine indexed
\* it in the middle of the refresh.
IndexNamesOnlyRegistered == pc = "idle" => index \subseteq Registered

\* After a refresh whose description has no malformed URL, the registry is
\* exactly the listed MIGs with their listed configurations: MIGs of
\* deleted pools are gone and changed pools are re-registered.
RegistryReflectsCleanListing ==
    pc = "idle" /\ Listed(reply.pools) \cap Malformed = {}
        => registry = ConfigOf(reply.pools)

\* spec.md, error handling: every collaborator error aborts the tick.  Then
\* a forceRefresh that returns nil and sets lastRefresh has removed every
\* MIG that the cluster description it fetched no longer lists.
RefreshRecordedOnlyWhenSynced ==
    [][pc = "finish" /\ caller = "refresh" /\ ret' = "ok" =>
          \A m \in Migs : registry'[m] # None => m \in Listed(reply.pools)]_vars

\* spec.md, cloud provider interface: Refresh re-syncs the provider's view
\* before each tick.  Then a Refresh that returns nil leaves no MIG of a
\* node pool the autoscaler itself deleted registered.
RefreshForgetsDeletedPools ==
    ret = "ok" /\ caller = "refresh" =>
        \A m \in Registered : MigPool[m] \notin deleted
=============================================================================
