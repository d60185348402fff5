# TLA+ verification of the cluster-autoscaler control loop

This directory holds TLA+ models of the cluster-autoscaler in `src/`, TLC
configurations that model-check them on small instances, and TLAPS proofs of
their main safety properties for every value of the constants.

## The system and its parts

The repository holds code from several components. The first column says
whether the code is under `src/`.

| Part | Code under `src/` | What it does |
|---|---|---|
| Orchestrator `StaticAutoscaler.RunOnce` | `core/static_autoscaler.go` | One tick of the control loop. It runs startup taint cleanup, takes a node snapshot, applies the registry, unregistered-node removal, the health gate and size fixing, then scales up, or else scales down. |
| Cluster State Registry | no (spec §4.2) | Tracks per-group sizes, unregistered nodes, health and backoff. |
| Scale-Up Planner | no (spec §4.3) | Picks one group and a node count, capped by the group maximum and by `--max-nodes-total`. |
| Scale-Down Engine | no (spec §4.4) | Tracks unneeded nodes, picks an eligible node, taints it ToBeDeleted and deletes it in a goroutine. |
| Schedulability Simulator | no (spec §4.1) | A pure fit predicate. |
| GKE manager | `cloudprovider/gke/gke_manager.go` | MIG registry refresh with a one-minute TTL, machine-type cache, node-pool create and delete, and an hourly instance-cache goroutine. |
| GCE cache | no (used by the GKE manager) | The registry of MIGs, the instance-to-MIG index and the machine-type cache, behind one mutex. |
| VPA recommender model | `vertical-pod-autoscaler/pkg/recommender/model/vpa.go` | A VPA's conditions (with their transition times), its linked container aggregations and its recommendation. |
| VPA recommender loop | `vertical-pod-autoscaler/pkg/recommender/routines/recommender.go` | `RunOnce`: load VPAs and pods through the feeder, compute and write recommendations (`UpdateVPAs`), store and GC checkpoints, GC aggregations. |
| ClusterState and ClusterStateFeeder | no (used by the recommender) | The recommender's in-memory cluster state and the code that fills it from the API. |
| VPA updater main | `vertical-pod-autoscaler/pkg/updater/main.go` | A ticker loop around `updater.RunOnce`. |

### How the parts interact

`RunOnce` is single-threaded. Only two things run beside it:

- **The deletion goroutine.** The scale-down engine starts it. It drains and deletes one node, then clears the in-progress flag. `RunOnce` reads that flag at line 367.
- **The cloud provider and the scheduler.** They change the cluster between ticks.
- **The GKE manager's goroutine.** `CreateGkeManager` starts it (line 251). Every hour it regenerates the GCE cache's instance index. It shares the cache with the loop, which calls `Refresh` at the start of each tick and `CreateNodePool`/`DeleteNodePool` from scale-up and scale-down. The cache mutex makes each cache call atomic, but a refresh is several of them.

In the VPA, the recommender's `RunOnce` is single-threaded, but the VPA objects change through the API between and during its phases: `LoadVPAs` takes a listing (`ObservedVpas`) that `UpdateVPAs` uses later. The updater's `main` is one goroutine reading a `time.Tick` channel that the runtime fills every interval; the health check reads the last activity from another goroutine.

The process can die at any point. Its in-memory state is lost: the cooldown clocks, the unneeded marks, the registry and `initialized`. What survives is what the provider and the API server hold: instances, target sizes and taints.

## Inventory: state, operations and hazards of the orchestrator

**State.** The model keeps this state, named after the code:

- the `StaticAutoscaler` fields `lastScaleUpTime`, `lastScaleDownDeleteTime`, `lastScaleDownFailTime` and `initialized`;
- the scale-down engine's `unneededNodes` and delete-in-progress status;
- the registry's record of incorrect group sizes;
- the environment: instance states (absent, unregistered, unready, ready), group target sizes, pending pods and the ToBeDeleted taints.

**Operations.** These change state:

- `NewStaticAutoscaler`, `cleanUpIfRequired`, each exit path of `RunOnce`, the deletion goroutine and a process restart;
- the environment's steps: time passing, instance creation, registration, readiness changes, pod creation and pod scheduling.

**Hazards.** `PROJECT.json` lists each hazard at its source line. The main ones:

- **Cooldowns.** They must survive restarts, and a scale-up in the same tick must block scale-down.
- **Stale unneeded marks.** They must be dropped on every unhealthy, empty or failed tick.
- **Overlapping deletions.** A new deletion must not start while the goroutine of the previous one still runs. The model keeps the `IsDeleteInProgress` guard; no run states it on its own, since such a property would only restate the guard.
- **Stale taints after a crash.**
- **Partial failures of the removal and fix loops.**
- **The `--max-nodes-total` ceiling.**

## Modules

- **`StaticAutoscaler.tla`** is the orchestrator, together with the parts of the registry, planner and engine whose state it reads and writes.
  - **Actions.** There is one action per exit path of `RunOnce`:
    - `RunOnceEmptyCluster` (lines 448-462);
    - `RunOnceUpdateNodesFailed` (464-480);
    - `RunOnceRemoveUnregistered` (173-194);
    - `RunOnceUnhealthy` (195-200);
    - `RunOnceFixNodeGroupSize` (202-213);
    - `RunOnceMain` (215-398). It splits into `ScaleUpPhase` (261-321) and `ScaleDownPhase` (323-397).
  - **Other operations.** `CleanUpIfRequired` (102-116) and `Init` (`NewStaticAutoscaler`, 70-100) are actions too. So are `DeleteNodeFinished` (the deletion goroutine) and `Restart`. The environment's steps are actions as well.
  - **Error exits that change nothing are stutters.** These are list failures, a failed `Refresh`, and a failed daemonset or PDB listing.
  - **Error exits that change something keep their effect.** An `UpdateNodes` failure clears the unneeded marks. A scale-down error sets `lastScaleDownFailTime`.
- **`GkeManager.tla`** is the GKE manager and the part of the GCE cache it drives.
  - **State.** `registry` is `cache.migs`; `index` is the set of MIGs whose instances are in `instancesCache`; `machines`, `locs` and `limiter` are the other caches. `lrAge` and `machAge` are the ages of `lastRefresh` and `machinesCacheLastRefresh`. `cloud`, `cloudLocs` and `cloudLimit` are what GKE holds.
  - **The loop's calls.**
    - `Refresh` (473-479) skips while `lastRefresh` is young; otherwise it starts `forceRefresh` with `GetCluster` (495-499).
    - `refreshNodePools` is split at its cache calls, with `pc` recording where it is: `RegisterNodePools` (272-301, with `registerMig` 319-330 and the template fetch 589-626), `UnregisterMissingMigs` (302-308), then `RegenerateAfterRefresh` (308-311).
    - `FinishForceRefresh` (481-493) applies the limits and locations (536-546), runs `RefreshMachinesCache` (375-397) and sets `lastRefresh`.
    - `CreateNodePool` (347-372) and `DeleteNodePool` (333-344) call GKE, then run the same refresh and end in `FinishCreateNodePool` and `FinishDeleteNodePool`.
    - `ClearMachinesCache` (553-563) and `Cleanup` (260-264) are actions too.
  - **The goroutine.** `RegenerateInstancesCache` (251-255) may run between any two steps of the loop.
  - **The GCE cache.** It is not in the repository, so its semantics come from how the manager uses it:
    - `RegisterMig` reports a change for a new MIG or a changed configuration;
    - `UnregisterMig` touches only `cache.migs`;
    - `RegenerateInstancesCache` clears the index, then fills it MIG by MIG and stops at the first error;
    - `GetMigForInstance` re-indexes a registered MIG that is missing from the index.
  - **Errors.** Every GKE call may fail. A URL that `ParseIgmUrl` rejects is a constant set `Malformed`.
- **`VpaRecommender.tla`** is the recommender loop and the VPA model.
  - **State.** `apiVpas`, `apiSel` and `apiStatus` are the VPA objects at the API server; `observed` and `obsStatus` are `ObservedVpas`; `vpas`, `sel`, `aggs`, `initAgg`, `rec` and `conds` are the model `Vpa`s of `ClusterState.Vpas`; `aggKeys` are the cluster state's aggregations; `lastGC` and `lastCpGC` are the two GC timers; `pc` is the phase of `RunOnce` (165-193).
  - **vpa.go.** `Set` (32-53) keeps the transition time when the condition is present with the same status; `AsList` (55-67) sorts by type; `UseAggregationIfMatching` (110-116) with `UsesAggregation` and `matchesAggregation` (154-160, namespace first, nil selector matches nothing); `DeleteAggregations` (124-127); `AggregateStateByContainerName` with `MergeCheckpointedState` (129-147); `HasRecommendation` (149-152).
  - **recommender.go.** `Init` is `Make` (208-224) after the feeder's checkpoint load; `UpdateVPAs` (85-118) computes the recommendation for each observed VPA the model has, sets `RecommendationProvided` when it is non-empty and writes the status when it differs from the listed one, a write that may fail; `MaintainCheckpoints` (145-155) and `GarbageCollect` (157-163) run their interval timers.
  - **Feeder and ClusterState, from their behaviour at vpa.go's interface.** `LoadVPAs` recreates with `NewVpa` a VPA that is new or whose selector changed and links the known aggregations; `LoadPods` adds aggregations and links them to the matching VPAs; the aggregation GC expires any subset. The environment creates, deletes and re-selects VPA objects and advances time.
  - **Abstraction.** A recommendation is the set of container names it covers (`getCappedRecommendation`, 120-143, keeps one entry per aggregated container name); resource values and policies are left out because no guard reads them.
- **`VpaUpdater.tla`** is `updater/main.go` (48-66). `Init` is `NewHealthCheck` (line 52), whose last activity is the start. `Startup` is one time unit of `metrics.Initialize`, `createKubeClients` and `NewUpdater` (53-57), during which the health check is already served; the startup lasts at most `MaxStartup` units. `Start` is `NewUpdater` succeeding, which starts `time.Tick` with a fresh period, or `glog.Fatalf`. `Tick` is one time unit of the loop, firing the ticker every `UpdaterInterval` into a one-slot channel that drops ticks when full; `Receive` takes the tick and starts `RunOnce`; `Finish` ends it and calls `UpdateLastActivity`. `RunOnce` (not in the repository) lasts at most `MaxRunOnce` units.
- **`MCStaticAutoscaler.tla`** holds the model values, the finite instances of the constants, and the ceiling invariant used by the `max_nodes_total` run.
- **`MCGkeManager.tla`** holds the GKE instances: pool `p1` with MIGs `m1` and `m2`, where `m2`'s URL is malformed, and an autoprovisioned pool `p2` with MIG `m3`.
- **`MCVpaRecommender.tla`** and **`MCVpaUpdater.tla`** hold the VPA instances: one VPA, two pod keys in two namespaces, selectors matching both keys, one key or none; and an interval of 3 units with a startup of up to 2 units and runs of up to 10.
- **`StaticAutoscaler_proofs.tla`**, **`GkeManager_proofs.tla`**, **`VpaRecommender_proofs.tla`** and **`VpaUpdater_proofs.tla`** hold the TLAPS proofs.

### Abstractions

- **Time.** The code only compares timestamps as `t.Add(d).After(now)`, which means `now - t < d`. So each timestamp is kept as its age, saturated at the delay it is compared with. `AdvanceTime` ages everything by one unit. Several ticks may happen in one unit.
- **Simulator decisions.** Which pending pods fit on existing nodes, which are waiting for preemption, and which candidates are unneeded are all nondeterministic choices. Every answer the simulator could give is explored.
- **Scale-up.** `ScaleUp` chooses one group and a count up to the group's room. It caps the count by `--max-nodes-total` minus the ready nodes it is given.
- **Scale-down.** `TryToScaleDown` either deletes one eligible node, finds nothing, or fails.

### History variables

`hUp`, `hDel`, `hFail` and `obs` record what really happened:

- `hUp`: the last successful scale-up;
- `hDel`: the last started deletion;
- `hFail`: the last failed scale-down;
- `obs`: for each node, the run of ticks that found it unneeded.

The properties are stated over these variables, not over the implementation's clocks. A bug that forgets to update or reset an implementation clock therefore breaks a property.

## Runs

| Run | cfg | Expect | Shows |
|---|---|---|---|
| `autoscaler_safety` | `MCStaticAutoscaler.cfg` | pass | With two instance slots in one group (min 0, max 2) and two pods (one GPU), crashes, failures and the goroutine interleaving included: `TypeOK`; `ScaleDownRespectsCooldowns`; `DeletionOnlyAfterUnneededTime`. About 700,000 distinct states in about 70 s. |
| `stale_taint` | `MCStaleTaint.cfg` | violation | `NoStaleToBeDeletedTaint`: a deletion starts, the process restarts, and `cleanUpIfRequired` fails to list. The taint then stays for the rest of that process's life: `cleanUpIfRequired` runs once per process. |
| `max_nodes_total` | `MCMaxNodesTotal.cfg` | violation | `TotalNodesWithinLimit`: with three slots and a ceiling of 2, one node is ready. A scale-up raises the target to 2, and on the next tick the requested instance does not exist yet, so `len(readyNodes)` is still 1 and a second scale-up raises the target to 3. Both instances then appear, unregistered, and the group has three. |

| `gke_cache` | `MCGkeManager.cfg` | pass | `TypeOK`; `IndexNamesOnlyRegistered`: between calls, the instance index names only registered MIGs, although the goroutine may index a MIG that the removal loop unregisters right after; `RegistryReflectsCleanListing`: after a refresh from a listing with no malformed URL, the registry is exactly that listing. About 3.5 million distinct states in about 55 s. |
| `gke_malformed_url` | `MCGkeMalformedUrl.cfg` | violation | `RefreshRecordedOnlyWhenSynced`: construction registers `m3` and stops at `m2`'s URL; `DeleteNodePool` deletes `p2` and its refresh fails; the next `Refresh` fetches a description without `p2`, stops at `m2` again before the removal loop, and `forceRefresh` still sets `lastRefresh` and returns nil with `m3` of the deleted pool registered. |
| `vpa_recommender` | `MCVpaRecommender.cfg` | pass | `TypeOK`; `UsedAggregationsMatch`: a model VPA uses only aggregations that exist and match its namespace and current selector, through selector changes, recreation and GC. About 800,000 distinct states in about 15 s. |
| `vpa_recommendation_provided` | `MCVpaRecommendationProvided.cfg` | violation | `RecommendationProvidedMeansRecommendation`: pods give a recommendation, the aggregation expires, and the next `UpdateVPAs` writes an empty recommendation with `RecommendationProvided` still True. |
| `vpa_updater` | `MCVpaUpdater.cfg` | pass | `TypeOK`; `HealthCheckPasses`: with a startup of 2 units and runs of up to 10, the health check never fails from `metrics.Initialize` until the process exits. |
| `gke_deleted_pool` | `MCGkeDeletedPool.cfg` | violation | `RefreshForgetsDeletedPools`: `DeleteNodePool` deletes `p2`, its refresh fails, and the next `Refresh` is skipped by the TTL and returns nil with `m3` still registered. |

### Why these bounds are enough

- **Two slots** give every interleaving of one deletion with a second node's readiness change. This is what the health gate (`OkTotalUnreadyCount = 0`, 45 %) and the unneeded tracking need.
- **The delays are 1 and 2**, so every cooldown is seen both running and elapsed. `ScaleDownDelayAfterAdd = 2` and `ScaleDownUnneededTime = 2` are longer than one unit, so a tick can fall inside a window.
- **`MaxNodeProvisionTime = 1`** lets unregistered removal and size fixing happen.
- **The pod buffers are 2 and 3**, so the GPU rule of `allPodsAreNew` matters.
- **A three-slot pass run** took 13 minutes. It is used only for the ceiling violation.
- **GKE.** Two pools give a pool that stays and a pool that is deleted and re-created. Two MIGs in `p1` give a listing that aborts half-way through a pool. The intervals 1 (refresh) and 2 (machine types, goroutine) let a call fall both inside and outside each TTL.
  - The pass run uses one location and one pool configuration. With two of each it ran past 44 million states in 15 minutes.
  - With one configuration, a re-registration can come only from a pool that was deleted and re-created, not from a resize. The violation runs use two locations and two configurations.

- **VPA recommender.** One VPA is enough: VPAs interact only through the shared aggregations, and each VPA's links and conditions depend only on its own selector. Two keys in two namespaces and three selectors (both, one, nil) give a match, a namespace mismatch and a nil selector. `MaxTime = 4` with GC intervals of 1 lets both timers fire and not fire, and a condition be set again at a later time. With two VPAs the run passed 54 million states in 21 minutes.
- **VPA updater.** The worst case before an activity is the startup, the ticker's first period and a maximal run: `MaxStartup + UpdaterInterval + MaxRunOnce = 2 + 3 + 10 = 15`, exactly the timeout of five intervals. With `MaxRunOnce = 11` TLC finds the health check failing, so the run sits on the boundary; the mutant with a four-interval timeout breaks it too. Runs that long overrun the ticker, so dropped ticks and an immediate next run happen. The bound is in units of the model: for the program it says that the startup and the longest run together must take at most four intervals.

### Fairness and deadlock

Every property checked is a safety property, and no specification assumes fairness. Deadlock is checked in every run: time can always advance, GKE can always change, and an exited updater stutters in `Exited`.

## Findings

1. **The ceiling counts only ready nodes** (`static_autoscaler.go:280`, with `ScaleUp` given `readyNodes` at line 302). Instances that an earlier scale-up requested but that are not yet created, registered or ready do not count toward `--max-nodes-total`, so two scale-ups in a row overshoot it. The cluster can therefore exceed the ceiling that spec §4.3 and §4.5 step 8 promise.
2. **`cleanUpIfRequired` can leave a ToBeDeleted taint for the life of the process** (`static_autoscaler.go:110-115`). It lists only ready nodes, and it sets `initialized` even when listing fails. A taint left by a crashed run on an unready node, or after one listing error, is not removed until a later restart runs `cleanUpIfRequired` again. This goes against the comment at line 109 and spec §4.5 step 1.

3. **The error of `refreshNodePools` is ignored** (`gke_manager.go:500`). A malformed instance-group URL ends the registration loop early, before the removal loop. The MIGs of deleted pools then stay registered, and the index is not regenerated. `forceRefresh` still sets `lastRefresh` and returns nil, against the error policy of spec.md.
4. **A failed refresh after `DeleteNodePool` is hidden by the TTL** (`gke_manager.go:475`). The pool is gone at GKE, but `DeleteNodePool` returns an error and `lastRefresh` is untouched. For up to `refreshInterval`, `Refresh` returns nil without asking GKE, and the deleted pool's MIG stays registered. spec.md says `Refresh` re-syncs the provider before each tick.

5. **`RecommendationProvided` is never cleared** (`recommender.go:103`). It is set to True when the recommendation is non-empty and nothing sets it to False. When the VPA's aggregations expire, `UpdateVPAs` writes an empty recommendation with the condition still True and its old transition time, against what the condition's name and the comment at line 102 say.

## Proofs

`StaticAutoscaler_proofs.tla` proves the following for every value of the constants. The only assumption is `ConstantsAssumption`: finite sets, natural-number delays and sizes, `MinSize <= MaxSize`, and `None` not a number.

- `TypeCorrect: Spec => []TypeOK`. The inductive invariant `IInv` adds two facts to `TypeOK`:
  - `TargetCoversInstances`: a group never has more instances than its target. This is needed because the deletion goroutine, a restart and `removeOldUnregisteredNodes` lower a target. The invariant shows that the result is still a natural number.
  - `DeletingRegistered`: a node being deleted is registered, so it is one of the instances counted.

  There is one lemma per action. `RemoveInstance` covers the shared "delete one instance, target - 1" step. The proofs rest on the `FiniteSetTheorems` cardinality facts.
- `CooldownsRespected` and `UnneededTimeRespected` prove the two action properties of the pass run. They follow from `SafetyInv`, which is `IInv` plus two facts:
  - `CooldownsTracked`: each implementation cooldown age is at most the history's age. A restart resets only the former.
  - `UnneededTracked`: each unneeded mark is at most as old as the observed run.

  `ScaleDownPhaseSafe` is the core step: a deletion starts only when no cooldown runs and nothing is being deleted, and then the history's clocks have run out too. TLC checked `SafetyInv` as an invariant of the pass run before it was proved.

`GkeManager_proofs.tla` proves, from `GkeConstantsAssumption` (MIGs map to pools and zones, positive natural intervals, `None` distinct from the configurations and limits):

- `GkeTypeCorrect: Spec => []TypeOK`;
- `IndexConsistent: Spec => []IndexNamesOnlyRegistered`;
- `RegistryConsistent: Spec => []RegistryReflectsCleanListing`.

The inductive invariant `GInv` is `TypeOK` plus two facts:

- **`IndexInv`.** The index names only registered MIGs except at `pc = "regenerate"`. The goroutine may index a MIG that the removal loop then unregisters, but that loop always goes on to regenerate when it removed something.
- **`ListingInv`.** Between the two loops, the listed MIGs already have their listed configurations. After the removal loop of a clean listing, the registry is that listing.

There is one lemma per action. TLC checked both facts on the `gke_cache` run before they were proved.

`VpaRecommender_proofs.tla` proves, from `VpaConstantsAssumption`:

- `AggregationsMatch: Spec => []UsedAggregationsMatch`. The property spells out namespace, nil selector and selector match on its own, so a `matchesAggregation` that skips the namespace check breaks it (the mutant `matchesAggregationAnyNamespace`). The inductive invariant `AInv` is `LinkedMatch`, the same fact through `matchesAggregation`, with the types of the VPA and selector variables. Each step that links checks the VPA's current selector (`LinkAggregationsMatch`), `LoadVPAs` relinks a VPA whose selector changed from scratch, and the GC removes a key from the cluster state and every VPA together.
- `RecommenderTypeCorrect: Spec => []TypeOK`. `TypeOK` alone is not inductive: `UpdateVPAs` writes `AsList` of a VPA's condition map, and `AsList` counts the map's types, so only a finite map is known to give a sequence of conditions. The inductive invariant `TInv` adds that every condition map has a finite domain. `Set` adds one type (`FS_AddElement`) and `NewVpa` starts empty. The lemma `AsListType` rests on `PosOnto`. `pos(t)`, one more than the number of types ranked below `t`, is injective because `TypeRank` is (`BelowStrict`). It maps into `1..n` (`BelowBound`), so by `FS_Injection` it is onto `1..n`, and every `CHOOSE` in `AsList` finds its type. TLC checked `TInv` on the `vpa_recommender` run first.
- `AsListSorted`: for every finite map of conditions keyed by their type, `AsList` has one entry per condition, puts the condition of type `t` at `pos(t)`, and is strictly sorted by type rank. This holds for any set of condition types. The recommender itself only sets `RecommendationProvided`, so no run can show the sorting.

`VpaUpdater_proofs.tla` proves, from `UpdaterConstantsAssumption` and, for the second, `RunsFitHealthTimeout` (`MaxStartup + MaxRunOnce <= 4 * UpdaterInterval`):

- `UpdaterTypeCorrect: Spec => []TypeOK`;
- `HealthCheckAlwaysPasses: Spec => []HealthCheckPasses`.

The invariant `UInv` bounds the activity age. During startup there is no tick and the age is at most `MaxStartup`. During a run it is at most the startup, one interval and the run's age; while waiting with an empty channel at most the startup and the ticker's phase; with a tick waiting at most the startup and one interval. The startup matters only before the first activity, but keeping it in every bound makes the invariant one formula. `HealthCheckPasses` alone is not inductive, because it does not say where in the ticker's period the loop is.

Every invariant and action property of the passing runs is a theorem, proved for every value of the constants. TLC alone checks the violation runs, whose properties are false. `HealthCheckAlwaysPasses` holds only under `RunsFitHealthTimeout`. The mutant `HealthTimeoutFour` and the run with `MaxRunOnce = 11` show that the bound is needed; TLAPS cannot prove that a behaviour exists, so that side is TLC's.

## Not modelled, and the plan

- **GKE manager, not modelled:**
  - `SetMigSize`, `DeleteInstances`, `GetMigSize` and `GetMigNodes` only forward to the GCE API on target sizes and instances, which `GkeManager` does not hold;
  - the getters change nothing.

  `DeleteInstances` relies on `GetMigForInstance` returning a MIG. Modelling instances would let it be checked together with `IndexNamesOnlyRegistered`.
- **VPA, not modelled.** `ClusterState` and the feeder are not in the repository; only their calls into `vpa.go` are modelled. Checkpoint contents, the checkpoint-write deadline, the recommendation's resource values, `ResourcePolicy` capping and metrics are data no guard reads. A recommender restart only re-runs `Make` and the checkpoint load, which `Init` already covers. The updater's own logic (`updater.RunOnce`) is not in the repository.
- **Stale status comparison** (`recommender.go:111`). A status written between `LoadVPAs` and `UpdateVPAs` is not seen until the next loop; no property of the code states what should hold in between.
- **Registry backoff** (spec §4.2) is not in `src/`. It can be added from the spec.
- **Unregistered removal and the group minimum.** `removeOldUnregisteredNodes` is not under `src/`; the model follows spec §4.5 step 4, which deletes every instance unregistered for longer than the provisioning time and says nothing of the group's minimum size. The runs use `MinSize = 0`, where the two agree.
- **The feeder.** `LoadVPAs` and `LoadPods` are modelled from the feeder's behaviour at `vpa.go`'s interface, since the feeder is not in the repository.
- **Liveness of deletions.** Deletions end when the deletion goroutine returns; its drain and delete code is not under `src/`, so such a property would only restate a fairness assumption.
- **A refinement of the orchestrator.** An abstract "scale-down promise" specification, with `StaticAutoscaler` shown to implement it.
- **Left out on purpose:**
  - the Simulator: a pure predicate, abstracted to nondeterministic choice;
  - metrics, status config maps and event recording: I/O;
  - flag parsing and client construction;
  - tests and e2e helpers.
