-------------------------- MODULE StaticAutoscaler --------------------------
(***************************************************************************)
(* The cluster-autoscaler control loop, StaticAutoscaler.RunOnce           *)
(* (core/static_autoscaler.go), together with the parts of its            *)
(* collaborators whose state it reads and writes: the cluster state        *)
(* registry (unregistered nodes, incorrect node-group sizes, health), the  *)
(* scale-up planner, the scale-down engine (unneeded-node tracking, the    *)
(* asynchronous node deletion and its ToBeDeleted taint) and the cloud     *)
(* provider and scheduler that change the cluster between ticks.           *)
(*                                                                         *)
(* Time.  Every timestamp of the code is compared only as "t + d after     *)
(* now", i.e. "now - t < d".  The model therefore keeps, instead of each   *)
(* timestamp t, the age now - t, saturated at the largest delay it is      *)
(* compared with (Older); AdvanceTime ages everything by one unit.  A tick *)
(* of RunOnce runs at the current time; several ticks may share a unit,    *)
(* because the scan interval is far shorter than the delays.               *)
(***************************************************************************)
EXTENDS Naturals, FiniteSets

CONSTANTS
    Nodes,            \* instance slots of the node groups
    Groups,           \* node groups
    NodeGroupOf,      \* the node group an instance slot belongs to
    MinSize, MaxSize, \* per-group size limits
    Pods,             \* pods that can become unschedulable
    GpuPods,          \* the pods among them that request a GPU
    MaxNodesTotal,    \* --max-nodes-total, 0 means no limit
    ScaleDownEnabled,
    ScaleDownDelayAfterAdd, ScaleDownDelayAfterDelete,
    ScaleDownDelayAfterFailure, ScaleDownUnneededTime,
    NewPodScaleUpDelay,
    UnschedulablePodTimeBuffer, UnschedulablePodWithGpuTimeBuffer,
    MaxNodeProvisionTime,
    OkTotalUnreadyCount, MaxTotalUnreadyPercentage,
    None              \* an absent timestamp

ASSUME ConstantsAssumption ==
    /\ IsFiniteSet(Nodes) /\ IsFiniteSet(Groups) /\ IsFiniteSet(Pods)
    /\ NodeGroupOf \in [Nodes -> Groups]
    /\ MinSize \in [Groups -> Nat] /\ MaxSize \in [Groups -> Nat]
    /\ \A g \in Groups : MinSize[g] <= MaxSize[g]
    /\ GpuPods \subseteq Pods
    /\ MaxNodesTotal \in Nat
    /\ ScaleDownEnabled \in BOOLEAN
    /\ {ScaleDownDelayAfterAdd, ScaleDownDelayAfterDelete,
        ScaleDownDelayAfterFailure, ScaleDownUnneededTime,
        NewPodScaleUpDelay, UnschedulablePodTimeBuffer,
        UnschedulablePodWithGpuTimeBuffer, MaxNodeProvisionTime,
        OkTotalUnreadyCount, MaxTotalUnreadyPercentage} \subseteq Nat
    /\ None \notin Nat

VARIABLES
    node,        \* node[n]: "absent", "unregistered", "unready" or "ready"
    provAge,     \* age of an unregistered instance (0 otherwise)
    taint,       \* taint[n]: the node carries the ToBeDeleted taint
    target,      \* target size of each node group at the cloud provider
    podAge,      \* age of an unschedulable pod, None if it is not pending
    unneeded,    \* ScaleDown.unneededNodes: age of the "unneeded since" mark
    deleting,    \* nodes whose deletion goroutine is running
    sinceUp,     \* now - lastScaleUpTime
    sinceDel,    \* now - lastScaleDownDeleteTime
    sinceFail,   \* now - lastScaleDownFailTime
    incorrect,   \* registry: group size seen below target, and since when
    initialized, \* StaticAutoscaler.initialized
    \* History of what happened, for stating the properties.
    hUp,         \* age of the last successful scale-up, None if none
    hDel,        \* age of the last start of a node deletion
    hFail,       \* age of the last failed scale-down
    obs          \* age of the run of ticks that found n unneeded

envVars == <<node, provAge, podAge>>
scaleUpVars == <<target, sinceUp, hUp>>
scaleDownVars == <<unneeded, obs, deleting, taint, sinceDel, sinceFail,
                   hDel, hFail>>
vars == <<node, provAge, taint, target, podAge, unneeded, deleting, sinceUp,
          sinceDel, sinceFail, incorrect, initialized, hUp, hDel, hFail, obs>>

NodeStates == {"absent", "unregistered", "unready", "ready"}
\* Pod ages are compared with NewPodScaleUpDelay (>) and the two buffers (<).
PodAgeCap ==
    LET a == NewPodScaleUpDelay + 1
        b == IF UnschedulablePodTimeBuffer > a THEN UnschedulablePodTimeBuffer
             ELSE a
    IN  IF UnschedulablePodWithGpuTimeBuffer > b
        THEN UnschedulablePodWithGpuTimeBuffer ELSE b
AgeOrNone(cap) == (0..cap) \cup {None}

\* One unit of time passes for a timestamp whose age is capped at cap.
Older(a, cap) == IF a = None \/ a >= cap THEN a ELSE a + 1
\* The time since t has reached d, i.e. t.Add(d).After(now) is false.
Elapsed(a, d) == a = None \/ a >= d

InGroup(g) == {n \in Nodes : NodeGroupOf[n] = g}
Existing(g) == {n \in InGroup(g) : node[n] # "absent"}
Registered == {n \in Nodes : node[n] \in {"unready", "ready"}}
ReadyNodes == {n \in Nodes : node[n] = "ready"}
Unregistered == {n \in Nodes : node[n] = "unregistered"}
Pending == {p \in Pods : podAge[p] # None}

TypeOK ==
    /\ node \in [Nodes -> NodeStates]
    /\ provAge \in [Nodes -> 0..(MaxNodeProvisionTime + 1)]
    /\ taint \in [Nodes -> BOOLEAN]
    /\ target \in [Groups -> Nat]
    /\ \A g \in Groups : target[g] <= MaxSize[g]
    /\ podAge \in [Pods -> AgeOrNone(PodAgeCap)]
    /\ unneeded \in [Nodes -> AgeOrNone(ScaleDownUnneededTime)]
    /\ obs \in [Nodes -> AgeOrNone(ScaleDownUnneededTime)]
    /\ deleting \subseteq Nodes
    /\ sinceUp \in 0..ScaleDownDelayAfterAdd
    /\ sinceDel \in 0..ScaleDownDelayAfterDelete
    /\ sinceFail \in 0..ScaleDownDelayAfterFailure
    /\ hUp \in AgeOrNone(ScaleDownDelayAfterAdd)
    /\ hDel \in AgeOrNone(ScaleDownDelayAfterDelete)
    /\ hFail \in AgeOrNone(ScaleDownDelayAfterFailure)
    /\ incorrect \in [Groups -> {None} \cup
                       [size : Nat, expected : Nat,
                        age : 0..(MaxNodeProvisionTime + 1)]]
    /\ initialized \in BOOLEAN

(***************************************************************************)
(* NewStaticAutoscaler: the three cooldown timestamps are time.Now(), so   *)
(* every cooldown starts running at startup.  The cluster is whatever the  *)
(* provider holds: each group has its target number of ready instances.    *)
(***************************************************************************)
Init ==
    /\ node \in [Nodes -> {"absent", "ready"}]
    /\ \A g \in Groups : Cardinality(Existing(g)) <= MaxSize[g]
    /\ MaxNodesTotal > 0 =>
          Cardinality({n \in Nodes : node[n] # "absent"}) <= MaxNodesTotal
    /\ target = [g \in Groups |-> Cardinality(Existing(g))]
    /\ provAge = [n \in Nodes |-> 0]
    /\ taint = [n \in Nodes |-> FALSE]
    /\ podAge = [p \in Pods |-> None]
    /\ unneeded = [n \in Nodes |-> None]
    /\ obs = [n \in Nodes |-> None]
    /\ deleting = {}
    /\ sinceUp = 0 /\ sinceDel = 0 /\ sinceFail = 0
    /\ incorrect = [g \in Groups |-> None]
    /\ initialized = FALSE
    /\ hUp = None /\ hDel = None /\ hFail = None

-----------------------------------------------------------------------------
(***************************************************************************)
(* Helpers of RunOnce.                                                     *)
(***************************************************************************)

\* ScaleDown.CleanUpUnneededNodes: forget every "unneeded since" mark.
CleanUpUnneededNodesKeepingSince ==
    /\ unneeded' = unneeded
    /\ obs' = [n \in Nodes |-> None]
    /\ UNCHANGED <<deleting, taint, sinceDel, sinceFail, hDel, hFail>>
CleanUpUnneededNodes ==
    /\ unneeded' = [n \in Nodes |-> None]
    /\ obs' = [n \in Nodes |-> None]
    /\ UNCHANGED <<deleting, taint, sinceDel, sinceFail, hDel, hFail>>

\* ClusterStateRegistry.UpdateNodes: a group whose instance count stays
\* below its target keeps the time the difference was first seen; a change
\* of either number restarts it.
UpdateIncorrectSizes ==
    incorrect' =
      [g \in Groups |->
         LET size == Cardinality(Existing(g)) IN
         IF size >= target[g] THEN None
         ELSE IF incorrect[g] # None /\ incorrect[g].size = size
                 /\ incorrect[g].expected = target[g]
              THEN incorrect[g]
              ELSE [size |-> size, expected |-> target[g], age |-> 0]]

\* ClusterStateRegistry.IsClusterHealthy.
IsClusterHealthy ==
    LET unready == Cardinality(Registered \ ReadyNodes) IN
    \/ unready <= OkTotalUnreadyCount
    \/ 100 * unready <= MaxTotalUnreadyPercentage * Cardinality(Registered)

\* Unregistered instances older than MaxNodeProvisionTime.
OldUnregistered == {n \in Unregistered : provAge[n] > MaxNodeProvisionTime}

\* Groups whose incorrect size has lasted longer than MaxNodeProvisionTime.
GroupsToFix == {g \in Groups : incorrect'[g] # None
                               /\ incorrect'[g].age > MaxNodeProvisionTime}

\* allPodsAreNew: the oldest pod, or the oldest GPU pod, is still inside
\* its time buffer.
AllPodsAreNew(S) ==
    \/ \A p \in S : podAge[p] < UnschedulablePodTimeBuffer
    \/ /\ S \cap GpuPods # {}
       /\ \A p \in S \cap GpuPods : podAge[p] < UnschedulablePodWithGpuTimeBuffer

\* filterOutYoungPods.
FilterOutYoungPods(S) == {p \in S : podAge[p] > NewPodScaleUpDelay}

\* ScaleUp caps the new node count by --max-nodes-total, counting the nodes
\* RunOnce passes in: the ready nodes.
CappedNewNodes(k) ==
    IF MaxNodesTotal > 0 /\ Cardinality(ReadyNodes) + k > MaxNodesTotal
    THEN MaxNodesTotal - Cardinality(ReadyNodes)
    ELSE k

\* ScaleUp asks for at most as many nodes as the group has room for.
ScaleUpDeltasWrong(g) == 1..(MaxSize[g] - target[g] + 1)
ScaleUpDeltas(g) == 1..(MaxSize[g] - target[g])

\* getPotentiallyUnneededNodes, restricted to ready nodes not being deleted.
ScaleDownCandidates ==
    {n \in ReadyNodes : n \notin deleting
                        /\ target[NodeGroupOf[n]] > MinSize[NodeGroupOf[n]]}

\* UpdateUnneededNodes with the set R of candidates whose pods all fit
\* elsewhere: R keeps its first "unneeded since", everything else is dropped.
KeepSince(a) == IF a = None THEN 0 ELSE a
UpdatedUnneeded(R) == [n \in Nodes |-> IF n \in R THEN KeepSince(unneeded[n])
                                                   ELSE None]
ObservedUnneeded(R) == [n \in Nodes |-> IF n \in R THEN KeepSince(obs[n])
                                                   ELSE None]

\* The cooldown part of scaleDownInCooldown.
ScaleDownInCooldownNoAdd(scaleDownForbidden) ==
    \/ scaleDownForbidden
    \/ sinceFail < ScaleDownDelayAfterFailure
    \/ sinceDel < ScaleDownDelayAfterDelete
ScaleDownInCooldown(scaleDownForbidden) ==
    \/ scaleDownForbidden
    \/ sinceUp < ScaleDownDelayAfterAdd
    \/ sinceFail < ScaleDownDelayAfterFailure
    \/ sinceDel < ScaleDownDelayAfterDelete

\* TryToScaleDown: the nodes unneeded for at least ScaleDownUnneededTime
\* in groups above their minimum size.
EligibleForDeletion(u) ==
    {n \in Nodes : /\ u[n] # None
                   /\ u[n] >= ScaleDownUnneededTime
                   /\ target[NodeGroupOf[n]] > MinSize[NodeGroupOf[n]]}

-----------------------------------------------------------------------------
(***************************************************************************)
(* The scale-down half of RunOnce (lines 323-397), given the              *)
(* scaleDownForbidden flag computed by the scale-up half.                  *)
(***************************************************************************)
TryToScaleDown(u) ==
    \/ \* a node is tainted and its deletion goroutine started
       \E n \in EligibleForDeletion(u) :
          /\ deleting' = {n}
          /\ taint' = [taint EXCEPT ![n] = TRUE]
          /\ unneeded' = [u EXCEPT ![n] = None]
          /\ sinceDel' = 0 /\ hDel' = 0
          /\ UNCHANGED <<sinceFail, hFail>>
    \/ \* ScaleDownNoUnneeded
       /\ unneeded' = u
       /\ UNCHANGED <<deleting, taint, sinceDel, sinceFail, hDel, hFail>>
    \/ \* error: lastScaleDownFailTime = currentTime
       /\ unneeded' = u
       /\ sinceFail' = 0 /\ hFail' = 0
       /\ UNCHANGED <<deleting, taint, sinceDel, hDel>>

\* A scale-down runs only out of cooldown and with no deletion in progress.
ScaleDownBlocked(scaleDownForbidden) ==
    ScaleDownInCooldown(scaleDownForbidden) \/ deleting # {}

ScaleDownPhase(scaleDownForbidden) ==
    \/ \* scale-down disabled, or listing the PDBs failed
       UNCHANGED scaleDownVars
    \/ /\ ScaleDownEnabled
       /\ \E R \in SUBSET ScaleDownCandidates :
            LET u == UpdatedUnneeded(R) IN
            /\ obs' = ObservedUnneeded(R)
            /\ IF ScaleDownBlocked(scaleDownForbidden)
               THEN /\ unneeded' = u
                    /\ UNCHANGED <<deleting, taint, sinceDel, sinceFail,
                                   hDel, hFail>>
               ELSE TryToScaleDown(u)

(***************************************************************************)
(* The scale-up half of RunOnce (lines 217-321), for the pending pods      *)
(* waiting for preemption and those FilterOutSchedulable finds a place     *)
(* for on an existing node.                                                *)
(***************************************************************************)
ScaleUpPhase(waiting, fits) ==
    LET toHelp == FilterOutYoungPods(Pending \ (waiting \cup fits))
        atMaxNodesTotal ==
            MaxNodesTotal > 0 /\ Cardinality(ReadyNodes) >= MaxNodesTotal
        tried == toHelp # {} /\ ~atMaxNodesTotal /\ ~AllPodsAreNew(toHelp)
        \* schedulable pods present, or pods too new: skip a real scale-down
        forbidden == \/ fits # {}
                     \/ toHelp # {} /\ ~atMaxNodesTotal /\ AllPodsAreNew(toHelp)
    IN
    \/ \* ScaleUpSuccessful: no scale-down in this iteration
       /\ tried
       /\ \E g \in Groups : \E k \in ScaleUpDeltas(g) :
            /\ target' = [target EXCEPT ![g] = @ + CappedNewNodes(k)]
            /\ sinceUp' = 0 /\ hUp' = 0
       /\ UNCHANGED scaleDownVars
    \/ /\ UNCHANGED scaleUpVars
       /\ \/ \* not tried, or no option helps: go on to scale down
             ScaleDownPhase(forbidden)
          \/ \* listing daemonsets or the provider call failed
             /\ tried
             /\ UNCHANGED scaleDownVars

-----------------------------------------------------------------------------
(***************************************************************************)
(* Actions of the autoscaler.                                              *)
(***************************************************************************)

\* cleanUpIfRequired: at the first tick of a run, remove the ToBeDeleted
\* taints from the ready nodes; initialized is set even if listing failed.
CleanUpIfRequired ==
    /\ ~initialized
    /\ initialized' = TRUE
    /\ \/ taint' = [n \in Nodes |-> IF node[n] = "ready" THEN FALSE
                                                       ELSE taint[n]]
       \/ UNCHANGED taint   \* ReadyNodeLister().List() failed
    /\ UNCHANGED <<node, provAge, target, podAge, unneeded, deleting,
                   sinceUp, sinceDel, sinceFail, incorrect, hUp, hDel,
                   hFail, obs>>

\* actOnEmptyCluster: no node, or no ready node.
RunOnceEmptyCluster ==
    /\ initialized
    /\ ReadyNodes = {}
    /\ CleanUpUnneededNodes
    /\ UNCHANGED <<envVars, scaleUpVars, incorrect, initialized>>

\* updateClusterState: UpdateNodes failed.
RunOnceUpdateNodesFailed ==
    /\ initialized
    /\ ReadyNodes # {}
    /\ CleanUpUnneededNodes
    /\ UNCHANGED <<envVars, scaleUpVars, incorrect, initialized>>

RunOnceRemoveUnregisteredCountingAttempted ==
    /\ initialized
    /\ ReadyNodes # {}
    /\ OldUnregistered # {}
    /\ UpdateIncorrectSizes
    /\ \E removed \in SUBSET OldUnregistered :
          /\ node' = [n \in Nodes |-> IF n \in removed THEN "absent"
                                                       ELSE node[n]]
          /\ provAge' = [n \in Nodes |-> IF n \in removed THEN 0
                                                          ELSE provAge[n]]
          /\ target' = [g \in Groups |->
                      target[g] - Cardinality(OldUnregistered \cap InGroup(g))]
    /\ UNCHANGED <<taint, podAge, scaleDownVars, sinceUp, hUp, initialized>>

\* removeOldUnregisteredNodes deleted the instances in removed (a prefix of
\* the loop when it failed); the iteration then ends.
RunOnceRemoveUnregistered ==
    /\ initialized
    /\ ReadyNodes # {}
    /\ OldUnregistered # {}
    /\ UpdateIncorrectSizes
    /\ \E removed \in SUBSET OldUnregistered :
          /\ node' = [n \in Nodes |-> IF n \in removed THEN "absent"
                                                       ELSE node[n]]
          /\ provAge' = [n \in Nodes |-> IF n \in removed THEN 0
                                                          ELSE provAge[n]]
          /\ target' = [g \in Groups |->
                          target[g] - Cardinality(removed \cap InGroup(g))]
    /\ UNCHANGED <<taint, podAge, scaleDownVars, sinceUp, hUp, initialized>>

RunOnceUnhealthyKeepingUnneeded ==
    /\ initialized
    /\ ReadyNodes # {}
    /\ OldUnregistered = {}
    /\ ~IsClusterHealthy
    /\ UpdateIncorrectSizes
    /\ CleanUpUnneededNodesKeepingSince
    /\ UNCHANGED <<envVars, scaleUpVars, initialized>>

\* The cluster is unhealthy: scale-down tracking is cleared.
RunOnceUnhealthy ==
    /\ initialized
    /\ ReadyNodes # {}
    /\ OldUnregistered = {}
    /\ ~IsClusterHealthy
    /\ UpdateIncorrectSizes
    /\ CleanUpUnneededNodes
    /\ UNCHANGED <<envVars, scaleUpVars, initialized>>

\* fixNodeGroupSize: lower the target of each group whose size has been
\* too small for too long to the instances it has; fixed (a prefix of the
\* loop when a provider call failed) ends the iteration.
RunOnceFixNodeGroupSize ==
    /\ initialized
    /\ ReadyNodes # {}
    /\ OldUnregistered = {}
    /\ IsClusterHealthy
    /\ UpdateIncorrectSizes
    /\ GroupsToFix # {}
    /\ \E fixed \in SUBSET GroupsToFix :
          target' = [g \in Groups |-> IF g \in fixed
                                      THEN Cardinality(Existing(g))
                                      ELSE target[g]]
    /\ UNCHANGED <<envVars, scaleDownVars, sinceUp, hUp, initialized>>

\* The rest of the iteration: scale up, or else scale down.
RunOnceMain ==
    /\ initialized
    /\ ReadyNodes # {}
    /\ OldUnregistered = {}
    /\ IsClusterHealthy
    /\ UpdateIncorrectSizes
    /\ GroupsToFix = {}
    /\ \E waiting \in SUBSET Pending :
         \E fits \in SUBSET (Pending \ waiting) :
            ScaleUpPhase(waiting, fits)
    /\ UNCHANGED <<envVars, initialized>>

RunOnce ==
    \/ RunOnceEmptyCluster
    \/ RunOnceUpdateNodesFailed
    \/ RunOnceRemoveUnregistered
    \/ RunOnceUnhealthy
    \/ RunOnceFixNodeGroupSize
    \/ RunOnceMain

\* The deletion goroutine of ScaleDown: drain the node and delete it at the
\* provider, or fail and remove the taint; then SetDeleteInProgress(false).
DeleteNodeFinished(n) ==
    /\ n \in deleting
    /\ deleting' = deleting \ {n}
    /\ taint' = [taint EXCEPT ![n] = FALSE]
    /\ \/ /\ node' = [node EXCEPT ![n] = "absent"]
          /\ target' = [target EXCEPT ![NodeGroupOf[n]] = @ - 1]
       \/ UNCHANGED <<node, target>>
    /\ UNCHANGED <<provAge, podAge, unneeded, sinceUp, sinceDel, sinceFail,
                   incorrect, initialized, hUp, hDel, hFail, obs>>

\* The autoscaler process dies and is restarted: all its memory is lost; a
\* deletion already sent to the provider may still complete, and the
\* ToBeDeleted taint of an unfinished one stays on the node.
Restart ==
    /\ \/ UNCHANGED <<node, target>>
       \/ \E n \in deleting :
            /\ node' = [node EXCEPT ![n] = "absent"]
            /\ target' = [target EXCEPT ![NodeGroupOf[n]] = @ - 1]
    /\ taint' = [n \in Nodes |-> taint[n] /\ node'[n] # "absent"]
    /\ deleting' = {}
    /\ unneeded' = [n \in Nodes |-> None]
    /\ sinceUp' = 0 /\ sinceDel' = 0 /\ sinceFail' = 0
    /\ incorrect' = [g \in Groups |-> None]
    /\ initialized' = FALSE
    /\ UNCHANGED <<provAge, podAge, hUp, hDel, hFail, obs>>

-----------------------------------------------------------------------------
(***************************************************************************)
(* The environment: time, the cloud provider and the scheduler.            *)
(***************************************************************************)

AdvanceTime ==
    /\ provAge' = [n \in Nodes |-> IF node[n] = "unregistered"
                                   THEN Older(provAge[n], MaxNodeProvisionTime + 1)
                                   ELSE provAge[n]]
    /\ podAge' = [p \in Pods |-> Older(podAge[p], PodAgeCap)]
    /\ unneeded' = [n \in Nodes |-> Older(unneeded[n], ScaleDownUnneededTime)]
    /\ obs' = [n \in Nodes |-> Older(obs[n], ScaleDownUnneededTime)]
    /\ sinceUp' = Older(sinceUp, ScaleDownDelayAfterAdd)
    /\ sinceDel' = Older(sinceDel, ScaleDownDelayAfterDelete)
    /\ sinceFail' = Older(sinceFail, ScaleDownDelayAfterFailure)
    /\ hUp' = Older(hUp, ScaleDownDelayAfterAdd)
    /\ hDel' = Older(hDel, ScaleDownDelayAfterDelete)
    /\ hFail' = Older(hFail, ScaleDownDelayAfterFailure)
    /\ incorrect' = [g \in Groups |->
                       IF incorrect[g] = None THEN None
                       ELSE [incorrect[g] EXCEPT
                               !.age = Older(@, MaxNodeProvisionTime + 1)]]
    /\ UNCHANGED <<node, taint, target, deleting, initialized>>

\* The provider creates an instance for a group below its target size.
InstanceCreated(n) ==
    /\ node[n] = "absent"
    /\ Cardinality(Existing(NodeGroupOf[n])) < target[NodeGroupOf[n]]
    /\ node' = [node EXCEPT ![n] = "unregistered"]
    /\ provAge' = [provAge EXCEPT ![n] = 0]
    /\ UNCHANGED <<taint, target, podAge, unneeded, deleting, sinceUp,
                   sinceDel, sinceFail, incorrect, initialized, hUp, hDel,
                   hFail, obs>>

\* The instance registers in Kubernetes (not yet ready).
NodeRegistered(n) ==
    /\ node[n] = "unregistered"
    /\ node' = [node EXCEPT ![n] = "unready"]
    /\ provAge' = [provAge EXCEPT ![n] = 0]
    /\ UNCHANGED <<taint, target, podAge, unneeded, deleting, sinceUp,
                   sinceDel, sinceFail, incorrect, initialized, hUp, hDel,
                   hFail, obs>>

NodeReadinessChanged(n) ==
    /\ \/ node[n] = "unready" /\ node' = [node EXCEPT ![n] = "ready"]
       \/ node[n] = "ready" /\ node' = [node EXCEPT ![n] = "unready"]
    /\ UNCHANGED <<provAge, taint, target, podAge, unneeded, deleting,
                   sinceUp, sinceDel, sinceFail, incorrect, initialized,
                   hUp, hDel, hFail, obs>>

\* A pod is created and the scheduler cannot place it.
PodCreated(p) ==
    /\ podAge[p] = None
    /\ podAge' = [podAge EXCEPT ![p] = 0]
    /\ UNCHANGED <<node, provAge, taint, target, unneeded, deleting, sinceUp,
                   sinceDel, sinceFail, incorrect, initialized, hUp, hDel,
                   hFail, obs>>

\* The scheduler places a pending pod on a ready node.
PodScheduled(p) ==
    /\ podAge[p] # None
    /\ ReadyNodes # {}
    /\ podAge' = [podAge EXCEPT ![p] = None]
    /\ UNCHANGED <<node, provAge, taint, target, unneeded, deleting, sinceUp,
                   sinceDel, sinceFail, incorrect, initialized, hUp, hDel,
                   hFail, obs>>

Next ==
    \/ CleanUpIfRequired
    \/ RunOnce
    \/ \E n \in Nodes : DeleteNodeFinished(n)
    \/ Restart
    \/ AdvanceTime
    \/ \E n \in Nodes : InstanceCreated(n) \/ NodeRegistered(n)
                        \/ NodeReadinessChanged(n)
    \/ \E p \in Pods : PodCreated(p) \/ PodScheduled(p)

Spec == Init /\ [][Next]_vars

-----------------------------------------------------------------------------
(***************************************************************************)
(* Properties.                                                             *)
(***************************************************************************)

StartsDeletion(n) == n \notin deleting /\ n \in deleting'

(***************************************************************************)
(* Cooldowns (RunOnce lines 316-319 and 353-356): a node deletion starts   *)
(* only when at least ScaleDownDelayAfterAdd has passed since the last     *)
(* successful scale-up, counting one in the same iteration,               *)
(* ScaleDownDelayAfterDelete since the last deletion and                   *)
(* ScaleDownDelayAfterFailure since the last failed scale-down, across     *)
(* ticks, restarts and the deletion goroutine.                             *)
(***************************************************************************)
ScaleDownRespectsCooldowns ==
    [][\A n \in Nodes :
          StartsDeletion(n) =>
             /\ Elapsed(hUp', ScaleDownDelayAfterAdd)
             /\ Elapsed(hDel, ScaleDownDelayAfterDelete)
             /\ Elapsed(hFail', ScaleDownDelayAfterFailure)]_vars

(***************************************************************************)
(* Hysteresis (UpdateUnneededNodes, CleanUpUnneededNodes at RunOnce lines  *)
(* 197 and 474 and onEmptyCluster): a node is deleted only after every     *)
(* tick that evaluated it for at least ScaleDownUnneededTime found it      *)
(* unneeded, with no empty or unhealthy cluster, nor a failed registry     *)
(* update, in between.                                                     *)
(***************************************************************************)
DeletionOnlyAfterUnneededTime ==
    [][\A n \in Nodes :
          StartsDeletion(n) =>
             obs'[n] # None /\ obs'[n] >= ScaleDownUnneededTime]_vars

(***************************************************************************)
(* cleanUpIfRequired (lines 104-116) promises that once a run has started, *)
(* no ToBeDeleted taint left by a previous run remains: a tainted node is  *)
(* one this run is deleting.                                               *)
(***************************************************************************)
NoStaleToBeDeletedTaint ==
    initialized => \A n \in Nodes : taint[n] => n \in deleting

=============================================================================
