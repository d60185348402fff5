---------------------- MODULE StaticAutoscaler_proofs ----------------------
(***************************************************************************)
(* Proofs about StaticAutoscaler for every value of its constants.         *)
(***************************************************************************)
EXTENDS StaticAutoscaler, FiniteSetTheorems, TLAPS

\* Every set of instance slots is finite and has a natural cardinality.
LEMMA SlotSetFinite ==
    ASSUME NEW S \in SUBSET Nodes
    PROVE  IsFiniteSet(S) /\ Cardinality(S) \in Nat
BY ConstantsAssumption, FS_Subset, FS_CardinalityType

\* The delays and thresholds are natural numbers.
LEMMA DelaysNat ==
    /\ ScaleDownDelayAfterAdd \in Nat /\ ScaleDownDelayAfterDelete \in Nat
    /\ ScaleDownDelayAfterFailure \in Nat /\ ScaleDownUnneededTime \in Nat
    /\ NewPodScaleUpDelay \in Nat /\ UnschedulablePodTimeBuffer \in Nat
    /\ UnschedulablePodWithGpuTimeBuffer \in Nat
    /\ MaxNodeProvisionTime \in Nat /\ PodAgeCap \in Nat
BY ConstantsAssumption DEF PodAgeCap

\* Aging a saturated age keeps it within its range.
LEMMA OlderType ==
    ASSUME NEW cap \in Nat, NEW a \in AgeOrNone(cap)
    PROVE  /\ Older(a, cap) \in AgeOrNone(cap)
           /\ a \in 0..cap => Older(a, cap) \in 0..cap
BY ConstantsAssumption DEF Older, AgeOrNone

(***************************************************************************)
(* The inductive strengthening of TypeOK.  A node group never has more    *)
(* instances than its target, so the goroutine's and the restart's        *)
(* "target - 1" and removeOldUnregisteredNodes' decrease stay natural      *)
(* numbers; and a node being deleted is registered, so its instance is     *)
(* one of those counted.                                                   *)
(***************************************************************************)
TargetCoversInstances ==
    \A g \in Groups : Cardinality(Existing(g)) <= target[g]
DeletingRegistered == deleting \subseteq Registered

IInv == TypeOK /\ TargetCoversInstances /\ DeletingRegistered

LEMMA InitIInv == Init => IInv
<1> SUFFICES ASSUME Init PROVE IInv
  OBVIOUS
<1>1. \A g \in Groups : Cardinality(Existing(g)) \in Nat
  BY SlotSetFinite DEF Existing, InGroup
<1>2. TypeOK
  <2>1. MaxNodeProvisionTime \in Nat /\ ScaleDownDelayAfterAdd \in Nat
        /\ ScaleDownDelayAfterDelete \in Nat
        /\ ScaleDownDelayAfterFailure \in Nat
    BY ConstantsAssumption
  <2>2. node \in [Nodes -> NodeStates]
    BY DEF Init, NodeStates
  <2>3. target \in [Groups -> Nat] /\ \A g \in Groups : target[g] <= MaxSize[g]
    BY <1>1 DEF Init
  <2>4. /\ podAge \in [Pods -> AgeOrNone(PodAgeCap)]
        /\ unneeded \in [Nodes -> AgeOrNone(ScaleDownUnneededTime)]
        /\ obs \in [Nodes -> AgeOrNone(ScaleDownUnneededTime)]
        /\ hUp \in AgeOrNone(ScaleDownDelayAfterAdd)
        /\ hDel \in AgeOrNone(ScaleDownDelayAfterDelete)
        /\ hFail \in AgeOrNone(ScaleDownDelayAfterFailure)
    BY DEF Init, AgeOrNone
  <2>5. incorrect \in [Groups -> {None} \cup
                       [size : Nat, expected : Nat,
                        age : 0..(MaxNodeProvisionTime + 1)]]
    BY DEF Init
  <2>6. /\ provAge \in [Nodes -> 0..(MaxNodeProvisionTime + 1)]
        /\ sinceUp \in 0..ScaleDownDelayAfterAdd
        /\ sinceDel \in 0..ScaleDownDelayAfterDelete
        /\ sinceFail \in 0..ScaleDownDelayAfterFailure
    BY <2>1 DEF Init
  <2>7. taint \in [Nodes -> BOOLEAN] /\ deleting \subseteq Nodes
        /\ initialized \in BOOLEAN
    BY DEF Init
  <2> QED
    BY <2>2, <2>3, <2>4, <2>5, <2>6, <2>7 DEF TypeOK
<1>3. TargetCoversInstances
  BY <1>1 DEF Init, TargetCoversInstances
<1>4. DeletingRegistered
  BY DEF Init, DeletingRegistered
<1> QED
  BY <1>2, <1>3, <1>4 DEF IInv

(***************************************************************************)
(* The environment's steps.                                                *)
(***************************************************************************)
LEMMA AdvanceTimeIInv == IInv /\ AdvanceTime => IInv'
<1> SUFFICES ASSUME IInv, AdvanceTime PROVE IInv'
  OBVIOUS
<1>1. provAge' \in [Nodes -> 0..(MaxNodeProvisionTime + 1)]
  <2> SUFFICES ASSUME NEW n \in Nodes
               PROVE  provAge'[n] \in 0..(MaxNodeProvisionTime + 1)
    BY DEF AdvanceTime
  <2>1. provAge[n] \in 0..(MaxNodeProvisionTime + 1)
    BY DEF IInv, TypeOK
  <2> QED
    BY <2>1, DelaysNat, OlderType DEF AdvanceTime, AgeOrNone
<1>2. /\ podAge' \in [Pods -> AgeOrNone(PodAgeCap)]
      /\ unneeded' \in [Nodes -> AgeOrNone(ScaleDownUnneededTime)]
      /\ obs' \in [Nodes -> AgeOrNone(ScaleDownUnneededTime)]
  BY DelaysNat, OlderType DEF IInv, TypeOK, AdvanceTime
<1>3. /\ sinceUp' \in 0..ScaleDownDelayAfterAdd
      /\ sinceDel' \in 0..ScaleDownDelayAfterDelete
      /\ sinceFail' \in 0..ScaleDownDelayAfterFailure
  BY DelaysNat, OlderType DEF IInv, TypeOK, AdvanceTime, AgeOrNone
<1>4. /\ hUp' \in AgeOrNone(ScaleDownDelayAfterAdd)
      /\ hDel' \in AgeOrNone(ScaleDownDelayAfterDelete)
      /\ hFail' \in AgeOrNone(ScaleDownDelayAfterFailure)
  BY DelaysNat, OlderType DEF IInv, TypeOK, AdvanceTime
<1>5. incorrect' \in [Groups -> {None} \cup
                       [size : Nat, expected : Nat,
                        age : 0..(MaxNodeProvisionTime + 1)]]
  <2> SUFFICES ASSUME NEW g \in Groups, incorrect[g] # None
               PROVE  incorrect'[g] \in [size : Nat, expected : Nat,
                                         age : 0..(MaxNodeProvisionTime + 1)]
    BY DEF AdvanceTime
  <2>1. incorrect[g] \in [size : Nat, expected : Nat,
                          age : 0..(MaxNodeProvisionTime + 1)]
    BY DEF IInv, TypeOK
  <2>2. incorrect'[g] = [incorrect[g] EXCEPT
                           !.age = Older(@, MaxNodeProvisionTime + 1)]
    BY DEF AdvanceTime
  <2>3. Older(incorrect[g].age, MaxNodeProvisionTime + 1)
          \in 0..(MaxNodeProvisionTime + 1)
    BY <2>1, DelaysNat, OlderType DEF AgeOrNone
  <2> QED
    BY <2>1, <2>2, <2>3
<1>6. UNCHANGED <<node, taint, target, deleting, initialized>>
  BY DEF AdvanceTime
<1> QED
  BY <1>1, <1>2, <1>3, <1>4, <1>5, <1>6
  DEF IInv, TypeOK, TargetCoversInstances, DeletingRegistered, Existing,
      Registered

LEMMA InstanceCreatedIInv ==
    ASSUME NEW n \in Nodes, IInv, InstanceCreated(n) PROVE IInv'
<1>1. TypeOK'
  BY ConstantsAssumption DEF IInv, TypeOK, InstanceCreated, NodeStates
<1>2. TargetCoversInstances'
  <2> SUFFICES ASSUME NEW g \in Groups
               PROVE  Cardinality(Existing(g)') <= target'[g]
    BY DEF TargetCoversInstances
  <2>1. CASE g = NodeGroupOf[n]
    <3>1. Existing(g)' = Existing(g) \cup {n} /\ n \notin Existing(g)
      BY <2>1 DEF InstanceCreated, Existing, InGroup, IInv, TypeOK
    <3>2. IsFiniteSet(Existing(g))
      BY SlotSetFinite DEF Existing, InGroup
    <3>3. Cardinality(Existing(g)') = Cardinality(Existing(g)) + 1
      BY <3>1, <3>2, FS_AddElement
    <3>4. Cardinality(Existing(g)) < target[g] /\ target' = target
      BY <2>1 DEF InstanceCreated
    <3>5. Cardinality(Existing(g)) \in Nat /\ target[g] \in Nat
      BY SlotSetFinite DEF Existing, InGroup, IInv, TypeOK
    <3> QED
      BY <3>3, <3>4, <3>5
  <2>2. CASE g # NodeGroupOf[n]
    <3>1. Existing(g)' = Existing(g)
      BY <2>2 DEF InstanceCreated, Existing, InGroup, IInv, TypeOK
    <3> QED
      BY <3>1 DEF InstanceCreated, IInv, TargetCoversInstances
  <2> QED
    BY <2>1, <2>2
<1>3. DeletingRegistered'
  BY DEF IInv, DeletingRegistered, Registered, InstanceCreated, TypeOK
<1> QED
  BY <1>1, <1>2, <1>3 DEF IInv

\* Registration and readiness changes keep each group's instances.
LEMMA RegistrationIInv ==
    ASSUME NEW n \in Nodes, IInv, NodeRegistered(n) \/ NodeReadinessChanged(n)
    PROVE  IInv'
<1>1. TypeOK'
  BY ConstantsAssumption DEF IInv, TypeOK, NodeRegistered,
     NodeReadinessChanged, NodeStates
<1>2. \A g \in Groups : Existing(g)' = Existing(g) /\ target' = target
  BY DEF NodeRegistered, NodeReadinessChanged, Existing, InGroup, IInv, TypeOK
<1>3. DeletingRegistered'
  BY DEF IInv, DeletingRegistered, Registered, NodeRegistered,
     NodeReadinessChanged, TypeOK
<1> QED
  BY <1>1, <1>2, <1>3 DEF IInv, TargetCoversInstances

\* The scheduler's steps touch only the pending pods.
LEMMA PodIInv ==
    ASSUME NEW p \in Pods, IInv, PodCreated(p) \/ PodScheduled(p)
    PROVE  IInv'
<1>1. podAge' \in [Pods -> AgeOrNone(PodAgeCap)]
  BY DelaysNat DEF IInv, TypeOK, PodCreated, PodScheduled, AgeOrNone
<1> QED
  BY <1>1 DEF IInv, TypeOK, PodCreated, PodScheduled, TargetCoversInstances,
     DeletingRegistered, Existing, Registered

LEMMA CleanUpIfRequiredIInv == IInv /\ CleanUpIfRequired => IInv'
BY DEF IInv, TypeOK, CleanUpIfRequired, TargetCoversInstances,
   DeletingRegistered, Existing, Registered

(***************************************************************************)
(* The deletion goroutine and a restart.                                   *)
(***************************************************************************)
\* Deleting one present instance and lowering its group's target by one
\* keeps every target a natural number, within its maximum and covering
\* the group's instances.
LEMMA RemoveInstance ==
    ASSUME IInv, NEW n \in Nodes, node[n] # "absent",
           node' = [node EXCEPT ![n] = "absent"],
           target' = [target EXCEPT ![NodeGroupOf[n]] = @ - 1]
    PROVE  /\ target' \in [Groups -> Nat]
           /\ \A g \in Groups : target'[g] <= MaxSize[g]
           /\ TargetCoversInstances'
<1> DEFINE h == NodeGroupOf[n]
<1>1. h \in Groups
  BY ConstantsAssumption
<1>2. /\ Existing(h)' = Existing(h) \ {n}
      /\ n \in Existing(h)
  BY DEF Existing, InGroup, IInv, TypeOK
<1>3. IsFiniteSet(Existing(h)) /\ Cardinality(Existing(h)) \in Nat
  BY SlotSetFinite DEF Existing, InGroup
<1>4. Cardinality(Existing(h)') = Cardinality(Existing(h)) - 1
  BY <1>2, <1>3, FS_RemoveElement
<1>5. Cardinality(Existing(h)) >= 1
  BY <1>2, <1>3, FS_EmptySet
<1>6. target[h] \in Nat /\ Cardinality(Existing(h)) <= target[h]
      /\ target[h] <= MaxSize[h]
  BY <1>1 DEF IInv, TypeOK, TargetCoversInstances
<1>7. \A g \in Groups \ {h} : Existing(g)' = Existing(g)
  BY DEF Existing, InGroup, IInv, TypeOK
<1>8. target'[h] \in Nat /\ target'[h] <= MaxSize[h]
      /\ Cardinality(Existing(h)') <= target'[h]
  <2>1. target'[h] = target[h] - 1
    BY <1>1 DEF IInv, TypeOK
  <2>2. MaxSize[h] \in Nat
    BY <1>1, ConstantsAssumption
  <2> QED
    BY <1>3, <1>4, <1>5, <1>6, <2>1, <2>2
<1>9. \A g \in Groups \ {h} :
         /\ target'[g] = target[g]
         /\ Cardinality(Existing(g)') <= target'[g]
  BY <1>7 DEF IInv, TypeOK, TargetCoversInstances
<1>10. target' \in [Groups -> Nat]
  BY <1>8, <1>9 DEF IInv, TypeOK
<1> QED
  BY <1>8, <1>9, <1>10 DEF IInv, TypeOK, TargetCoversInstances

LEMMA DeleteNodeFinishedIInv ==
    ASSUME NEW n \in Nodes, IInv, DeleteNodeFinished(n) PROVE IInv'
<1>1. node[n] \in {"unready", "ready"}
  BY DEF DeleteNodeFinished, IInv, DeletingRegistered, Registered
<1>2. CASE node' = [node EXCEPT ![n] = "absent"]
           /\ target' = [target EXCEPT ![NodeGroupOf[n]] = @ - 1]
  <2>1. /\ target' \in [Groups -> Nat]
        /\ \A g \in Groups : target'[g] <= MaxSize[g]
        /\ TargetCoversInstances'
    BY <1>1, <1>2, RemoveInstance
  <2>2. TypeOK'
    BY <2>1 DEF IInv, TypeOK, DeleteNodeFinished, NodeStates
  <2>3. DeletingRegistered'
    BY <1>2 DEF IInv, TypeOK, DeleteNodeFinished, DeletingRegistered,
       Registered
  <2> QED
    BY <2>1, <2>2, <2>3 DEF IInv
<1>3. CASE UNCHANGED <<node, target>>
  BY <1>3 DEF IInv, TypeOK, DeleteNodeFinished, DeletingRegistered,
     Registered, TargetCoversInstances, Existing
<1> QED
  BY <1>2, <1>3 DEF DeleteNodeFinished

LEMMA RestartIInv == IInv /\ Restart => IInv'
<1> SUFFICES ASSUME IInv, Restart PROVE IInv'
  OBVIOUS
<1>1. /\ taint' \in [Nodes -> BOOLEAN]
      /\ deleting' = {}
      /\ unneeded' \in [Nodes -> AgeOrNone(ScaleDownUnneededTime)]
      /\ sinceUp' \in 0..ScaleDownDelayAfterAdd
      /\ sinceDel' \in 0..ScaleDownDelayAfterDelete
      /\ sinceFail' \in 0..ScaleDownDelayAfterFailure
      /\ incorrect' \in [Groups -> {None} \cup
                          [size : Nat, expected : Nat,
                           age : 0..(MaxNodeProvisionTime + 1)]]
      /\ initialized' \in BOOLEAN
  <2>1. taint' \in [Nodes -> BOOLEAN]
    BY Zenon DEF Restart
  <2>2. unneeded' \in [Nodes -> AgeOrNone(ScaleDownUnneededTime)]
    BY DEF Restart, AgeOrNone
  <2>3. /\ sinceUp' \in 0..ScaleDownDelayAfterAdd
        /\ sinceDel' \in 0..ScaleDownDelayAfterDelete
        /\ sinceFail' \in 0..ScaleDownDelayAfterFailure
    BY DelaysNat DEF Restart
  <2>4. incorrect' \in [Groups -> {None} \cup
                          [size : Nat, expected : Nat,
                           age : 0..(MaxNodeProvisionTime + 1)]]
    BY DEF Restart
  <2>5. deleting' = {} /\ initialized' \in BOOLEAN
    BY DEF Restart
  <2> QED
    BY <2>1, <2>2, <2>3, <2>4, <2>5
<1>2. CASE UNCHANGED <<node, target>>
  BY <1>1, <1>2 DEF IInv, TypeOK, Restart, DeletingRegistered,
     TargetCoversInstances, Existing
<1>3. CASE \E n \in deleting :
             /\ node' = [node EXCEPT ![n] = "absent"]
             /\ target' = [target EXCEPT ![NodeGroupOf[n]] = @ - 1]
  <2>1. PICK n \in deleting :
             /\ node' = [node EXCEPT ![n] = "absent"]
             /\ target' = [target EXCEPT ![NodeGroupOf[n]] = @ - 1]
    BY <1>3
  <2>2. n \in Nodes /\ node[n] # "absent"
    BY DEF IInv, DeletingRegistered, Registered, TypeOK
  <2>3. /\ target' \in [Groups -> Nat]
        /\ \A g \in Groups : target'[g] <= MaxSize[g]
        /\ TargetCoversInstances'
    BY <2>1, <2>2, RemoveInstance
  <2>4. node' \in [Nodes -> NodeStates]
    BY <2>1 DEF IInv, TypeOK, NodeStates
  <2> QED
    BY <1>1, <2>3, <2>4 DEF IInv, TypeOK, Restart, DeletingRegistered
<1> QED
  BY <1>2, <1>3 DEF Restart

(***************************************************************************)
(* RunOnce.                                                                *)
(***************************************************************************)
\* ClusterStateRegistry.UpdateNodes records natural sizes and fresh ages.
LEMMA UpdateIncorrectSizesType ==
    ASSUME IInv, UpdateIncorrectSizes
    PROVE  incorrect' \in [Groups -> {None} \cup
                            [size : Nat, expected : Nat,
                             age : 0..(MaxNodeProvisionTime + 1)]]
<1> SUFFICES ASSUME NEW g \in Groups
             PROVE  incorrect'[g] \in {None} \cup
                       [size : Nat, expected : Nat,
                        age : 0..(MaxNodeProvisionTime + 1)]
  BY DEF UpdateIncorrectSizes
<1>1. Cardinality(Existing(g)) \in Nat /\ target[g] \in Nat
      /\ incorrect[g] \in {None} \cup
            [size : Nat, expected : Nat, age : 0..(MaxNodeProvisionTime + 1)]
  BY SlotSetFinite DEF Existing, InGroup, IInv, TypeOK
<1> QED
  BY <1>1, DelaysNat DEF UpdateIncorrectSizes

\* The "unneeded since" marks a tick keeps are ages within their range.
LEMMA UpdatedUnneededType ==
    ASSUME IInv, NEW R
    PROVE  /\ UpdatedUnneeded(R) \in [Nodes -> AgeOrNone(ScaleDownUnneededTime)]
           /\ ObservedUnneeded(R) \in [Nodes -> AgeOrNone(ScaleDownUnneededTime)]
           /\ \A n \in Nodes : UpdatedUnneeded(R)[n] # None => n \in R
BY DelaysNat DEF IInv, TypeOK, UpdatedUnneeded, ObservedUnneeded, KeepSince,
   AgeOrNone

\* The scale-down half of RunOnce keeps the scale-down state well typed,
\* and starts deleting only a ready node.
LEMMA ScaleDownPhaseIInv ==
    ASSUME IInv, NEW f, ScaleDownPhase(f)
    PROVE  /\ unneeded' \in [Nodes -> AgeOrNone(ScaleDownUnneededTime)]
           /\ obs' \in [Nodes -> AgeOrNone(ScaleDownUnneededTime)]
           /\ taint' \in [Nodes -> BOOLEAN]
           /\ deleting' \subseteq Registered
           /\ sinceDel' \in 0..ScaleDownDelayAfterDelete
           /\ sinceFail' \in 0..ScaleDownDelayAfterFailure
           /\ hDel' \in AgeOrNone(ScaleDownDelayAfterDelete)
           /\ hFail' \in AgeOrNone(ScaleDownDelayAfterFailure)
<1>1. CASE UNCHANGED scaleDownVars
  BY <1>1 DEF IInv, TypeOK, DeletingRegistered, scaleDownVars
<1>2. CASE /\ ScaleDownEnabled
           /\ \E R \in SUBSET ScaleDownCandidates :
                LET u == UpdatedUnneeded(R) IN
                /\ obs' = ObservedUnneeded(R)
                /\ IF ScaleDownBlocked(f)
                   THEN /\ unneeded' = u
                        /\ UNCHANGED <<deleting, taint, sinceDel, sinceFail,
                                       hDel, hFail>>
                   ELSE TryToScaleDown(u)
  <2>1. PICK R \in SUBSET ScaleDownCandidates :
                LET u == UpdatedUnneeded(R) IN
                /\ obs' = ObservedUnneeded(R)
                /\ IF ScaleDownBlocked(f)
                   THEN /\ unneeded' = u
                        /\ UNCHANGED <<deleting, taint, sinceDel, sinceFail,
                                       hDel, hFail>>
                   ELSE TryToScaleDown(u)
    BY <1>2
  <2> DEFINE u == UpdatedUnneeded(R)
  <2>2. /\ u \in [Nodes -> AgeOrNone(ScaleDownUnneededTime)]
        /\ obs' \in [Nodes -> AgeOrNone(ScaleDownUnneededTime)]
        /\ \A n \in Nodes : u[n] # None => n \in Registered
    BY <2>1, UpdatedUnneededType DEF ScaleDownCandidates, ReadyNodes,
       Registered
  <2>3. CASE ScaleDownBlocked(f)
    BY <2>1, <2>2, <2>3 DEF IInv, TypeOK, DeletingRegistered
  <2>4. CASE ~ScaleDownBlocked(f)
    <3>1. TryToScaleDown(u)
      BY <2>1, <2>4
    <3>2. CASE \E n \in EligibleForDeletion(u) :
                 /\ deleting' = {n}
                 /\ taint' = [taint EXCEPT ![n] = TRUE]
                 /\ unneeded' = [u EXCEPT ![n] = None]
                 /\ sinceDel' = 0 /\ hDel' = 0
                 /\ UNCHANGED <<sinceFail, hFail>>
      <4>1. PICK n \in EligibleForDeletion(u) :
                 /\ deleting' = {n}
                 /\ taint' = [taint EXCEPT ![n] = TRUE]
                 /\ unneeded' = [u EXCEPT ![n] = None]
                 /\ sinceDel' = 0 /\ hDel' = 0
                 /\ UNCHANGED <<sinceFail, hFail>>
        BY <3>2
      <4>2. n \in Nodes /\ u[n] # None
        BY DEF EligibleForDeletion
      <4> QED
        BY <2>2, <4>1, <4>2, DelaysNat DEF IInv, TypeOK, AgeOrNone
    <3>3. CASE /\ unneeded' = u
               /\ UNCHANGED <<deleting, taint, sinceDel, sinceFail, hDel,
                              hFail>>
      BY <2>2, <3>3 DEF IInv, TypeOK, DeletingRegistered
    <3>4. CASE /\ unneeded' = u
               /\ sinceFail' = 0 /\ hFail' = 0
               /\ UNCHANGED <<deleting, taint, sinceDel, hDel>>
      BY <2>2, <3>4, DelaysNat DEF IInv, TypeOK, DeletingRegistered, AgeOrNone
    <3> QED
      BY <3>1, <3>2, <3>3, <3>4 DEF TryToScaleDown
  <2> QED
    BY <2>3, <2>4
<1> QED
  BY <1>1, <1>2 DEF ScaleDownPhase

\* onEmptyCluster and a failed registry update forget the unneeded nodes.
LEMMA CleanUpPathsIInv ==
    IInv /\ (RunOnceEmptyCluster \/ RunOnceUpdateNodesFailed) => IInv'
BY DEF IInv, TypeOK, RunOnceEmptyCluster, RunOnceUpdateNodesFailed,
   CleanUpUnneededNodes, AgeOrNone, envVars, scaleUpVars,
   TargetCoversInstances, DeletingRegistered, Existing, Registered

LEMMA UnhealthyIInv == IInv /\ RunOnceUnhealthy => IInv'
<1> SUFFICES ASSUME IInv, RunOnceUnhealthy PROVE IInv'
  OBVIOUS
<1>1. incorrect' \in [Groups -> {None} \cup
                       [size : Nat, expected : Nat,
                        age : 0..(MaxNodeProvisionTime + 1)]]
  BY UpdateIncorrectSizesType DEF RunOnceUnhealthy
<1> QED
  BY <1>1 DEF IInv, TypeOK, RunOnceUnhealthy, CleanUpUnneededNodes,
     AgeOrNone, envVars, scaleUpVars, TargetCoversInstances,
     DeletingRegistered, Existing, Registered

\* fixNodeGroupSize lowers a target to the group's instance count.
LEMMA FixNodeGroupSizeIInv == IInv /\ RunOnceFixNodeGroupSize => IInv'
<1> SUFFICES ASSUME IInv, RunOnceFixNodeGroupSize PROVE IInv'
  OBVIOUS
<1>1. incorrect' \in [Groups -> {None} \cup
                       [size : Nat, expected : Nat,
                        age : 0..(MaxNodeProvisionTime + 1)]]
  BY UpdateIncorrectSizesType DEF RunOnceFixNodeGroupSize
<1>2. \A g \in Groups : Cardinality(Existing(g)) \in Nat
  BY SlotSetFinite DEF Existing, InGroup
<1>3. /\ target' \in [Groups -> Nat]
      /\ \A g \in Groups : target'[g] <= MaxSize[g]
      /\ \A g \in Groups : Cardinality(Existing(g)) <= target'[g]
  BY <1>2, ConstantsAssumption
  DEF IInv, TypeOK, TargetCoversInstances, RunOnceFixNodeGroupSize
<1>4. UNCHANGED <<node, deleting>>
  BY DEF RunOnceFixNodeGroupSize, envVars, scaleDownVars
<1> QED
  BY <1>1, <1>3, <1>4 DEF IInv, TypeOK, RunOnceFixNodeGroupSize, envVars,
     scaleDownVars, TargetCoversInstances, DeletingRegistered, Existing,
     Registered

\* removeOldUnregisteredNodes deletes unregistered instances and lowers
\* each group's target by the number it deleted there.
LEMMA RemoveUnregisteredIInv == IInv /\ RunOnceRemoveUnregistered => IInv'
<1> SUFFICES ASSUME IInv, RunOnceRemoveUnregistered PROVE IInv'
  OBVIOUS
<1>1. PICK removed \in SUBSET OldUnregistered :
          /\ node' = [n \in Nodes |-> IF n \in removed THEN "absent"
                                                       ELSE node[n]]
          /\ provAge' = [n \in Nodes |-> IF n \in removed THEN 0
                                                          ELSE provAge[n]]
          /\ target' = [g \in Groups |->
                          target[g] - Cardinality(removed \cap InGroup(g))]
  BY DEF RunOnceRemoveUnregistered
<1>2. removed \subseteq Nodes /\ \A n \in removed : node[n] = "unregistered"
  BY DEF OldUnregistered, Unregistered
<1>3. ASSUME NEW g \in Groups
      PROVE  /\ target'[g] \in Nat
             /\ Cardinality(Existing(g)') <= target'[g]
             /\ target'[g] <= MaxSize[g]
  <2> DEFINE T == removed \cap InGroup(g)
  <2>1. T \subseteq Existing(g) /\ Existing(g)' = Existing(g) \ T
    BY <1>1, <1>2 DEF Existing, InGroup
  <2>2. IsFiniteSet(Existing(g)) /\ Cardinality(Existing(g)) \in Nat
    BY SlotSetFinite DEF Existing, InGroup
  <2>3. Cardinality(Existing(g)') = Cardinality(Existing(g)) - Cardinality(T)
    <3>1. Existing(g) \cap T = T
      BY <2>1
    <3>2. Cardinality(Existing(g) \ T)
            = Cardinality(Existing(g)) - Cardinality(Existing(g) \cap T)
      BY <2>2, FS_Difference
    <3> QED
      BY <2>1, <3>1, <3>2
  <2>4. Cardinality(T) \in Nat /\ Cardinality(T) <= Cardinality(Existing(g))
    BY <2>1, <2>2, FS_Subset, FS_CardinalityType
  <2>5. target[g] \in Nat /\ Cardinality(Existing(g)) <= target[g]
        /\ target[g] <= MaxSize[g] /\ target'[g] = target[g] - Cardinality(T)
    BY <1>1 DEF IInv, TypeOK, TargetCoversInstances
  <2>6. MaxSize[g] \in Nat
    BY ConstantsAssumption
  <2> QED
    BY <2>2, <2>3, <2>4, <2>5, <2>6
<1>4. incorrect' \in [Groups -> {None} \cup
                       [size : Nat, expected : Nat,
                        age : 0..(MaxNodeProvisionTime + 1)]]
  BY UpdateIncorrectSizesType DEF RunOnceRemoveUnregistered
<1>5. /\ node' \in [Nodes -> NodeStates]
      /\ provAge' \in [Nodes -> 0..(MaxNodeProvisionTime + 1)]
  BY <1>1, DelaysNat DEF IInv, TypeOK, NodeStates
<1>6. DeletingRegistered'
  BY <1>1, <1>2 DEF RunOnceRemoveUnregistered, scaleDownVars, IInv,
     DeletingRegistered, Registered
<1>7. TypeOK'
  BY <1>1, <1>3, <1>4, <1>5
  DEF IInv, TypeOK, RunOnceRemoveUnregistered, scaleDownVars
<1> QED
  BY <1>3, <1>6, <1>7 DEF IInv, TargetCoversInstances

\* The scale-down conclusions of ScaleDownPhaseIInv, as one formula.
ScaleDownTyped ==
    /\ unneeded' \in [Nodes -> AgeOrNone(ScaleDownUnneededTime)]
    /\ obs' \in [Nodes -> AgeOrNone(ScaleDownUnneededTime)]
    /\ taint' \in [Nodes -> BOOLEAN]
    /\ deleting' \subseteq Registered
    /\ sinceDel' \in 0..ScaleDownDelayAfterDelete
    /\ sinceFail' \in 0..ScaleDownDelayAfterFailure
    /\ hDel' \in AgeOrNone(ScaleDownDelayAfterDelete)
    /\ hFail' \in AgeOrNone(ScaleDownDelayAfterFailure)

\* A scale-up never lowers a target and never raises one past its maximum.
LEMMA ScaleUpPhaseIInv ==
    ASSUME IInv, NEW waiting, NEW fits, ScaleUpPhase(waiting, fits)
    PROVE  /\ target' \in [Groups -> Nat]
           /\ \A g \in Groups : target[g] <= target'[g]
           /\ \A g \in Groups : target'[g] <= MaxSize[g]
           /\ sinceUp' \in 0..ScaleDownDelayAfterAdd
           /\ hUp' \in AgeOrNone(ScaleDownDelayAfterAdd)
           /\ ScaleDownTyped
<1> DEFINE toHelp == FilterOutYoungPods(Pending \ (waiting \cup fits))
           atMaxNodesTotal ==
               MaxNodesTotal > 0 /\ Cardinality(ReadyNodes) >= MaxNodesTotal
           tried == toHelp # {} /\ ~atMaxNodesTotal /\ ~AllPodsAreNew(toHelp)
           forbidden == \/ fits # {}
                        \/ toHelp # {} /\ ~atMaxNodesTotal /\ AllPodsAreNew(toHelp)
<1>1. CASE /\ tried
           /\ \E g \in Groups : \E k \in ScaleUpDeltas(g) :
                /\ target' = [target EXCEPT ![g] = @ + CappedNewNodes(k)]
                /\ sinceUp' = 0 /\ hUp' = 0
           /\ UNCHANGED scaleDownVars
  <2>0. PICK g \in Groups : \E k \in ScaleUpDeltas(g) :
                /\ target' = [target EXCEPT ![g] = @ + CappedNewNodes(k)]
                /\ sinceUp' = 0 /\ hUp' = 0
    BY <1>1
  <2>1. PICK k \in ScaleUpDeltas(g) :
                /\ target' = [target EXCEPT ![g] = @ + CappedNewNodes(k)]
                /\ sinceUp' = 0 /\ hUp' = 0
    BY <2>0
  <2>2. Cardinality(ReadyNodes) \in Nat /\ MaxNodesTotal \in Nat
    BY SlotSetFinite, ConstantsAssumption DEF ReadyNodes
  <2>3. target[g] \in Nat /\ MaxSize[g] \in Nat
        /\ k \in 1..(MaxSize[g] - target[g])
    BY ConstantsAssumption DEF IInv, TypeOK, ScaleUpDeltas
  <2>4. CappedNewNodes(k) \in 0..k
    BY <1>1, <2>2, <2>3 DEF CappedNewNodes
  <2>5. target'[g] = target[g] + CappedNewNodes(k)
    BY <2>1 DEF IInv, TypeOK
  <2>6. ScaleDownTyped
    BY <1>1 DEF ScaleDownTyped, IInv, TypeOK, DeletingRegistered,
       scaleDownVars
  <2> QED
    BY <2>1, <2>3, <2>4, <2>5, <2>6, DelaysNat DEF IInv, TypeOK, AgeOrNone
<1>2. CASE /\ UNCHANGED scaleUpVars
           /\ \/ ScaleDownPhase(forbidden)
              \/ tried /\ UNCHANGED scaleDownVars
  <2>1. ScaleDownTyped
    BY <1>2, ScaleDownPhaseIInv DEF ScaleDownTyped, IInv, TypeOK,
       DeletingRegistered, scaleDownVars
  <2> QED
    BY <1>2, <2>1 DEF IInv, TypeOK, scaleUpVars
<1> QED
  BY <1>1, <1>2 DEF ScaleUpPhase

LEMMA MainIInv == IInv /\ RunOnceMain => IInv'
<1> SUFFICES ASSUME IInv, RunOnceMain PROVE IInv'
  OBVIOUS
<1>1. PICK waiting, fits : ScaleUpPhase(waiting, fits)
  BY DEF RunOnceMain
<1>2. /\ target' \in [Groups -> Nat]
      /\ \A g \in Groups : target[g] <= target'[g]
      /\ \A g \in Groups : target'[g] <= MaxSize[g]
      /\ sinceUp' \in 0..ScaleDownDelayAfterAdd
      /\ hUp' \in AgeOrNone(ScaleDownDelayAfterAdd)
      /\ ScaleDownTyped
  BY <1>1, ScaleUpPhaseIInv
<1>3. incorrect' \in [Groups -> {None} \cup
                       [size : Nat, expected : Nat,
                        age : 0..(MaxNodeProvisionTime + 1)]]
  BY UpdateIncorrectSizesType DEF RunOnceMain
<1>4. UNCHANGED <<node, provAge, podAge, initialized>>
  BY DEF RunOnceMain, envVars
<1>5. \A g \in Groups : Cardinality(Existing(g)) \in Nat
  BY SlotSetFinite DEF Existing, InGroup
<1>6. TargetCoversInstances'
  BY <1>2, <1>4, <1>5 DEF IInv, TypeOK, TargetCoversInstances, Existing
<1> QED
  BY <1>2, <1>3, <1>4, <1>6
  DEF IInv, TypeOK, ScaleDownTyped, DeletingRegistered, Registered

(***************************************************************************)
(* Type correctness.                                                       *)
(***************************************************************************)
LEMMA NextIInv == IInv /\ [Next]_vars => IInv'
<1> SUFFICES ASSUME IInv, [Next]_vars PROVE IInv'
  OBVIOUS
<1>1. CASE CleanUpIfRequired
  BY <1>1, CleanUpIfRequiredIInv
<1>2. CASE RunOnce
  BY <1>2, CleanUpPathsIInv, RemoveUnregisteredIInv, UnhealthyIInv,
     FixNodeGroupSizeIInv, MainIInv DEF RunOnce
<1>3. CASE \E n \in Nodes : DeleteNodeFinished(n)
  BY <1>3, DeleteNodeFinishedIInv
<1>4. CASE Restart
  BY <1>4, RestartIInv
<1>5. CASE AdvanceTime
  BY <1>5, AdvanceTimeIInv
<1>6. CASE \E n \in Nodes : InstanceCreated(n) \/ NodeRegistered(n)
                            \/ NodeReadinessChanged(n)
  BY <1>6, InstanceCreatedIInv, RegistrationIInv
<1>7. CASE \E p \in Pods : PodCreated(p) \/ PodScheduled(p)
  BY <1>7, PodIInv
<1>8. CASE UNCHANGED vars
  BY <1>8 DEF vars, IInv, TypeOK, TargetCoversInstances, DeletingRegistered,
     Existing, Registered
<1> QED
  BY <1>1, <1>2, <1>3, <1>4, <1>5, <1>6, <1>7, <1>8 DEF Next

(***************************************************************************)
(* Every reachable state of RunOnce, the deletion goroutine, restarts and  *)
(* the environment is well typed; in particular no node group's target     *)
(* size ever exceeds its maximum or drops below zero.                      *)
(***************************************************************************)
THEOREM TypeCorrect == Spec => []TypeOK
<1>1. Init => IInv
  BY InitIInv
<1>2. IInv /\ [Next]_vars => IInv'
  BY NextIInv
<1>3. IInv => TypeOK
  BY DEF IInv
<1> QED
  BY <1>1, <1>2, <1>3, PTL DEF Spec

-----------------------------------------------------------------------------
(***************************************************************************)
(* The scale-down guarantees.  The implementation's cooldown clocks        *)
(* (sinceUp, sinceDel, sinceFail) are never older than the history's       *)
(* (hUp, hDel, hFail): every event that restarts a history clock also      *)
(* restarts the implementation's, and a restart of the process restarts    *)
(* only the latter.  Likewise ScaleDown's "unneeded since" mark of a node  *)
(* is never older than the run of ticks that really found it unneeded.    *)
(***************************************************************************)
CooldownsTracked ==
    /\ hUp # None => sinceUp <= hUp
    /\ hDel # None => sinceDel <= hDel
    /\ hFail # None => sinceFail <= hFail
UnneededTracked ==
    \A n \in Nodes : unneeded[n] # None =>
                        obs[n] # None /\ unneeded[n] <= obs[n]

SafetyInv == IInv /\ CooldownsTracked /\ UnneededTracked

\* What a step that starts a deletion must satisfy: the bodies of the two
\* action properties, and no deletion goroutine still running.
StepSafe ==
    \A n \in Nodes :
       StartsDeletion(n) =>
          /\ Elapsed(hUp', ScaleDownDelayAfterAdd)
          /\ Elapsed(hDel, ScaleDownDelayAfterDelete)
          /\ Elapsed(hFail', ScaleDownDelayAfterFailure)
          /\ obs'[n] # None /\ obs'[n] >= ScaleDownUnneededTime
          /\ deleting = {}

\* Aging two saturated ages by the same step keeps their order.
LEMMA OlderMonotone ==
    ASSUME NEW cap \in Nat, NEW a \in 0..cap, NEW b \in 0..cap, a <= b
    PROVE  Older(a, cap) <= Older(b, cap)
BY ConstantsAssumption DEF Older

\* The ticks' unneeded marks stay within the observed runs.
LEMMA UpdatedUnneededTracked ==
    ASSUME IInv, UnneededTracked, NEW R
    PROVE  \A n \in Nodes : UpdatedUnneeded(R)[n] # None =>
                              /\ ObservedUnneeded(R)[n] # None
                              /\ UpdatedUnneeded(R)[n] <= ObservedUnneeded(R)[n]
BY DelaysNat, ConstantsAssumption
DEF IInv, TypeOK, UnneededTracked, UpdatedUnneeded, ObservedUnneeded,
    KeepSince, AgeOrNone

\* The scale-down half of RunOnce keeps both trackings and starts a
\* deletion only when every cooldown has run out in the history too, the
\* node was observed unneeded long enough, and no deletion is running.
LEMMA ScaleDownPhaseSafe ==
    ASSUME IInv, CooldownsTracked, UnneededTracked, NEW f, ScaleDownPhase(f),
           UNCHANGED <<sinceUp, hUp>>
    PROVE  CooldownsTracked' /\ UnneededTracked' /\ StepSafe
<1>1. CASE UNCHANGED scaleDownVars
  BY <1>1 DEF scaleDownVars, CooldownsTracked, UnneededTracked, StepSafe,
     StartsDeletion
<1>2. CASE /\ ScaleDownEnabled
           /\ \E R \in SUBSET ScaleDownCandidates :
                LET u == UpdatedUnneeded(R) IN
                /\ obs' = ObservedUnneeded(R)
                /\ IF ScaleDownBlocked(f)
                   THEN /\ unneeded' = u
                        /\ UNCHANGED <<deleting, taint, sinceDel, sinceFail,
                                       hDel, hFail>>
                   ELSE TryToScaleDown(u)
  <2>1. PICK R \in SUBSET ScaleDownCandidates :
                LET u == UpdatedUnneeded(R) IN
                /\ obs' = ObservedUnneeded(R)
                /\ IF ScaleDownBlocked(f)
                   THEN /\ unneeded' = u
                        /\ UNCHANGED <<deleting, taint, sinceDel, sinceFail,
                                       hDel, hFail>>
                   ELSE TryToScaleDown(u)
    BY <1>2
  <2> DEFINE u == UpdatedUnneeded(R)
  <2>2. \A n \in Nodes : u[n] # None => obs'[n] # None /\ u[n] <= obs'[n]
    BY <2>1, UpdatedUnneededTracked
  <2>3. CASE ScaleDownBlocked(f)
    BY <2>1, <2>2, <2>3 DEF CooldownsTracked, UnneededTracked, StepSafe,
       StartsDeletion
  <2>4. CASE ~ScaleDownBlocked(f)
    <3>1. TryToScaleDown(u)
      BY <2>1, <2>4
    <3>2. CASE \E n \in EligibleForDeletion(u) :
                 /\ deleting' = {n}
                 /\ taint' = [taint EXCEPT ![n] = TRUE]
                 /\ unneeded' = [u EXCEPT ![n] = None]
                 /\ sinceDel' = 0 /\ hDel' = 0
                 /\ UNCHANGED <<sinceFail, hFail>>
      <4>1. PICK m \in EligibleForDeletion(u) :
                 /\ deleting' = {m}
                 /\ taint' = [taint EXCEPT ![m] = TRUE]
                 /\ unneeded' = [u EXCEPT ![m] = None]
                 /\ sinceDel' = 0 /\ hDel' = 0
                 /\ UNCHANGED <<sinceFail, hFail>>
        BY <3>2
      <4>2. /\ m \in Nodes /\ u[m] # None /\ u[m] >= ScaleDownUnneededTime
        BY DEF EligibleForDeletion
      <4>3. /\ deleting = {}
            /\ sinceUp >= ScaleDownDelayAfterAdd
            /\ sinceFail >= ScaleDownDelayAfterFailure
            /\ sinceDel >= ScaleDownDelayAfterDelete
        BY <2>4, DelaysNat DEF ScaleDownBlocked, ScaleDownInCooldown, IInv,
           TypeOK
      <4>4. /\ Elapsed(hUp', ScaleDownDelayAfterAdd)
            /\ Elapsed(hDel, ScaleDownDelayAfterDelete)
            /\ Elapsed(hFail', ScaleDownDelayAfterFailure)
        BY <4>1, <4>3, DelaysNat
        DEF Elapsed, CooldownsTracked, IInv, TypeOK, AgeOrNone
      <4>5. obs'[m] # None /\ obs'[m] >= ScaleDownUnneededTime
        <5>1. u[m] \in Nat /\ obs'[m] \in Nat
          BY <2>1, <4>2, UpdatedUnneededType, <2>2, DelaysNat DEF AgeOrNone
        <5> QED
          BY <2>2, <4>2, <5>1, DelaysNat
      <4>6. StepSafe
        BY <4>1, <4>3, <4>4, <4>5 DEF StepSafe, StartsDeletion
      <4>7. CooldownsTracked'
        BY <4>1 DEF CooldownsTracked, IInv, TypeOK, AgeOrNone
      <4>8. UnneededTracked'
        <5>1. u \in [Nodes -> AgeOrNone(ScaleDownUnneededTime)]
          BY UpdatedUnneededType
        <5> QED
          BY <2>2, <4>1, <5>1 DEF UnneededTracked
      <4> QED
        BY <4>6, <4>7, <4>8
    <3>3. CASE /\ unneeded' = u
               /\ UNCHANGED <<deleting, taint, sinceDel, sinceFail, hDel,
                              hFail>>
      BY <2>2, <3>3 DEF CooldownsTracked, UnneededTracked, StepSafe,
         StartsDeletion
    <3>4. CASE /\ unneeded' = u
               /\ sinceFail' = 0 /\ hFail' = 0
               /\ UNCHANGED <<deleting, taint, sinceDel, hDel>>
      BY <2>2, <3>4 DEF CooldownsTracked, UnneededTracked, StepSafe,
         StartsDeletion
    <3> QED
      BY <3>1, <3>2, <3>3, <3>4 DEF TryToScaleDown
  <2> QED
    BY <2>3, <2>4
<1> QED
  BY <1>1, <1>2 DEF ScaleDownPhase

\* A scale-up restarts both scale-up clocks and leaves the scale-down state.
LEMMA ScaleUpPhaseSafe ==
    ASSUME IInv, CooldownsTracked, UnneededTracked, NEW waiting, NEW fits,
           ScaleUpPhase(waiting, fits)
    PROVE  CooldownsTracked' /\ UnneededTracked' /\ StepSafe
<1> DEFINE toHelp == FilterOutYoungPods(Pending \ (waiting \cup fits))
           atMaxNodesTotal ==
               MaxNodesTotal > 0 /\ Cardinality(ReadyNodes) >= MaxNodesTotal
           tried == toHelp # {} /\ ~atMaxNodesTotal /\ ~AllPodsAreNew(toHelp)
           forbidden == \/ fits # {}
                        \/ toHelp # {} /\ ~atMaxNodesTotal /\ AllPodsAreNew(toHelp)
<1>1. CASE /\ tried
           /\ \E g \in Groups : \E k \in ScaleUpDeltas(g) :
                /\ target' = [target EXCEPT ![g] = @ + CappedNewNodes(k)]
                /\ sinceUp' = 0 /\ hUp' = 0
           /\ UNCHANGED scaleDownVars
  BY <1>1 DEF scaleDownVars, CooldownsTracked, UnneededTracked, StepSafe,
     StartsDeletion
<1>2. CASE /\ UNCHANGED scaleUpVars
           /\ \/ ScaleDownPhase(forbidden)
              \/ tried /\ UNCHANGED scaleDownVars
  <2>1. UNCHANGED <<sinceUp, hUp>>
    BY <1>2 DEF scaleUpVars
  <2> QED
    BY <1>2, <2>1, ScaleDownPhaseSafe
    DEF scaleDownVars, CooldownsTracked, UnneededTracked, StepSafe,
        StartsDeletion
<1> QED
  BY <1>1, <1>2 DEF ScaleUpPhase

\* Time ages the history and the implementation alike.
LEMMA AdvanceTimeSafe ==
    ASSUME IInv, CooldownsTracked, UnneededTracked, AdvanceTime
    PROVE  CooldownsTracked' /\ UnneededTracked' /\ StepSafe
<1>1. ASSUME NEW cap \in Nat, NEW s \in 0..cap, NEW h \in AgeOrNone(cap),
             h # None => s <= h
      PROVE  Older(h, cap) # None => Older(s, cap) <= Older(h, cap)
  <2>1. CASE h = None
    BY <2>1 DEF Older
  <2>2. CASE h # None
    <3>1. h \in 0..cap
      BY <2>2, ConstantsAssumption DEF AgeOrNone
    <3> QED
      BY <1>1, <2>2, <3>1, OlderMonotone
  <2> QED
    BY <2>1, <2>2
<1>2. CooldownsTracked'
  BY <1>1, DelaysNat DEF AdvanceTime, CooldownsTracked, IInv, TypeOK
<1>3. UnneededTracked'
  <2> SUFFICES ASSUME NEW n \in Nodes, unneeded'[n] # None
               PROVE  obs'[n] # None /\ unneeded'[n] <= obs'[n]
    BY DEF UnneededTracked
  <2>1. unneeded[n] # None
    BY DEF AdvanceTime, Older
  <2>2. /\ unneeded[n] \in 0..ScaleDownUnneededTime
        /\ obs[n] \in 0..ScaleDownUnneededTime
        /\ unneeded[n] <= obs[n]
    BY <2>1, ConstantsAssumption DEF UnneededTracked, IInv, TypeOK, AgeOrNone
  <2>3. Older(obs[n], ScaleDownUnneededTime) \in 0..ScaleDownUnneededTime
    BY <2>2, DelaysNat, OlderType DEF AgeOrNone
  <2> QED
    BY <2>2, <2>3, DelaysNat, OlderMonotone, ConstantsAssumption
    DEF AdvanceTime
<1> QED
  BY <1>2, <1>3 DEF AdvanceTime, StepSafe, StartsDeletion

\* A restart loses the implementation's clocks and marks, never the
\* history's; nor does it start a deletion.
LEMMA RestartSafe ==
    ASSUME IInv, CooldownsTracked, UnneededTracked, Restart
    PROVE  CooldownsTracked' /\ UnneededTracked' /\ StepSafe
<1>1. /\ hUp # None => hUp \in Nat
      /\ hDel # None => hDel \in Nat
      /\ hFail # None => hFail \in Nat
  BY DEF IInv, TypeOK, AgeOrNone
<1> QED
  BY <1>1 DEF Restart, CooldownsTracked, UnneededTracked, StepSafe,
     StartsDeletion

\* The other steps leave the clocks and marks alone and start no deletion.
LEMMA OtherStepsSafe ==
    ASSUME IInv, CooldownsTracked, UnneededTracked,
           \/ CleanUpIfRequired
           \/ RunOnceEmptyCluster \/ RunOnceUpdateNodesFailed
           \/ RunOnceRemoveUnregistered \/ RunOnceUnhealthy
           \/ RunOnceFixNodeGroupSize
           \/ \E n \in Nodes : DeleteNodeFinished(n)
           \/ \E n \in Nodes : InstanceCreated(n) \/ NodeRegistered(n)
                               \/ NodeReadinessChanged(n)
           \/ \E p \in Pods : PodCreated(p) \/ PodScheduled(p)
           \/ UNCHANGED vars
    PROVE  CooldownsTracked' /\ UnneededTracked' /\ StepSafe
BY DEF CleanUpIfRequired, RunOnceEmptyCluster, RunOnceUpdateNodesFailed,
   RunOnceRemoveUnregistered, RunOnceUnhealthy, RunOnceFixNodeGroupSize,
   CleanUpUnneededNodes, DeleteNodeFinished, InstanceCreated, NodeRegistered,
   NodeReadinessChanged, PodCreated, PodScheduled, vars, scaleUpVars,
   scaleDownVars, envVars, CooldownsTracked, UnneededTracked, StepSafe,
   StartsDeletion

LEMMA NextSafe ==
    SafetyInv /\ [Next]_vars => SafetyInv' /\ StepSafe
<1> SUFFICES ASSUME SafetyInv, [Next]_vars PROVE SafetyInv' /\ StepSafe
  OBVIOUS
<1>1. IInv'
  BY NextIInv DEF SafetyInv
<1>2. CooldownsTracked' /\ UnneededTracked' /\ StepSafe
  <2> USE DEF SafetyInv
  <2>1. CASE RunOnceMain
    <3>1. PICK waiting, fits : ScaleUpPhase(waiting, fits)
      BY <2>1 DEF RunOnceMain
    <3> QED
      BY <3>1, ScaleUpPhaseSafe
  <2>2. CASE AdvanceTime
    BY <2>2, AdvanceTimeSafe
  <2>3. CASE Restart
    BY <2>3, RestartSafe
  <2>4. CASE ~RunOnceMain /\ ~AdvanceTime /\ ~Restart
    BY <2>4, OtherStepsSafe DEF Next, RunOnce
  <2> QED
    BY <2>1, <2>2, <2>3, <2>4
<1> QED
  BY <1>1, <1>2 DEF SafetyInv

LEMMA SafetyInvariant == Spec => []SafetyInv /\ [][StepSafe]_vars
<1>1. Init => SafetyInv
  BY InitIInv DEF SafetyInv, Init, CooldownsTracked, UnneededTracked
<1>2. SafetyInv /\ [Next]_vars => SafetyInv'
  BY NextSafe
<1>3. SafetyInv /\ [Next]_vars => [StepSafe]_vars
  BY NextSafe
<1> QED
  BY <1>1, <1>2, <1>3, PTL DEF Spec

(***************************************************************************)
(* The cooldowns of RunOnce (lines 316-319, 353-356) hold for every       *)
(* configuration: no node deletion starts before ScaleDownDelayAfterAdd,   *)
(* ScaleDownDelayAfterDelete and ScaleDownDelayAfterFailure have passed    *)
(* since the last scale-up, deletion and failed scale-down, restarts of    *)
(* the process included.                                                   *)
(***************************************************************************)
THEOREM CooldownsRespected == Spec => ScaleDownRespectsCooldowns
<1>1. StepSafe => \A n \in Nodes :
          StartsDeletion(n) =>
             /\ Elapsed(hUp', ScaleDownDelayAfterAdd)
             /\ Elapsed(hDel, ScaleDownDelayAfterDelete)
             /\ Elapsed(hFail', ScaleDownDelayAfterFailure)
  BY DEF StepSafe
<1> QED
  BY <1>1, SafetyInvariant, PTL DEF ScaleDownRespectsCooldowns

(***************************************************************************)
(* The hysteresis of UpdateUnneededNodes and CleanUpUnneededNodes holds    *)
(* for every configuration: a node deletion starts only after the ticks    *)
(* have found the node unneeded for ScaleDownUnneededTime without a break. *)
(***************************************************************************)
THEOREM UnneededTimeRespected == Spec => DeletionOnlyAfterUnneededTime
<1>1. StepSafe => \A n \in Nodes :
          StartsDeletion(n) =>
             obs'[n] # None /\ obs'[n] >= ScaleDownUnneededTime
  BY DEF StepSafe
<1> QED
  BY <1>1, SafetyInvariant, PTL DEF DeletionOnlyAfterUnneededTime

============================================================================
