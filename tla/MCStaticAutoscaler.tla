------------------------ MODULE MCStaticAutoscaler ------------------------
(***************************************************************************)
(* Small instances of StaticAutoscaler for TLC: one node group of two      *)
(* instance slots (three for the --max-nodes-total run), two pods of which *)
(* one requests a GPU, and delays of one to three time units.              *)
(***************************************************************************)
EXTENDS StaticAutoscaler, TLC

CONSTANTS n1, n2, n3, g1, p1, p2

MCNodes == {n1, n2}
MCGroups == {g1}
MCNodeGroupOf == [n \in MCNodes |-> g1]
MCMinSize == [g \in MCGroups |-> 0]
MCMaxSize == [g \in MCGroups |-> 2]

\* Three slots, for the --max-nodes-total run.
MCNodes3 == {n1, n2, n3}
MCNodeGroupOf3 == [n \in MCNodes3 |-> g1]
MCMaxSize3 == [g \in MCGroups |-> 3]
MCSymmetry3 == Permutations(MCNodes3)
MCPods == {p1, p2}
MCGpuPods == {p2}

\* The instance slots of the single group are interchangeable.
MCSymmetry == Permutations(MCNodes)

\* The number of instances never exceeds --max-nodes-total.
TotalNodesWithinLimit ==
    MaxNodesTotal > 0 =>
        Cardinality({n \in Nodes : node[n] # "absent"}) <= MaxNodesTotal
=============================================================================
