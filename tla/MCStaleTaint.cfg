CONSTANTS
    n1 = n1  n2 = n2  n3 = n3  g1 = g1  p1 = p1  p2 = p2
    None = None
    Nodes <- MCNodes
    Groups <- MCGroups
    NodeGroupOf <- MCNodeGroupOf
    MinSize <- MCMinSize
    MaxSize <- MCMaxSize
    Pods <- MCPods
    GpuPods <- MCGpuPods
    MaxNodesTotal = 0
    ScaleDownEnabled = TRUE
    ScaleDownDelayAfterAdd = 2
    ScaleDownDelayAfterDelete = 1
    ScaleDownDelayAfterFailure = 1
    ScaleDownUnneededTime = 2
    NewPodScaleUpDelay = 0
    UnschedulablePodTimeBuffer = 2
    UnschedulablePodWithGpuTimeBuffer = 3
    MaxNodeProvisionTime = 1
    OkTotalUnreadyCount = 0
    MaxTotalUnreadyPercentage = 45
SPECIFICATION Spec
SYMMETRY MCSymmetry
INVARIANT NoStaleToBeDeletedTaint
