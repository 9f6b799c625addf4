CONSTANTS
    n1 = n1  n2 = n2  p1 = p1  p2 = p2  d1 = d1  d2 = d2  i1 = i1  i2 = i2
    Nodes = {n1}
    Pods = {p1}
    ReplicaSets = {}
    Jobs = {}
    Workloads = {d1}
    ImageIds = {i1}
    Archs = {"amd64"}
    DefaultArch = "amd64"
    NoArch = ""
    NoRef = NoRef
    NoNode = NoNode
    NodeArch <- MCNodeArch
    NodeCPU <- MCNodeCPU
    NodeMem <- MCNodeMem
    PodNodes <- MCPodNodes
    PodRef <- MCPodRef
    PodImage <- MCPodImage
    Parent <- MCParent
    PodCPU <- MCPodCPU
    PodMem <- MCPodMem
    NodeOS <- MCNodeOSLinux
    Managed = {n1}
    InitialScanned = {}
    MaxUpdates = 0
    MaxInFlight = 1
    ScanCPU = 1
    ScanMem = 1
    Mode = "hostfs"
    MaxConcurrentScans = 1
    MaxFailures = 11
SPECIFICATION Spec
INVARIANT BackoffSchedule
CHECK_DEADLOCK FALSE
