CONSTANTS
    n1 = n1  n2 = n2  p1 = p1  p2 = p2  d1 = d1  d2 = d2  i1 = i1  i2 = i2
    Nodes = {n1, n2}
    Pods = {p1, p2}
    ReplicaSets = {}
    Jobs = {}
    Workloads = {d1, d2}
    ImageIds = {i1, i2}
    Archs = {"amd64", "arm64"}
    DefaultArch = "amd64"
    NoArch = ""
    NoRef = NoRef
    NoNode = NoNode
    NodeArch <- MCNodeArch
    NodeCPU <- MCNodeCPU
    NodeMem <- MCNodeMem
    PodNodes <- MCPodNodes
    PodRef <- MCPodRef
    PodImage <- MCPodImage
    Parent <- MCParent
    PodCPU <- MCPodCPU
    PodMem <- MCPodMem
    NodeOS <- MCNodeOSWindows
    Managed = {n1, n2}
    InitialScanned = {}
    MaxUpdates = 0
    MaxInFlight = 1
    ScanCPU = 1
    ScanMem = 1
    Mode = "hostfs"
    MaxConcurrentScans = 2
    MaxFailures = 2
SPECIFICATION Spec
CHECK_DEADLOCK FALSE
CONSTRAINT LongRunningP2
INVARIANT PlacedOnLinux
