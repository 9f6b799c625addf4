\* Delta state seeded from the remote's scanned images and fed by
\* arbitrarily interleaved informers.
CONSTANTS
    n1 = n1  n2 = n2  p1 = p1  p2 = p2  rs1 = rs1  j1 = j1  d1 = d1  i1 = i1
    NoRef = NoRef
    Nodes = {n1, n2}
    Pods = {p1, p2}
    ReplicaSets = {rs1}
    Jobs = {}
    Workloads = {d1}
    ImageIds = {i1}
    Archs = {"amd64", "arm64"}
    DefaultArch = "amd64"
    NoArch = ""
    NodeArch <- MCNodeArch
    NodeCPU <- MCNodeCPU
    NodeMem <- MCNodeMem
    NoNode = ""
    PodNodes <- MCPodNodes
    PodRef <- MCPodRef
    PodImage <- MCPodImage
    Parent <- MCParent
    InitialScanned <- MCRemoteScanned
    MaxUpdates = 1
    MaxInFlight = 3
SPECIFICATION Spec
INVARIANTS TypeOK NodeViewConverges RunningPodsTracked IncrementalOwnersComplete
\* The bounded cluster runs out of changes; the consumer then blocks on an
\* empty queue, as deltaState's consumer does.
CHECK_DEADLOCK FALSE
