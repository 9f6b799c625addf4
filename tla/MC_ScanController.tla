------------------------- MODULE MC_ScanController -------------------------
(***************************************************************************)
(* Two Linux nodes of different architectures, pods p1 and p2 owned       *)
(* directly by workloads d1 and d2 and running images i1 and i2.  The     *)
(* remote holds i1 on amd64, owned by d2, as scanned.                      *)
(***************************************************************************)
EXTENDS ScanController, TLC

CONSTANTS n1, n2, p1, p2, d1, d2, i1, i2

MCNodeArch == [n \in Nodes |-> IF n = n1 THEN "amd64" ELSE "arm64"]
MCNodeCPU  == [n \in Nodes |-> 2]
MCNodeMem  == [n \in Nodes |-> 2]
MCPodNodes == [p \in Pods |-> IF p = p1 \/ n2 \notin Nodes THEN {n1} ELSE {n2}]
MCPodRef   == [p \in Pods |-> IF p = p1 THEN d1 ELSE d2]
MCPodImage == [p \in Pods |-> IF p = p1 THEN i1 ELSE i2]
MCParent   == [r \in ReplicaSets \cup Jobs |-> NoRef]
MCPodCPU   == [p \in Pods |-> 1]
MCPodMem   == [p \in Pods |-> 1]

MCNodeOSLinux   == [n \in Nodes |-> "linux"]
MCNodeOSWindows == [n \in Nodes |-> IF n = n1 THEN "linux" ELSE "windows"]

MCInitialScanned == {[id |-> i1, arch |-> "amd64", owners |-> {d2}]}

\* State constraint of the scheduling runs: p2 is a long-running pod (it
\* never completes or is deleted); p1 covers completion and deletion.
LongRunningP2 == podPhase[p2] \in {"Absent", "Pending", "Running"}

====
