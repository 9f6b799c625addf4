--------------------------- MODULE MC_DeltaState ---------------------------
(***************************************************************************)
(* A two-node cluster, one amd64 and one arm64, with one Deployment d1     *)
(* whose replica set rs1 runs two pods of the same image, which the       *)
(* scheduler may bind to either node, and a job without a CronJob.         *)
(***************************************************************************)
EXTENDS DeltaState, TLC

CONSTANTS n1, n2, p1, p2, rs1, j1, d1, i1

MCNodeArch == n1 :> "amd64" @@ n2 :> "arm64"
MCNodeCPU  == n1 :> 4 @@ n2 :> 2
MCNodeMem  == n1 :> 4 @@ n2 :> 4
MCPodNodes == [p \in Pods |-> Nodes]
\* One pod per node, for the runs about architecture and owners.
MCPodNodesSpread == p1 :> {n1} @@ p2 :> {n2}
MCPodRef   == p1 :> rs1 @@ p2 :> rs1
MCPodImage == p1 :> i1 @@ p2 :> i1
MCParent   == [r \in ReplicaSets \cup Jobs |-> IF r = rs1 THEN d1 ELSE NoRef]

\* What the remote authority knows as scanned: i1 on amd64, owned by d1.
MCRemoteScanned == {[id |-> i1, arch |-> "amd64", owners |-> {d1}]}

=============================================================================
