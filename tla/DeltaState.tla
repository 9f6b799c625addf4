----------------------------- MODULE DeltaState -----------------------------
(***************************************************************************)
(* The image-scan delta state (src/imagescan/delta.go) fed by the cluster  *)
(* informers.                                                              *)
(*                                                                         *)
(* The cluster is modelled as the truth: which nodes, pods, replica sets   *)
(* and jobs exist and in which phase.  Every change of the truth emits an  *)
(* event into the FIFO of its informer kind.  The kube controller          *)
(* (src/unnamed/part_002) runs one goroutine per informer kind and         *)
(* subscriber, so events of one kind reach the delta in order while events *)
(* of different kinds interleave arbitrarily (pod events are additionally  *)
(* held back for up to 5s, which only makes some interleavings likelier).  *)
(* The delta's single consumer applies the head of any non-empty FIFO with *)
(* the handler of delta.go for that kind and operation.                    *)
(* updateImagesFromRemote (a full resync) has no caller in src/ and is not *)
(* an action; the image map is built from the remote's list at start-up.  *)
(***************************************************************************)
EXTENDS Naturals, Sequences, FiniteSets, Functions

CONSTANTS
    Nodes,          \* node names
    Pods,           \* pod UIDs
    ReplicaSets,    \* replica set UIDs
    Jobs,           \* job UIDs
    Workloads,      \* UIDs of top-level owners (Deployment, CronJob, ...)
    ImageIds,       \* container-status image IDs
    Archs,          \* node architectures
    DefaultArch,    \* "amd64", used when the pod's node is not known yet
    NoArch,         \* "", the architecture of a node created from a pod
    NoRef,          \* an absent owner reference
    NodeArch,       \* NodeArch[n]: n.Status.NodeInfo.Architecture
    NodeCPU,        \* allocatable CPU of a node
    NodeMem,        \* allocatable memory of a node
    NoNode,         \* "", pod.Spec.NodeName of a pod not scheduled yet
    PodNodes,       \* PodNodes[p]: the nodes the scheduler may bind p to
    PodRef,         \* pod.OwnerReferences[0].UID, or NoRef
    PodImage,       \* the image ID of the pod's container
    Parent,         \* Parent[r]: OwnerReferences[0].UID of a replica set / job
    InitialScanned, \* scanned images the remote returned at start-up
    MaxUpdates,     \* bound on status-only updates of pods and nodes
    MaxInFlight     \* bound on events emitted but not yet applied

OwnerIds == Pods \cup ReplicaSets \cup Jobs \cup Workloads
Kinds    == {"Pod", "Node", "ReplicaSet", "Job"}
Phases   == {"Pending", "Running", "Succeeded"}
NoPhase  == "none"

\* A remote ScannedImage: ID, Architecture and ResourceIDs.
ScannedImage == [id : ImageIds, arch : Archs, owners : SUBSET OwnerIds]

ASSUME /\ DefaultArch \in Archs /\ NoArch \notin Archs /\ NoRef \notin OwnerIds
       /\ NodeArch \in [Nodes -> Archs]
       /\ NodeCPU \in [Nodes -> Nat] /\ NodeMem \in [Nodes -> Nat]
       /\ NoNode \notin Nodes /\ PodNodes \in [Pods -> SUBSET Nodes] /\ PodImage \in [Pods -> ImageIds]
       /\ PodRef \in [Pods -> ReplicaSets \cup Jobs \cup Workloads \cup {NoRef}]
       /\ Parent \in [ReplicaSets \cup Jobs -> Workloads \cup {NoRef}]
       /\ InitialScanned \subseteq ScannedImage
       /\ MaxUpdates \in Nat /\ MaxInFlight \in Nat \ {0}

VARIABLES
    \* the cluster (truth)
    nodeState,   \* [Nodes -> {"Absent","Up","Gone"}]
    podPhase,    \* [Pods -> {"Absent"} \cup Phases \cup {"Gone"}]
    podNode,     \* [Pods -> Nodes \cup {NoNode}]: pod.Spec.NodeName
    ctrlState,   \* [ReplicaSets \cup Jobs -> {"Absent","Up","Gone"}]
    updates,     \* status-only updates emitted so far
    queue,       \* [Kinds -> Seq(Event)], one FIFO per informer kind
    \* the delta (deltaState)
    images,      \* d.images: cache key <<id, arch>> -> image
    dnodes,      \* d.nodes: node name -> node
    rsCache,     \* DOMAIN-only view of d.rs (the delta looks replica sets up by UID)
    jobCache     \* DOMAIN-only view of d.jobs

cluster == <<nodeState, podPhase, podNode, ctrlState, updates, queue>>
delta   == <<images, dnodes, rsCache, jobCache>>
vars    == <<cluster, delta>>

-----------------------------------------------------------------------------
(* Go maps as TLA+ functions with a varying domain.                       *)

EmptyMap == [x \in {} |-> {}]
Put(f, k, v) == [x \in DOMAIN f \cup {k} |-> IF x = k THEN v ELSE f[x]]
Drop(f, k) == Restrict(f, DOMAIN f \ {k})

\* newImage: no owners, no nodes, not scanned, a fresh retry backoff
\* (wait.Backoff{Duration: 60s, Factor: 3, Steps: 8}, durations in
\* seconds).  delay is nextScan minus the time of the last failure (0: no
\* nextScan), waiting that nextScan is still ahead, synced that
\* lastRemoteSyncAt is less than 10 minutes old.
newImage(id, arch) ==
    [id |-> id, arch |-> arch, owners |-> EmptyMap, nodes |-> EmptyMap,
     scanned |-> FALSE, failures |-> 0, lastErr |-> "none",
     retryBackoff |-> [duration |-> 60, steps |-> 8], delay |-> 0,
     waiting |-> FALSE, synced |-> FALSE,
     ownerAdded |-> <<>>, ownerRemoved |-> <<>>]

CacheKey(img) == <<img.id, img.arch>>

\* buildImageMap: every remote image is scanned and owned by its resource
\* IDs, each with an empty pod set; no nodes.
buildImageMap(list) ==
    [k \in {<<s.id, s.arch>> : s \in list} |->
        LET s == CHOOSE s \in list : <<s.id, s.arch>> = k
        IN  [newImage(s.id, s.arch) EXCEPT
                !.scanned = TRUE,
                !.owners = [o \in s.owners |-> {}]]]

isUnused(img) == DOMAIN img.nodes = {} /\ DOMAIN img.owners = {}

\* getPodOwnerID (delta.go): the pod itself without an owner reference; the
\* first owner of a cached replica set or job; otherwise the reference.
getPodOwnerID(p) ==
    LET ref == PodRef[p] IN
    IF ref = NoRef THEN p
    ELSE IF ref \in rsCache \cup jobCache /\ Parent[ref] # NoRef THEN Parent[ref]
    ELSE ref

-----------------------------------------------------------------------------
(* The delta's handlers, one action per (kind, operation).                 *)

\* An informer event: the object and, for a pod, its Status.Phase and
\* Spec.NodeName at the time of the change.
Event(op, obj, phase, node) == [op |-> op, obj |-> obj, phase |-> phase, node |-> node]
Head1(k) == Head(queue[k])
Pop(k) == queue' = [queue EXCEPT ![k] = Tail(@)]

\* Mutant: the image is stored under the default architecture's key while
\* it records the node's architecture.
upsertImagesFixedKey(p, phase, n) ==
    IF phase # "Running" THEN images
    ELSE
      LET arch  == IF n \in DOMAIN dnodes THEN dnodes[n].arch ELSE DefaultArch
          key   == <<PodImage[p], DefaultArch>>
          img   == IF key \in DOMAIN images THEN images[key]
                   ELSE newImage(PodImage[p], arch)
          owner == getPodOwnerID(p)
          new   == [img EXCEPT
                      !.owners = Put(@, owner, IF owner \in DOMAIN @ THEN @[owner] \cup {p} ELSE {p}),
                      !.nodes  = Put(@, n, IF n \in DOMAIN @ THEN @[n] \cup {p} ELSE {p})]
      IN  Put(images, key, new)

\* Mutant: a new owner of a scanned image is not recorded in addedIDS.
upsertImagesNoAddedChange(p, phase, n) ==
    IF phase # "Running" THEN images
    ELSE
      LET arch  == IF n \in DOMAIN dnodes THEN dnodes[n].arch ELSE DefaultArch
          key   == <<PodImage[p], arch>>
          img   == IF key \in DOMAIN images THEN images[key]
                   ELSE newImage(PodImage[p], arch)
          owner == getPodOwnerID(p)
          new   == [img EXCEPT
                      !.owners = Put(@, owner, IF owner \in DOMAIN @ THEN @[owner] \cup {p} ELSE {p}),
                      !.nodes  = Put(@, n, IF n \in DOMAIN @ THEN @[n] \cup {p} ELSE {p})]
      IN  Put(images, key, new)

\* upsertImages: a Running pod is added under its resolved owner and its
\* node in the image keyed by its image ID and its node's architecture as
\* currently known (DefaultArch when the node is not tracked).
upsertImages(p, phase, n) ==
    IF phase # "Running" THEN images
    ELSE
      LET arch  == IF n \in DOMAIN dnodes THEN dnodes[n].arch ELSE DefaultArch
          key   == <<PodImage[p], arch>>
          img   == IF key \in DOMAIN images THEN images[key]
                   ELSE newImage(PodImage[p], arch)
          owner == getPodOwnerID(p)
          added == owner \notin DOMAIN img.owners
          new   == [img EXCEPT
                      !.owners = Put(@, owner, IF added THEN {p} ELSE @[owner] \cup {p}),
                      !.nodes  = Put(@, n, IF n \in DOMAIN @ THEN @[n] \cup {p} ELSE {p}),
                      !.ownerAdded = IF added /\ img.scanned THEN Append(@, owner) ELSE @]
      IN  Put(images, key, new)

\* Mutant: the default branch is missing, so a Succeeded or Failed pod
\* keeps its reservation.
updateNodesUsageFromPodNoRelease(p, phase, n) ==
    IF phase \in {"Pending", "Running"}
    THEN IF n \in DOMAIN dnodes
         THEN [dnodes EXCEPT ![n].pods = @ \cup {p}]
         ELSE Put(dnodes, n, [arch |-> NoArch, cpu |-> 0, mem |-> 0, pods |-> {p}])
    ELSE dnodes

\* updateNodesUsageFromPod: Pending and Running pods reserve capacity on
\* the node the event names, creating an empty node (no architecture, zero
\* allocatable) when it is unknown, "" for a pod not scheduled yet; other
\* phases release it there.
updateNodesUsageFromPod(p, phase, n) ==
    IF phase \in {"Pending", "Running"}
    THEN IF n \in DOMAIN dnodes
         THEN [dnodes EXCEPT ![n].pods = @ \cup {p}]
         ELSE Put(dnodes, n, [arch |-> NoArch, cpu |-> 0, mem |-> 0, pods |-> {p}])
    ELSE IF n \in DOMAIN dnodes
         THEN [dnodes EXCEPT ![n].pods = @ \ {p}]
         ELSE dnodes

\* handlePodUpdate: upsertImages, then updateNodesUsageFromPod.
handlePodUpdate ==
    /\ queue["Pod"] # <<>>
    /\ Head1("Pod").op = "upsert"
    /\ LET e == Head1("Pod") IN
         /\ images' = upsertImages(e.obj, e.phase, e.node)
         /\ dnodes' = updateNodesUsageFromPod(e.obj, e.phase, e.node)
    /\ Pop("Pod")
    /\ UNCHANGED <<nodeState, podPhase, podNode, ctrlState, updates, rsCache, jobCache>>

\* Mutant: the owner is deleted without checking that its pod set is empty.
PodDeletedDropOwner(img, p, n, owner) ==
    LET nodes  == IF n \in DOMAIN img.nodes
                  THEN [img.nodes EXCEPT ![n] = @ \ {p}] ELSE img.nodes
    IN  [img EXCEPT !.nodes = nodes, !.owners = Drop(@, owner),
                    !.ownerRemoved = IF owner \in DOMAIN img.owners /\ img.scanned
                                     THEN Append(@, owner) ELSE @]

\* handlePodDelete: in every image, drop the pod from its node's pod set and
\* from the pod set of its owner as resolved now; an owner left without pods
\* is removed (recorded when the image is scanned); an image left with no
\* nodes and no owners is purged.  Finally the pod's reservation is released.
PodDeleted(img, p, n, owner) ==
    LET nodes  == IF n \in DOMAIN img.nodes
                  THEN [img.nodes EXCEPT ![n] = @ \ {p}] ELSE img.nodes
        left   == IF owner \in DOMAIN img.owners THEN img.owners[owner] \ {p} ELSE {}
        gone   == owner \in DOMAIN img.owners /\ left = {}
        owners == IF owner \notin DOMAIN img.owners THEN img.owners
                  ELSE IF gone THEN Drop(img.owners, owner)
                  ELSE [img.owners EXCEPT ![owner] = left]
    IN  [img EXCEPT !.nodes = nodes, !.owners = owners,
                    !.ownerRemoved = IF gone /\ img.scanned THEN Append(@, owner) ELSE @]

handlePodDelete ==
    /\ queue["Pod"] # <<>>
    /\ Head1("Pod").op = "delete"
    /\ LET p     == Head1("Pod").obj
           n     == Head1("Pod").node
           owner == getPodOwnerID(p)
           after == [k \in DOMAIN images |-> PodDeleted(images[k], p, n, owner)]
       IN  /\ images' = Restrict(after, {k \in DOMAIN after : ~isUnused(after[k])})
           /\ dnodes' = IF n \in DOMAIN dnodes
                        THEN [dnodes EXCEPT ![n].pods = @ \ {p}] ELSE dnodes
    /\ Pop("Pod")
    /\ UNCHANGED <<nodeState, podPhase, podNode, ctrlState, updates, rsCache, jobCache>>

\* updateNodeUsage: a new node takes its architecture; allocatable CPU and
\* memory are (re)set, the architecture of a known node is left as it was.
updateNodeUsage ==
    /\ queue["Node"] # <<>>
    /\ Head1("Node").op = "upsert"
    /\ LET n == Head1("Node").obj IN
         dnodes' = IF n \in DOMAIN dnodes
                   THEN [dnodes EXCEPT ![n].cpu = NodeCPU[n], ![n].mem = NodeMem[n]]
                   ELSE Put(dnodes, n, [arch |-> NodeArch[n], cpu |-> NodeCPU[n],
                                        mem |-> NodeMem[n], pods |-> {}])
    /\ Pop("Node")
    /\ UNCHANGED <<nodeState, podPhase, podNode, ctrlState, updates, images, rsCache, jobCache>>

\* Mutant: the node is forgotten but left in the images' node sets.
handleNodeDeleteKeepImages ==
    /\ queue["Node"] # <<>>
    /\ Head1("Node").op = "delete"
    /\ dnodes' = Drop(dnodes, Head1("Node").obj)
    /\ Pop("Node")
    /\ UNCHANGED <<nodeState, podPhase, podNode, ctrlState, updates, images, rsCache, jobCache>>

\* handleNodeDelete: forget the node, remove it from every image and purge
\* the images left unused.
handleNodeDelete ==
    /\ queue["Node"] # <<>>
    /\ Head1("Node").op = "delete"
    /\ LET n     == Head1("Node").obj
           after == [k \in DOMAIN images |-> [images[k] EXCEPT !.nodes = Drop(@, n)]]
       IN  /\ dnodes' = Drop(dnodes, n)
           /\ images' = Restrict(after, {k \in DOMAIN after : ~isUnused(after[k])})
    /\ Pop("Node")
    /\ UNCHANGED <<nodeState, podPhase, podNode, ctrlState, updates, rsCache, jobCache>>

\* upsert of a ReplicaSet or a Job: d.rs[key] = v / d.jobs[key] = v.
Cache(kind) == IF kind = "ReplicaSet" THEN rsCache ELSE jobCache
SetCache(kind, v) ==
    IF kind = "ReplicaSet" THEN rsCache' = v /\ UNCHANGED jobCache
                           ELSE jobCache' = v /\ UNCHANGED rsCache

CacheUpsert(kind) ==
    /\ queue[kind] # <<>>
    /\ Head1(kind).op = "upsert"
    /\ SetCache(kind, Cache(kind) \cup {Head1(kind).obj})
    /\ Pop(kind)
    /\ UNCHANGED <<nodeState, podPhase, podNode, ctrlState, updates, images, dnodes>>

\* delete of a ReplicaSet or a Job: delete(d.rs, key) / delete(d.jobs, key).
CacheDelete(kind) ==
    /\ queue[kind] # <<>>
    /\ Head1(kind).op = "delete"
    /\ SetCache(kind, Cache(kind) \ {Head1(kind).obj})
    /\ Pop(kind)
    /\ UNCHANGED <<nodeState, podPhase, podNode, ctrlState, updates, images, dnodes>>

-----------------------------------------------------------------------------
(* The cluster: object lifecycles and the events their changes emit.       *)

\* Informer handlers block when the subscriber channels are full; the
\* model blocks the cluster once MaxInFlight events are pending.
InFlight == Len(queue["Pod"]) + Len(queue["Node"]) + Len(queue["ReplicaSet"]) + Len(queue["Job"])
Emit(kind, e) ==
    /\ InFlight < MaxInFlight
    /\ queue' = [queue EXCEPT ![kind] = Append(@, e)]
KindOf(r) == IF r \in ReplicaSets THEN "ReplicaSet" ELSE "Job"

NodeAdd(n) ==
    /\ nodeState[n] = "Absent"
    /\ nodeState' = [nodeState EXCEPT ![n] = "Up"]
    /\ Emit("Node", Event("upsert", n, NoPhase, NoNode))
    /\ UNCHANGED <<podPhase, podNode, ctrlState, updates, delta>>

\* A node status update (heartbeat, capacity change) re-sends the node.
NodeUpdate(n) ==
    /\ nodeState[n] = "Up"
    /\ updates < MaxUpdates
    /\ updates' = updates + 1
    /\ Emit("Node", Event("upsert", n, NoPhase, NoNode))
    /\ UNCHANGED <<nodeState, podPhase, podNode, ctrlState, delta>>

\* Deleting a node does not wait for its pods (the pod garbage collector
\* removes them afterwards).
NodeRemove(n) ==
    /\ nodeState[n] = "Up"
    /\ nodeState' = [nodeState EXCEPT ![n] = "Gone"]
    /\ Emit("Node", Event("delete", n, NoPhase, NoNode))
    /\ UNCHANGED <<podPhase, podNode, ctrlState, updates, delta>>

ControllerAdd(r) ==
    /\ ctrlState[r] = "Absent"
    /\ ctrlState' = [ctrlState EXCEPT ![r] = "Up"]
    /\ Emit(KindOf(r), Event("upsert", r, NoPhase, NoNode))
    /\ UNCHANGED <<nodeState, podPhase, podNode, updates, delta>>

\* Deleting a replica set or job does not wait for its pods (background
\* cascading deletion removes them afterwards).
ControllerRemove(r) ==
    /\ ctrlState[r] = "Up"
    /\ ctrlState' = [ctrlState EXCEPT ![r] = "Gone"]
    /\ Emit(KindOf(r), Event("delete", r, NoPhase, NoNode))
    /\ UNCHANGED <<nodeState, podPhase, podNode, updates, delta>>

\* A pod is created by its live controller, Pending and not scheduled.
PodCreate(p) ==
    /\ podPhase[p] = "Absent"
    /\ PodRef[p] \in ReplicaSets \cup Jobs => ctrlState[PodRef[p]] = "Up"
    /\ podPhase' = [podPhase EXCEPT ![p] = "Pending"]
    /\ Emit("Pod", Event("upsert", p, "Pending", NoNode))
    /\ UNCHANGED <<nodeState, podNode, ctrlState, updates, delta>>

\* The scheduler binds a Pending pod to a live node; the pod informer sees
\* an update with Spec.NodeName set.
PodBind(p, n) ==
    /\ podPhase[p] = "Pending" /\ podNode[p] = NoNode
    /\ n \in PodNodes[p] /\ nodeState[n] = "Up"
    /\ podNode' = [podNode EXCEPT ![p] = n]
    /\ Emit("Pod", Event("upsert", p, "Pending", n))
    /\ UNCHANGED <<nodeState, podPhase, ctrlState, updates, delta>>

PodStart(p) ==
    /\ podPhase[p] = "Pending" /\ podNode[p] # NoNode
    /\ nodeState[podNode[p]] = "Up"
    /\ podPhase' = [podPhase EXCEPT ![p] = "Running"]
    /\ Emit("Pod", Event("upsert", p, "Running", podNode[p]))
    /\ UNCHANGED <<nodeState, podNode, ctrlState, updates, delta>>

\* A status-only update of a running pod (readiness, restarts).
PodUpdate(p) ==
    /\ podPhase[p] = "Running"
    /\ updates < MaxUpdates
    /\ updates' = updates + 1
    /\ Emit("Pod", Event("upsert", p, "Running", podNode[p]))
    /\ UNCHANGED <<nodeState, podPhase, podNode, ctrlState, delta>>

PodComplete(p) ==
    /\ podPhase[p] = "Running"
    /\ podPhase' = [podPhase EXCEPT ![p] = "Succeeded"]
    /\ Emit("Pod", Event("upsert", p, "Succeeded", podNode[p]))
    /\ UNCHANGED <<nodeState, podNode, ctrlState, updates, delta>>

PodRemove(p) ==
    /\ podPhase[p] \in Phases
    /\ podPhase' = [podPhase EXCEPT ![p] = "Gone"]
    /\ Emit("Pod", Event("delete", p, podPhase[p], podNode[p]))
    /\ UNCHANGED <<nodeState, podNode, ctrlState, updates, delta>>

-----------------------------------------------------------------------------

Init ==
    /\ nodeState = [n \in Nodes |-> "Absent"]
    /\ podPhase = [p \in Pods |-> "Absent"]
    /\ podNode = [p \in Pods |-> NoNode]
    /\ ctrlState = [r \in ReplicaSets \cup Jobs |-> "Absent"]
    /\ updates = 0
    /\ queue = [k \in Kinds |-> <<>>]
    /\ images = buildImageMap(InitialScanned)
    /\ dnodes = EmptyMap
    /\ rsCache = {}
    /\ jobCache = {}

Cluster ==
    \/ \E n \in Nodes : NodeAdd(n) \/ NodeUpdate(n) \/ NodeRemove(n)
    \/ \E r \in ReplicaSets \cup Jobs : ControllerAdd(r) \/ ControllerRemove(r)
    \/ \E p \in Pods : \/ PodCreate(p) \/ PodStart(p) \/ PodUpdate(p)
                      \/ \E n \in Nodes : PodBind(p, n)
                      \/ PodComplete(p) \/ PodRemove(p)

Delta ==
    \/ handlePodUpdate
    \/ handlePodDelete
    \/ updateNodeUsage
    \/ handleNodeDelete
    \/ \E kind \in {"ReplicaSet", "Job"} : CacheUpsert(kind) \/ CacheDelete(kind)

Next == Cluster \/ Delta

\* The consumer goroutine drains the queue whenever it holds an event.
Spec == Init /\ [][Next]_vars /\ WF_vars(Delta)

-----------------------------------------------------------------------------
(* Properties.  Most are stated at quiescence: once every event emitted so *)
(* far has been applied, the delta's view must agree with the cluster.     *)

Quiescent == \A k \in Kinds : queue[k] = <<>>
Live(p) == podPhase[p] \in Phases
ReservingPods(n) == {p \in Pods : podNode[p] = n /\ podPhase[p] \in {"Pending", "Running"}}
Tracks(img, p) ==
    /\ podNode[p] \in DOMAIN img.nodes /\ p \in img.nodes[podNode[p]]
    /\ \E o \in DOMAIN img.owners : p \in img.owners[o]

TypeOK ==
    /\ nodeState \in [Nodes -> {"Absent", "Up", "Gone"}]
    /\ podPhase \in [Pods -> {"Absent", "Gone"} \cup Phases]
    /\ podNode \in [Pods -> Nodes \cup {NoNode}]
    /\ ctrlState \in [ReplicaSets \cup Jobs -> {"Absent", "Up", "Gone"}]
    /\ updates \in 0..MaxUpdates
    /\ \A k \in DOMAIN images :
         /\ k = CacheKey(images[k]) /\ k[2] \in Archs \cup {NoArch}
         /\ DOMAIN images[k].owners \subseteq OwnerIds
         /\ DOMAIN images[k].nodes \subseteq Nodes
         /\ \A o \in DOMAIN images[k].owners : images[k].owners[o] \subseteq Pods
         /\ \A n \in DOMAIN images[k].nodes : images[k].nodes[n] \subseteq Pods
    /\ DOMAIN dnodes \subseteq Nodes \cup {NoNode}
    /\ \A n \in DOMAIN dnodes : dnodes[n].pods \subseteq Pods
    /\ rsCache \subseteq ReplicaSets /\ jobCache \subseteq Jobs

\* Once the queue is drained, every live node is tracked with its
\* allocatable resources and reserves exactly the Pending and Running pods
\* bound to it (updateNodeUsage, updateNodesUsageFromPod, handlePodDelete,
\* handleNodeDelete), whatever the order in which node and pod events
\* arrived: findBestNode reads these reservations of the live nodes.
NodeViewConverges ==
    Quiescent =>
      \A n \in Nodes : nodeState[n] = "Up" =>
          /\ n \in DOMAIN dnodes
          /\ dnodes[n].cpu = NodeCPU[n] /\ dnodes[n].mem = NodeMem[n]
          /\ dnodes[n].pods = ReservingPods(n)

\* Once the queue is drained, every Running pod on a live node is a member
\* of an image of its image ID, under its node and under some owner:
\* upsertImages records it and no later handler (another pod's delete, a
\* replica set disappearing, a node delete) drops it.
RunningPodsTracked ==
    Quiescent =>
      \A p \in Pods : podPhase[p] = "Running" /\ nodeState[podNode[p]] = "Up" =>
          \E k \in DOMAIN images : k[1] = PodImage[p] /\ Tracks(images[k], p)

\* The owners the remote authority holds for an image it reported scanned
\* at start-up (no report is sent by the delta itself).
RemoteOwners(k) == UNION {s.owners : s \in {s \in InitialScanned : <<s.id, s.arch>> = k}}

\* For an image the remote authority reported as scanned, every owner it
\* does not know is in ownerChanges.addedIDS and every owner it knows that
\* is gone is in ownerChanges.removedIDs, so an incremental report brings it
\* up to date (upsertImages and handlePodDelete record the changes).
IncrementalOwnersComplete ==
    \A k \in DOMAIN images :
        images[k].scanned /\ k \in {<<s.id, s.arch>> : s \in InitialScanned} =>
          /\ DOMAIN images[k].owners \ RemoteOwners(k) \subseteq Range(images[k].ownerAdded)
          /\ RemoteOwners(k) \ DOMAIN images[k].owners \subseteq Range(images[k].ownerRemoved)

\* Once the queue is drained, an owner of an image only lists pods that
\* still exist: handlePodDelete removes a deleted pod from its owner.
OwnerPodsLive ==
    Quiescent =>
      \A k \in DOMAIN images : \A o \in DOMAIN images[k].owners :
          \A p \in images[k].owners[o] : Live(p)

\* Once the queue is drained, an image no pod uses any more is purged
\* (spec: an image with no owners and no nodes is dropped); checked without
\* remote-seeded images, whose owners have no pods by construction.
UnusedImagePurged ==
    Quiescent =>
      \A k \in DOMAIN images :
          \/ \E n \in DOMAIN images[k].nodes : images[k].nodes[n] # {}
          \/ \E o \in DOMAIN images[k].owners : images[k].owners[o] # {}

\* Once the queue is drained, an image placed on a live node has that
\* node's architecture in its cache key (upsertImages keys the image by the
\* architecture of the tracked node).
ImageArchMatchesNode ==
    Quiescent =>
      \A k \in DOMAIN images : \A n \in DOMAIN images[k].nodes :
          images[k].nodes[n] # {} /\ nodeState[n] = "Up" => k[2] = NodeArch[n]

\* Once the queue is drained, every tracked node exists in the cluster
\* (handleNodeDelete forgets a deleted node).
TrackedNodesExist ==
    Quiescent => \A n \in DOMAIN dnodes : nodeState[n] = "Up"

\* Once the queue is drained, a pod reserves capacity only under the node
\* name it now has: a pod seen Pending before it was scheduled (Spec.NodeName
\* "") and bound since holds no reservation under "" (updateNodesUsageFromPod
\* adds it to d.nodes[""]; the bind update and handlePodDelete only touch
\* d.nodes[v.Spec.NodeName]).
ReservedOnBoundNode ==
    Quiescent => \A n \in DOMAIN dnodes : \A p \in dnodes[n].pods : podNode[p] = n

====
