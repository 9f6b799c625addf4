---------------------------- MODULE ScanController ----------------------------
(***************************************************************************)
(* The image-scan Controller (package imagescan, Controller.Run,           *)
(* scheduleScans, scanImages, findBestNodeAndMode, updateImageStatuses,    *)
(* syncFromRemoteState) driving the delta state of DeltaState and placing  *)
(* scans with the findBestNode of NodeFit.                                 *)
(*                                                                         *)
(* Run is one goroutine: it applies queued delta events, or, on a scan     *)
(* tick, runs a scheduling pass.  A pass syncs scanned state from the      *)
(* remote, reports image statuses and starts one goroutine per selected    *)
(* image; scanImages waits for all of them, so no delta event is applied   *)
(* while a scan runs.  The scan goroutines of one pass interleave with     *)
(* each other and with the informers, which keep queueing events.         *)
(*                                                                         *)
(* The remote authority is modelled by what the controller relies on: the *)
(* images it holds as scanned (remoteScanned) and the owners it was told   *)
(* of (remoteView), which a FullSnapshot report replaces and any other     *)
(* report updates image by image.                                          *)
(***************************************************************************)
EXTENDS Naturals, FiniteSets, Sequences, SequencesExt, FiniteSetsExt

CONSTANTS
    Nodes, Pods, ReplicaSets, Jobs, Workloads, ImageIds, Archs, DefaultArch,
    NoArch, NoRef, NodeArch, NodeCPU, NodeMem, PodNodes, PodRef, PodImage,
    Parent, InitialScanned, MaxUpdates,
    MaxInFlight,
    NodeOS,             \* n.Status.NodeInfo.OperatingSystem
    Managed,            \* nodes filterCastAIManagedNodes keeps
    PodCPU, PodMem,     \* sumPodRequestCPU / sumPodRequestMemory of a pod
    ScanCPU, ScanMem,   \* cfg.CPURequest / cfg.MemoryRequest of a scan job
    Mode,               \* cfg.Mode: "hostfs" or "remote"
    MaxConcurrentScans, \* cfg.MaxConcurrentScans
    NoNode,             \* no node resolved
    MaxFailures         \* time lets an image's backoff expire only below this

VARIABLES
    nodeState, podPhase, podNode, ctrlState, updates, queue,
    images, dnodes, rsCache, jobCache,
    started,          \* waitInitialDeltaQueueSync has timed out
    batch,            \* images whose scan goroutine has not returned yet
    hostFSDisabled,   \* deltaState.hostFSDisabled
    fullSnapshotSent, \* Controller.fullSnapshotSent
    remoteScanned,    \* cache keys the remote holds scan results for
    remoteView,       \* cache key -> owner IDs, as last reported
    lastPlacement     \* the last scan goroutine's placement

D  == INSTANCE DeltaState

ASSUME /\ NodeOS \in [Nodes -> {"linux", "windows"}] /\ Managed \subseteq Nodes
       /\ PodCPU \in [Pods -> Nat] /\ PodMem \in [Pods -> Nat]
       /\ ScanCPU \in Nat /\ ScanMem \in Nat /\ Mode \in {"hostfs", "remote"}
       /\ MaxConcurrentScans \in Nat /\ NoNode \notin Nodes /\ MaxFailures \in Nat

ctl  == <<started, batch, hostFSDisabled, fullSnapshotSent, remoteScanned,
          remoteView, lastPlacement>>
dvars == <<nodeState, podPhase, podNode, ctrlState, updates, queue,
           images, dnodes, rsCache, jobCache>>
vars == <<dvars, ctl>>

-----------------------------------------------------------------------------
(* delta.go operations the controller calls.                              *)

\* What findBestNode reads of d.nodes: allocatable and the summed requests
\* of the pods reserving the node (sumPodRequestCPU / sumPodRequestMemory).
FitView == [n \in DOMAIN dnodes |->
              [allocCPU |-> dnodes[n].cpu, allocMem |-> dnodes[n].mem,
               podsCPU |-> MapThenSumSet(LAMBDA p : PodCPU[p], dnodes[n].pods),
               podsMem |-> MapThenSumSet(LAMBDA p : PodMem[p], dnodes[n].pods)]]

NF == INSTANCE NodeFit WITH Names <- Nodes, Tracked <- Nodes, AllocValues <- Nat,
        ReqValues <- Nat, NoCandidates <- NoNode, nodes <- FitView,
        nodeNames <- <<>>, reqMem <- 0, reqCPU <- 0, result <- NoNode

\* wait.Backoff.Step without jitter or cap: the current Duration is
\* returned; while Steps remain, Steps decreases and Duration is multiplied
\* by Factor for the next call.
BackoffAdvanceNoSteps(b) == [duration |-> b.duration * 3, steps |-> b.steps]

BackoffAdvance(b) ==
    IF b.steps < 1 THEN b ELSE [duration |-> b.duration * 3, steps |-> b.steps - 1]

\* setImageScanError's classification of the (parsed) scan error.
Classify(err) ==
    CASE err = "noSuchFile"   -> "layerNotFound"
      [] err = "unauthorized" -> "private"
      [] OTHER                -> "other"

\* setImageScanError: a known image counts the failure, keeps the
\* classified error and waits out the next backoff step.
setImageScanError(imgs, k, err) ==
    IF k \notin DOMAIN imgs THEN imgs
    ELSE [imgs EXCEPT ![k] = [@ EXCEPT !.failures = @ + 1, !.lastErr = Classify(err),
                                       !.retryBackoff = BackoffAdvance(@),
                                       !.delay = imgs[k].retryBackoff.duration,
                                       !.waiting = TRUE]]

\* updateImage(img, func(i) { i.scanned = true }).
updateImage(imgs, k) ==
    IF k \notin DOMAIN imgs THEN imgs ELSE [imgs EXCEPT ![k].scanned = TRUE]

ownerChangesEmpty(img) == img.ownerAdded = <<>> /\ img.ownerRemoved = <<>>

nodeCount == Cardinality(DOMAIN dnodes)

-----------------------------------------------------------------------------
(* Controller helpers.                                                     *)

isImagePrivate(img) == img.lastErr = "private"

isImagePending(img) ==
    ~img.scanned /\ DOMAIN img.owners # {} /\ ~isImagePrivate(img) /\ ~img.waiting

concurrentScansNumber == IF nodeCount = 1 THEN 1 ELSE MaxConcurrentScans

\* Mutant: the sort.Slice comparator of findPendingImages is reversed.
lessFailuresReversed(imgs, a, b) == imgs[a].failures > imgs[b].failures

\* The sort.Slice comparator of findPendingImages.
lessFailures(imgs, a, b) == imgs[a].failures < imgs[b].failures

\* sort.Slice on a short slice: Go's insertion sort under lessFailures.
RECURSIVE SiftFailures(_, _, _)
SiftFailures(imgs, s, j) ==
    IF j > 1 /\ lessFailures(imgs, s[j], s[j-1])
    THEN SiftFailures(imgs, [s EXCEPT ![j] = s[j-1], ![j-1] = s[j]], j - 1)
    ELSE s

RECURSIVE SortPass(_, _, _)
SortPass(imgs, s, i) == IF i > Len(s) THEN s ELSE SortPass(imgs, SiftFailures(imgs, s, i), i + 1)

\* findPendingImages, truncated to concurrentScansNumber by scheduleScans;
\* getImages lists the map in any order.
Selections(imgs) ==
    LET pending == {k \in DOMAIN imgs : isImagePending(imgs[k])}
    IN  {Range(SubSeq(SortPass(imgs, s, 2), 1, Min({concurrentScansNumber, Len(s)}))) :
            s \in SetToSeqs(pending)}

\* syncFromRemoteState: the unscanned images not synced in the last 10
\* minutes are queried by ID; on a response they are marked synced and
\* those the remote holds as scanned are marked scanned (setImageScanned).
SyncQuery(imgs) == {k \in DOMAIN imgs : ~imgs[k].scanned /\ ~imgs[k].synced}
AfterSync(imgs) ==
    LET q == SyncQuery(imgs)  ids == {k[1] : k \in q}
    IN  [k \in DOMAIN imgs |->
           [imgs[k] EXCEPT !.synced = @ \/ k \in q,
                           !.scanned = @ \/ (k[1] \in ids /\ k \in remoteScanned)]]

\* updateImageStatuses: the full list until a snapshot was sent, then the
\* images whose owners changed since they were last reported.
ToReport(imgs, sent) ==
    IF sent THEN {k \in DOMAIN imgs : ~ownerChangesEmpty(imgs[k])} ELSE DOMAIN imgs

\* The remote applying UpdateImagesStatusRequest{FullSnapshot, Images}.
RemoteApply(view, imgs, keys, full) ==
    IF full THEN [k \in keys |-> DOMAIN imgs[k].owners]
    ELSE [k \in DOMAIN view \cup keys |->
            IF k \in keys THEN DOMAIN imgs[k].owners ELSE view[k]]

\* A reported image's resourcesUpdatedAt moves past its owner changes.
MarkReported(imgs, keys) ==
    [k \in DOMAIN imgs |->
        IF k \in keys THEN [imgs[k] EXCEPT !.ownerAdded = <<>>, !.ownerRemoved = <<>>]
        ELSE imgs[k]]

\* filterWindowsNodes, reading the OS of the tracked node (a node the delta
\* created from a pod event has none).
nodeOS(n) == IF dnodes[n].arch = NoArch THEN "" ELSE NodeOS[n]
filterWindowsNodes(names) == {n \in names : nodeOS(n) = "linux"}

Placed(n, m) == [node |-> n, mode |-> m, err |-> "none"]
Failed(e)    == [node |-> NoNode, mode |-> "none", err |-> e]

\* findBestNode over the candidate names in every order lo.Keys may list them.
BestNodes(names) == {NF!findBestNode(s, ScanMem, ScanCPU) : s \in SetToSeqs(names)}

\* findBestNodeAndMode: remote after a layer-not-found error; in hostfs mode
\* the image's nodes, or every node in remote mode when none of them is
\* managed; non-Linux nodes dropped; on errNoCandidates in hostfs mode one
\* more try in remote mode over all the delta's nodes.
findBestNodeAndMode(k) ==
    LET img   == images[k]
        mode0 == IF img.lastErr = "layerNotFound" THEN "remote" ELSE Mode
        mgd   == DOMAIN img.nodes \cap Managed
        mode  == IF mode0 = "hostfs" /\ mgd = {} THEN "remote" ELSE mode0
        names == IF mode = "hostfs" THEN mgd ELSE DOMAIN dnodes
        retry == {IF r = NoNode THEN Failed("noCandidates") ELSE Placed(r, "remote") :
                    r \in BestNodes(DOMAIN dnodes)}
    IN  IF mode0 = "hostfs" /\ DOMAIN img.nodes = {} THEN {Failed("emptyNodes")}
        ELSE UNION {IF r # NoNode THEN {Placed(r, mode)}
                    ELSE IF mode = "hostfs" THEN retry ELSE {Failed("noCandidates")} :
                      r \in BestNodes(filterWindowsNodes(names))}

-----------------------------------------------------------------------------
(* Actions.                                                                *)

\* Mutant: Run applies delta events while a scan pass is running.
ApplyDuringPass ==
    /\ D!Delta
    /\ UNCHANGED ctl

\* Run / waitInitialDeltaQueueSync: apply one queued event.  Run does so
\* only between passes, scheduleScans blocking the loop.
Apply ==
    /\ batch = {}
    /\ D!Delta
    /\ UNCHANGED ctl

\* waitInitialDeltaQueueSync returns after initialScansDelay.
InitialSyncTimeout ==
    /\ ~started
    /\ started' = TRUE
    /\ UNCHANGED <<dvars, batch, hostFSDisabled, fullSnapshotSent, remoteScanned,
                   remoteView, lastPlacement>>

\* scheduleScans on a scan tick: syncFromRemoteState (the call fails, or
\* answers, possibly asking for a full resync), updateImageStatuses (the
\* report fails or is applied), then findPendingImages truncated to
\* concurrentScansNumber, one scan goroutine started per image.
scheduleScans ==
    /\ started /\ batch = {}
    /\ \E syncOk \in BOOLEAN, fullResync \in BOOLEAN, reportOk \in BOOLEAN :
         LET asked  == SyncQuery(images) # {}
             imgs1  == IF asked /\ syncOk THEN AfterSync(images) ELSE images
             sent1  == IF asked /\ syncOk /\ fullResync THEN FALSE ELSE fullSnapshotSent
             keys   == ToReport(imgs1, sent1)
             sends  == keys # {} /\ reportOk
             imgs2  == IF sends THEN MarkReported(imgs1, keys) ELSE imgs1
         IN  /\ (~asked => syncOk /\ ~fullResync)
             /\ (keys = {} => reportOk)
             /\ images' = imgs2
             /\ fullSnapshotSent' = (sent1 \/ sends)
             /\ remoteView' = IF sends THEN RemoteApply(remoteView, imgs1, keys, sent1)
                              ELSE remoteView
             /\ batch' \in Selections(imgs2)
    /\ UNCHANGED <<nodeState, podPhase, podNode, ctrlState, updates, queue, dnodes, rsCache,
                   jobCache, started, hostFSDisabled, remoteScanned,
                   lastPlacement>>

\* scanImage: a placement error is returned as the scan error; otherwise
\* the scan job runs on the placed node and succeeds or fails with a
\* registry, layer or job error.
scanImage(k) ==
    {[node |-> pl.node, mode |-> pl.mode, err |-> pl.err] : pl \in {pl \in findBestNodeAndMode(k) : pl.node = NoNode}}
    \cup
    {[node |-> pl.node, mode |-> pl.mode, err |-> res] :
        pl \in {pl \in findBestNodeAndMode(k) : pl.node # NoNode},
        res \in {"ok", "noSuchFile", "unauthorized", "jobFailed"}}

\* One scan goroutine of scanImages: an error is classified by
\* setImageScanError (and reported as failed), success marks the image
\* scanned, the collector having sent its metadata to the remote.
ScanUnit(k) ==
    /\ k \in batch
    /\ batch' = batch \ {k}
    /\ \E r \in scanImage(k) :
         /\ lastPlacement' = [node |-> r.node, mode |-> r.mode]
         /\ IF r.err = "ok"
            THEN /\ images' = updateImage(images, k)
                 /\ remoteScanned' = remoteScanned \cup {k}
                 /\ UNCHANGED hostFSDisabled
            ELSE /\ images' = setImageScanError(images, k, r.err)
                 /\ hostFSDisabled' = (hostFSDisabled \/ Classify(r.err) = "layerNotFound")
                 /\ UNCHANGED remoteScanned
    /\ UNCHANGED <<nodeState, podPhase, podNode, ctrlState, updates, queue, dnodes, rsCache,
                   jobCache, started, fullSnapshotSent, remoteView>>

\* Time passes: an image's nextScan is reached (while it has failed fewer
\* than MaxFailures times), or its remote sync is 10 minutes old.
BackoffExpires(k) ==
    /\ k \in DOMAIN images /\ images[k].waiting /\ images[k].failures < MaxFailures
    /\ images' = [images EXCEPT ![k].waiting = FALSE]
    /\ UNCHANGED <<nodeState, podPhase, podNode, ctrlState, updates, queue, dnodes, rsCache,
                   jobCache, ctl>>

SyncExpires(k) ==
    /\ k \in DOMAIN images /\ images[k].synced
    /\ images' = [images EXCEPT ![k].synced = FALSE]
    /\ UNCHANGED <<nodeState, podPhase, podNode, ctrlState, updates, queue, dnodes, rsCache,
                   jobCache, ctl>>

Keys == ImageIds \X (Archs \cup {NoArch})

InitialKeys == {<<s.id, s.arch>> : s \in InitialScanned}

Init ==
    /\ D!Init
    /\ started = FALSE
    /\ batch = {}
    /\ hostFSDisabled = FALSE
    /\ fullSnapshotSent = FALSE
    /\ remoteScanned = InitialKeys
    /\ remoteView = [k \in InitialKeys |->
                        UNION {s.owners : s \in {s \in InitialScanned : <<s.id, s.arch>> = k}}]
    /\ lastPlacement = [node |-> NoNode, mode |-> "none"]

Next ==
    \/ D!Cluster /\ UNCHANGED ctl
    \/ Apply
    \/ InitialSyncTimeout
    \/ scheduleScans
    \/ \E k \in Keys : ScanUnit(k) \/ BackoffExpires(k) \/ SyncExpires(k)

\* Run's select takes the queue and the ticker in turn, the initial wait
\* times out, and scanImages waits for its scan goroutines, one of which
\* returns whenever some are running (each return shrinks the batch, so
\* every goroutine returns).
Spec ==
    /\ Init /\ [][Next]_vars
    /\ WF_vars(Apply) /\ WF_vars(InitialSyncTimeout) /\ WF_vars(scheduleScans)
    /\ WF_vars(\E k \in Keys : ScanUnit(k))

-----------------------------------------------------------------------------
(* Properties.                                                              *)

TypeOK ==
    /\ D!TypeOK
    /\ started \in BOOLEAN /\ hostFSDisabled \in BOOLEAN /\ fullSnapshotSent \in BOOLEAN
    /\ batch \subseteq DOMAIN images
    /\ remoteScanned \subseteq Keys
    /\ DOMAIN remoteView \subseteq Keys
    /\ \A k \in DOMAIN images :
         /\ images[k].failures \in 0..MaxFailures
         /\ images[k].lastErr \in {"none", "layerNotFound", "private", "other"}

\* While a pass runs, every node an image being scanned lists is tracked by
\* the delta, so filterWindowsNodes' s.delta.nodes[name].os never reads a
\* missing node (handleNodeDelete removes the node from every image, and
\* no delta event is applied during a pass).
ImageNodesTracked ==
    \A k \in batch : DOMAIN images[k].nodes \subseteq DOMAIN dnodes

Pending(imgs) == {k \in DOMAIN imgs : isImagePending(imgs[k])}

\* A pass never leaves out a pending image with fewer failures than one it
\* selects (findPendingImages sorts by failures, scheduleScans truncates).
FewestFailuresFirst ==
    [][batch = {} /\ batch' # {} =>
         \A a \in batch', b \in Pending(images') \ batch' :
             images'[a].failures <= images'[b].failures]_vars

\* An image waiting for a scan (unscanned, owned, not private, its backoff
\* over) does not wait forever: scheduleScans selects it or the remote
\* reports it scanned, or it stops being a candidate.
Eligible(k) ==
    /\ k \in DOMAIN images
    /\ ~images[k].scanned /\ DOMAIN images[k].owners # {}
    /\ images[k].lastErr # "private" /\ ~images[k].waiting

PendingImagesAttempted == \A k \in Keys : Eligible(k) ~> ~Eligible(k)

\* After n failures the next scan is 60s * 3^(n-1) away, up to the 9th
\* failure, and from then on stays at 60s * 3^8 (setImageScanError's
\* retryBackoff.Step(), wait.Backoff{60s, 3, 8}).
BackoffSchedule ==
    \A k \in DOMAIN images :
        images[k].failures > 0 =>
            images[k].delay = 60 * 3 ^ (Min({images[k].failures, 9}) - 1)

ScanStep == batch' # batch /\ batch' \subseteq batch

\* Once a layer-not-found error has set hostFSDisabled, no later scan is
\* placed in hostfs mode (spec 4.1: the error disables host-filesystem
\* scans cluster-wide for subsequent placement decisions).
HostFsDisabledHonoured ==
    [][ScanStep /\ hostFSDisabled => lastPlacement'.mode # "hostfs"]_vars

\* A scan job is only placed on a Linux node (filterWindowsNodes: non-linux
\* nodes are not supported).
PlacedOnLinux ==
    lastPlacement.node # NoNode => NodeOS[lastPlacement.node] = "linux"

\* A placement failure leaves the image's failures and backoff alone, so it
\* is retried on the next pass (spec 7: no backoff is advanced).
PlacementFailureNoBackoff ==
    [][ScanStep /\ lastPlacement'.node = NoNode =>
         \A k \in DOMAIN images \cap DOMAIN images' : images'[k].failures = images[k].failures]_vars

\* A status report never drops from the remote an image the delta still
\* tracks with owners (updateImageStatuses, FullSnapshot tags the report
\* holding every image).
ReportedImagesRetained ==
    [][\A k \in DOMAIN remoteView :
         k \in DOMAIN images' /\ DOMAIN images'[k].owners # {} => k \in DOMAIN remoteView']_vars

\* Once the delta is up to date and every owner change has been reported,
\* the remote lists no owner for an image the delta has dropped (spec 1:
\* local state is reconciled with the remote without losing updates).
PurgedImagesForgotten ==
    D!Quiescent /\ fullSnapshotSent /\ (\A k \in DOMAIN images : ownerChangesEmpty(images[k])) =>
        \A k \in DOMAIN remoteView \ DOMAIN images : remoteView[k] = {}

====
