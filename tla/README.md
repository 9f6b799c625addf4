# TLA+ models of kvisor's image-scan state

This directory holds TLA+ models of the parts of kvisor
(`src/`) that keep concurrent state: the image-scan *delta state* fed by the
Kubernetes informers, the node-fit resolver that places scan jobs, the scan
controller that drives both, the agent process with its leader election
and kube API retry transport, and the GKE cloud scanner, which is checked
against an abstract specification of the scan loop. TLC checks them. Every definition is translated from the Go source. `PROJECT.json`
maps each definition to the lines it models and lists the runs, the mutants,
the findings and the hazards.

## The system

| Part | Source | What it does |
|---|---|---|
| Kube controller | `src/unnamed/part_002` (`Controller.eventsHandler`, `handleEvent`, `GetPodOwnerID`) | It turns informer callbacks into `event`s. It sends each event to one goroutine per subscriber over a channel of capacity 10. That goroutine buffers pod events and flushes them every `podsBuffSyncInterval` (5s). Other kinds are handled at once. |
| Delta state | `src/imagescan/delta.go` | It is the image-scan subscriber's view of the cluster. It holds images keyed by id and architecture, each with per-owner and per-node pod sets. It also holds nodes with allocatable resources and the pods reserving them, a replica set cache and a job cache. A single consumer goroutine in the scan controller applies `upsert`/`delete` events from a queue. At start-up `NewDeltaState` builds the image map from the remote's list of scanned images (`buildImageMap`). |
| Owner resolution | `delta.go getPodOwnerID` | Pod → Job → CronJob, or Pod → ReplicaSet → Deployment, read through the delta's own caches. |
| Node fit | `delta.go findBestNode`, `node.availableCPU/Memory` | Picks a node with enough free memory and CPU for a scan job. It sorts the candidates with `sort.Slice`. |
| Scan scheduler | `src/Makefile` lines 183-638 (the `imagescan` `Controller`, stored in that file) | It drains the delta queue, picks pending images, places and dispatches scans, and reports to the CAST AI API. |
| CAST AI client | `src/unnamed/part_004` | It sends reports, retrying with exponential backoff. |
| Agent wiring | `src/main.go` (`src/unnamed/part_001` is a newer controller-runtime variant) | It handles start-up, leader election among the chart's 2 replicas and the kube API retry transport. |
| GKE cloud scanner | `src/cloudscan/gke/scanner.go` | `Start` loops: one `scan`, then it waits `ScanInterval` or returns once ctx is done. A scan reads the cluster, two service states and, when binary authorization is enabled, its policy. It then sends one CIS report. |
| EKS checks, metrics, charts | `part_003`, `part_000`, `charts/` | These are API-to-report mappings, Prometheus counters and configuration. |

**How the parts interact.** The informers of the different kinds (Pod, Node,
ReplicaSet, Job) run independently. The subscriber goroutine keeps the order of
events of one kind, but pods are delayed by up to 5s relative to the other
kinds. The delta therefore sees the events of each kind in order, with the
kinds interleaved arbitrarily. That interleaving is what most of the checks
explore. The scan controller's `Run` goroutine is the delta's only consumer:
it applies queued events, or on a tick runs a scheduling pass whose scan
goroutines interleave with each other and with the informers. The agent
process runs all of this only in the replica that holds the Lease.

## Modules

### `DeltaState.tla`: delta state under interleaved informers (`MC_DeltaState.tla`)

**Constants.** The module is parameterised by nodes, pods, replica sets, jobs,
workloads and images. Each pod's controller reference and image is fixed by
a constant function, and `PodNodes` gives the nodes the scheduler may bind it
to. Each controller's parent workload is fixed the same way.

**Cluster variables** (the truth the informers observe):
- `nodeState`, `podPhase`, `ctrlState`, and a bound `updates` on repeated updates;
- `podNode`: the pod's `Spec.NodeName`, `NoNode` (`""`) until the scheduler binds it;
- `queue`, one FIFO per kind. `queue` stands for the subscriber channel plus the pod buffer.

**Delta variables** (the fields of `deltaState`):
- `images`: a function from `CacheKey` = ⟨id, arch⟩ to the record of `newImage`.
- `dnodes`: `d.nodes`, each holding arch, allocatable and the reserving pods.
- `rsCache` and `jobCache`: `d.rs` and `d.jobs`.

**Cluster actions** emit exactly the events the informers would deliver:
- `NodeAdd`, `NodeUpdate`, `NodeRemove`;
- `ControllerAdd`, `ControllerRemove`;
- `PodCreate` (Pending, not scheduled), `PodBind` (the scheduler's update setting `Spec.NodeName`), `PodStart`, `PodUpdate`, `PodComplete` (Succeeded), `PodRemove`.

A pod event carries the phase and the node name the pod had when it changed,
and the handlers read the node from the event, as the Go handlers read
`v.Spec.NodeName` from the object they are given. Each cluster action calls `Emit`, which appends to the kind's FIFO while at most
`MaxInFlight` events are pending.

**Delta actions** are one per handler, each taking the head of one kind's FIFO:
- **`handlePodUpdate`** = `upsertImages` ∘ `updateNodesUsageFromPod`, in the code's order.
  - `upsertImages` reads the node's arch, defaulting to amd64. It resolves the owner through the caches. It records `ownerAdded` only for a new owner of a scanned image.
  - `updateNodesUsageFromPod` creates an unknown node, named `""` for a pod not bound yet. It then adds the pod for Pending/Running and removes it otherwise, always under the event's node name.
- **`handlePodDelete`** removes the pod from every image's node set and from the owner re-resolved *now*. For an owner left without pods it records `ownerRemoved` when the image is scanned, and purges the image when it is unused. It then removes the pod from its node.
- **`updateNodeUsage`** and **`handleNodeDelete`** do the same for nodes. The node delete also drops the node from every image and purges unused images.
- **`CacheUpsert`** and **`CacheDelete`** update the replica set and job maps.
- `Init` seeds the image map with `buildImageMap` over `InitialScanned`, as `NewDeltaState` does. `updateImagesFromRemote` (a full resync) and `Observe` have no caller in `src/`, so they are not actions.

**Fairness.** `Spec` has weak fairness on `Delta`. The scan controller's
consumer goroutine loops on the queue, so an event that stays pending is
eventually applied. Cluster actions get no fairness. The cluster may stop
changing at any point, and so the cfgs say `CHECK_DEADLOCK FALSE`: once the
bounded cluster is out of moves, the consumer blocks on an empty queue, as the
real one does.

### `NodeFit.tla`: `findBestNode` (`MC_NodeFit.tla`)

`Init` picks any table of tracked nodes. Each node has allocatable CPU and
memory from `AllocValues` and pod requests from `ReqValues`, so availability
may be negative. `Query` picks a list of distinct names and a memory and CPU
requirement, and records `findBestNode`'s answer.

`sort.Slice` on fewer than 13 elements is Go's insertion sort. It is modelled
as the recursive operators `Sift`/`InsertionPass` under the code's comparator
`less`. So the answer is exactly the one the code gives, not the one the
comparator's author meant. `Fitting` is an independent reference definition of
the fitting nodes, which `BestFitMaxCPU` compares the answer against.

### `ScanController.tla`: the scan controller (`MC_ScanController.tla`)

This module instantiates `DeltaState` (`D == INSTANCE DeltaState`) and uses
`NodeFit`'s `findBestNode` over the delta's node table.

**Added variables:**
- `started`: `waitInitialDeltaQueueSync` has timed out;
- `batch`: the images whose `scanImage` goroutine has not returned yet;
- `hostFSDisabled` and `fullSnapshotSent`: the delta's and the controller's flags;
- `remoteScanned` and `remoteView`: what the CAST AI side holds, meaning the images it has results for and the owners last reported per image;
- `lastPlacement`: the node and mode of the last scan. Only properties read it.

**Actions:**
- `Apply`: `Run` takes one queued delta event. It is only enabled between passes, because `scanImages` waits for its goroutines.
- `InitialSyncTimeout`: the initial wait ends.
- `scheduleScans`: one whole pass, run in the code's order:
  1. `syncFromRemoteState` (which may fail, and may be a full resync);
  2. `updateImageStatuses` with its `FullSnapshot` flag;
  3. `findPendingImages`, whose `sort.Slice` by failures is modelled as Go's insertion sort over every order of the map;
  4. truncation to `MaxConcurrentScans - concurrentScansNumber`.
- `ScanUnit(k)`: one goroutine's `scanImage`:
  - `findBestNodeAndMode`, with the Windows filter, the single-node rule, hostfs or remote mode, and the remote retry over all nodes;
  - then a success (`updateImage`) or a `setImageScanError` failure, which is classified and advances the `wait.Backoff{60s, ×3, 8 steps}`.
- `BackoffExpires(k)` and `SyncExpires(k)`: the time-based flags (`waiting`, `synced`) clear.

**Fairness.** `Spec` has weak fairness on:
- `Apply` and `scheduleScans`, because `Run`'s select serves the queue and the ticker;
- the initial timeout;
- the scan goroutines, because `scanImages` waits for all of them.

### `Agent.tla`: the agent process under leader election (`MC_Agent.tla`)

The chart deploys `replicas: 2` with `LEADER_ELECTION` on.

**Replica steps.** Each replica runs these steps of `main.go`:
- `Version`: `run`'s `version.Get`. An error ends in `log.Fatalf`.
- `Acquire`, `Renew`, `StopLeading` and `Release`: client-go's loop as `runWithLeaderElection` configures it. `ReleaseOnCancel` is set, LeaseDuration is 60s, RenewDeadline 15s and RetryPeriod 5s.
- `CandidateCancel`: the elector returns when ctx is done.
- `Exit`: `OnStoppedLeading`'s `os.Exit(0)`.

**The retry transport.** Every API call goes through `kubeRetryTransport.RoundTrip`:
- `Retried`: a connection-refused attempt is retried, at most 10 times;
- any other error is returned at once;
- `RetryStep`: a retry waits 3s.

**The environment:**
- `Signal`: SIGTERM;
- `Kill`: the pod dies without running its handlers;
- `ApiOutage(p)`: the API server stops or starts accepting replica p's connections (a server restart, or p's node cut off from it);
- `Tick`: 3s pass.

**Time.** Replicas keep the ages client-go measures on their own clocks:
- `obsAge`: time since the observed Lease record changed;
- `renewAge`: time since the replica's last renewal.

Ages are capped where the code stops comparing, and are held at 0 where they
are never read. So the state space is finite without a time horizon.

The tick is 3s. The 3s retry interval, the 60s lease and the 15s deadline are
exact; the 5s retry period is rounded up to 6s. `Tick` may not pass:
- a leader's renew deadline (a transport wait already in progress finishes first), because the renew request runs under the poll's context;
- a replica that is exiting, because `os.Exit` follows `release()` at once.

`release()` runs under `context.TODO` on a client without a timeout, so any
number of ticks may pass while a replica releases. Every other request is
bounded by a context or by the transport's retries.

**Outside the repository.** The acquire, renew and release rules
(`MayHold`, `WriteLease`, `ObserveLease`, `ObsAge`) are client-go's
`tryAcquireOrRenew`, which is not in `src/`. `PROJECT.json` maps them to the
`LeaderElectionConfig` at main.go:153-174, whose lock, identity and
durations they are parameterised by.

**Fairness.** There is weak fairness on each replica's own steps (its
goroutines keep running) and on `Tick`. `ApiOutage`, `Signal` and `Kill` get
none. Fairness on `Release` assumes a release request eventually returns:
nothing in the code bounds it, and in a cluster the kubelet's SIGKILL after
the grace period ends a replica whose release hangs.

### `GKEScanner.tla`: the GKE cloud scanner (`MC_GKEScanner.tla`)

**State:**
- `pc`: the scanner's place in `NewScanner`, `Start` and `scan`;
- `cancelled`: the agent's context is done;
- `binAuthOn` and `policyExists`: the project's settings in GCP;
- `read`: what the running scan has read;
- `policyErr`: its `GetPolicy` failed with an error other than NotFound;
- `lastReport`: the inputs of the last report the API accepted.

**Construction.** `newScanner` is `NewScanner`. It takes a configured
cluster name from `ClusterNames` and parses it with
`parseInfoFromClusterName`. A name is a sequence of tokens, each `"/"` or a
word, and `SplitSlash` is `strings.Split(name, "/")` over it, written with
`FoldRight`. A name that does not split into six parts, or has an empty
project or location, is an error. So is a failure of any of the three client
constructors. The error goes back to `run` (part_001:261), and the agent ends
(`pc = "failed"`).

**Actions.** There is one action per call of `scan`: `getCluster`,
`getContainerSvc`, `getBinAuthSvc`, `getPolicy` (only when the service is
ENABLED) and `send`. Every call but `GetPolicy` ends the scan on error
(`ScanFailed`). A failed `GetPolicy` is only logged, and the scan goes on
without a policy. `wait` is `Start`'s select: it returns once ctx is done, and
otherwise starts the next scan with fresh locals. Once ctx is done, every call
fails (`CallOk`). `Cancel` and `CloudChange` are the environment.

The checks' contents are abstracted to the two inputs the properties tell
apart: binary authorization read as enabled, and a policy read.

**Fairness.** There is weak fairness on `Scanner`, because the goroutine keeps
running. `Cancel` and `CloudChange` get none.

### `CloudScanLoop.tla`: what a cloud scanner promises

This is the abstract specification. It has a `phase` (init, running, stopped
or failed), `cancelled` and the last accepted `report`. Its actions are:
- `Start` or `Fail`: construction succeeds or fails;
- `Report`: only while running and not cancelled. The report is one of `Reports`, where a policy implies the binary-authorization service;
- `Cancel`;
- `Stop`: only once cancelled.

`GKEScanner` maps onto it with `Loop == INSTANCE CloudScanLoop WITH phase <-
Phase, report <- lastReport`. `Phase` is computed from `pc`. The steps of one
scan before `send` are stuttering steps of the abstract loop.

## Runs

| Run | cfg | Expect | What it shows |
|---|---|---|---|
| `delta_converges` | `DeltaState.cfg` | pass | Starts from the remote's list of scanned images. Pods are created unscheduled and bound to either node, and any interleaving of node, pod and replica set events is applied. `TypeOK`, `NodeViewConverges` and `RunningPodsTracked`: once the queues drain, every live node carries its allocatable resources and reserves exactly the Pending/Running pods bound to it, and every running pod is tracked under its image and node and under some owner. `IncrementalOwnersComplete`: for every scanned image the remote knows, each current owner missing from the remote list is in `ownerAdded`, and each remote owner with no pods left is in `ownerRemoved`. |
| `delta_owner_leak` | `DeltaState_ownerleak.cfg` | violation | `OwnerPodsLive` fails. A pod applied before its replica set is filed under the replica set. After the replica set is cached, the delete re-resolves the owner to the deployment, and the pod stays under the replica set forever. |
| `delta_wrong_arch` | `DeltaState_arch.cfg` | violation | `ImageArchMatchesNode` fails. A pod applied before its node creates the node with an empty arch and keys the image by it. The node event never corrects it. |
| `delta_phantom_node` | `DeltaState_phantom.cfg` | violation | `ReservedOnBoundNode` fails. A pod's first event has `Spec.NodeName` `""`, so `updateNodesUsageFromPod` (delta.go:159-167) reserves it in a node named `""`. The bind update, the Succeeded update and the delete all name the real node, so the pod stays reserved under `""` for good. |
| `nodefit_best` | `NodeFit_best.cfg` | violation | `BestFitMaxCPU` fails. The comparator compares available CPU with the *allocatable* CPU of the other node, so a node with less free CPU can win. |
| `ctrl_sched` | `ScanController.cfg` | pass | Scan goroutines interleave with informer events and node deletes. Two properties hold. `ImageNodesTracked`: every node an image in the running batch lists is tracked, so `filterWindowsNodes` never reads a missing node. `FewestFailuresFirst`: a pass never skips a pending image with fewer failures than one it selects. |
| `ctrl_retry` | `ScanController_retry.cfg` | pass | `BackoffSchedule`: after n failures the delay is 60s·3^(n-1), capped from the 9th failure. |
| `ctrl_windows` | `ScanController_windows.cfg` | violation | `PlacedOnLinux` fails. When no Linux node fits, the remote-mode retry sets `nodeNames = lo.Keys(s.delta.nodes)` (Makefile:449) without the Windows filter, and the scan lands on a Windows node. |
| `ctrl_full_snapshot` | `ScanController_report.cfg` | violation | `ReportedImagesRetained` fails. The report's flag is `FullSnapshot: s.fullSnapshotSent` (Makefile:550). The first report carries every image but is tagged incremental. Every later report carries only the changed images but is tagged `FullSnapshot`, so a remote that honours the tag drops the images the delta still tracks. |
| `agent_exclusion` | `Agent.cfg` | pass | Two replicas, with per-replica API outages, SIGTERM and pod kills at any time, and a release that may take any time. `TypeOK`: no call makes more than 10 retries. `ReplicaSignalLeadsToExit` (`SignalLeadsToExit` for replica r1, which stands for both: the replicas are interchangeable and equally fair): a signalled replica exits, because every blocking call but `release()` is bounded by the retry limit or a context. |
| `gke_loop` | `GKEScanner.cfg` | pass | The scanner is built from a well-formed or a malformed cluster name. Any call may fail, the cloud's settings change between calls and the context may be cancelled at any time. `ImplementsCloudScanLoop`: the scanner refines `CloudScanLoop`. Construction fails or starts the loop; a failed scan never ends `Start`; a report is accepted only while ctx is live; a policy is reported only together with the service read as enabled by the same scan. `CancelStops`: once ctx is done, the scanner halts. |
| `agent_overlap` | `Agent_overlap.cfg` | violation | `MutualExclusion`, the rule stated by the comment at main.go:164-169, fails. `work` ignores ctx and stops only at `os.Exit` in `OnStoppedLeading`, which client-go calls after `ReleaseOnCancel` has cleared the Lease. A second replica acquires the lease and starts work while the first still works. |

Each property of a passing run has a mutant in `PROJECT.json`: a plausible bug
in the mapped code that TLC then catches.

- The image key ignores the node's arch, which breaks `TypeOK`.
- The pod's reservation is never released, which breaks `NodeViewConverges`.
- The owner is dropped while other pods still use it, which breaks `RunningPodsTracked`.
- The `ownerAdded` change is not recorded, which breaks `IncrementalOwnersComplete`.
- A delta event is applied during a pass, which breaks `TypeOK` of the controller.
- `handleNodeDelete` keeps the node in images, which breaks `ImageNodesTracked`.
- The sort is reversed, which breaks `FewestFailuresFirst`.
- The backoff's steps never run out, which breaks `BackoffSchedule`.
- The transport retries a refused connection without a limit, which breaks `TypeOK` of the agent.
- The elector gets a context the signal never cancels, which breaks `ReplicaSignalLeadsToExit`.
- `Start` returns when a scan fails, which breaks `ImplementsCloudScanLoop`.
- `Start`'s select only waits for the timer, which breaks `CancelStops`.

**Stated but not run.** Some properties are stated in the modules but are not
among the runs, because the number of runs is kept to one per question. TLC
finds each of them violated by the code, except `PendingImagesAttempted`:
- `UnusedImagePurged` and `TrackedNodesExist` in `DeltaState`: an empty node entry keeps the image, and a late pod event re-creates a deleted node;
- `HostFsDisabledHonoured`, `PlacementFailureNoBackoff` and `PurgedImagesForgotten` in `ScanController`;
- `PendingImagesAttempted` in `ScanController` (a leads-to, not found violated): with two images competing for a budget of 1 and the backoff depth of `ctrl_retry`, its liveness check takes more than the five minutes a run has. `FewestFailuresFirst`, the ordering that rules starvation out, is checked in `ctrl_sched`;
- `NoPolicyMeansAbsent` in `GKEScanner`: a `GetPolicy` error other than NotFound is only logged (scanner.go:155), and the report is then built as if binary authorization had no policy.

`PROJECT.json`'s hazards say which code lines they concern.

### Bounds and why they suffice

**DeltaState.** The model has two nodes of different architectures (amd64 and
arm64), two pods that the scheduler may bind to either node (so they may share
one) sharing one replica set and one image, one
deployment parent, at most one extra update per object (`MaxUpdates = 1`) and at
most three undelivered events (`MaxInFlight = 3`). This is enough for every
ordering the properties are about:
- a pod before or after its node, or after its node's delete;
- a pod seen before and after it is bound, and a late event of one of two pods on a deleted node;
- a pod before or after its replica set, or after the replica set's delete;
- two pods sharing an owner and an image, so that deleting one must not drop the owner;
- an image keyed on either architecture.

Jobs are left out of the DeltaState runs (`Jobs = {}`) to keep the state space
within minutes. The job path is the same code shape as the replica set path.

**NodeFit.** The `nodefit_best` run has three names, two tracked nodes, allocatable values
{1, 3} and requests {0, 1, 2}. This gives negative, zero and exact availability,
and lists of every length and order up to 3.

**ScanController.**
- `ctrl_sched` has two nodes, two pods and two images, with a budget of 2 concurrent scans.
  - The budget is smaller than or equal to the number of pending images, so the truncation matters.
  - There is one event in flight.
  - The `LongRunningP2` constraint keeps pod p2 alive. p1 alone exercises deletion.
- `ctrl_retry` has one node, one pod and one image, with up to 11 failures. That is past the 9th failure, where the backoff caps.
- Each pod has one node it may be bound to, which keeps the controller's state space to minutes; the binding order itself is explored by `DeltaState`.

**Agent.** The model has two replicas, the chart's count. The ages are bounded
by the lease (20 ticks) and the renew timeout (8 ticks). Every interleaving of
outages, signals and kills with the replicas' steps is explored. This includes
a release that needs all 10 retries, and a release that outlasts the lease.

**GKEScanner.** There is one scanner goroutine. Each call either succeeds or
fails, the two cloud settings are booleans that toggle at any time, and the
context may be cancelled at any step. This covers every failing call, a
setting that changes between two reads, and a cancel at every point of the
loop. The three cluster names are a well-formed one, one with a trailing "/"
(seven parts) and one with an empty location. The state space (464 states) is
explored exhaustively.

## Not modelled

1. **Scan controller.** `updateImageStatusAsFailed` (Makefile:564) is a single
   status-only report whose error is only logged. The model keeps no remote
   scan status, and no property reads one. The scan job's context timeout is
   folded into the job's failure outcomes.
2. **`KubeController`** (`src/unnamed/part_002`). The models keep the per-kind
   FIFO order that its subscriber goroutine gives the delta, bounded by
   `MaxInFlight`. Left out are the explicit 5s pod buffer and ticker, the
   capacity-10 subscriber channel and the capacity-1000 delta queue. They are
   back-pressure, not a cycle: `Run` drains the queue once a pass ends, and
   every scan has a timeout. A module of their own would need a run of its
   own. Also left out is the controller's own `GetPodOwnerID`, with its
   label-selector fallback; the delta resolves owners itself.
3. **CAST AI client** (`src/unnamed/part_004`). `sendReport` configures a
   3-step backoff, but its condition returns an error on a failed attempt,
   which ends the backoff at once. So every call is one attempt that succeeds
   or fails, and the callers' models say exactly that (`reportOk`, `CallOk`).
   HTTP, gzip and the pipe are I/O.
4. **Agent.** Out-of-cluster configuration (`kubeConfigFromEnv`, with no retry
   transport), the health and pprof server, and container restarts are not
   modelled. A restarted container runs `main` again with a new identity, as a
   new replica would.
5. **GKE scanner details.** The CIS check constructors the scanner calls, such
   as `check5105`, are not in `src/`, so what the checks conclude is not
   modelled. The cluster names are three representative ones, not every
   string. The EKS checks (`part_003`) are pure mappings from API responses
   to a report.
6. **An abstract image inventory** (images ↦ owners) for `DeltaState` to
   refine is not stated. The `delta_owner_leak` and `delta_wrong_arch`
   findings break every mapping that ties images and owners to the live pods.
   `RunningPodsTracked` and `IncrementalOwnersComplete` state the parts that
   hold.
7. **Two versions of the controller.** The controller in `src/Makefile` is a
   newer revision than `src/imagescan/delta.go`: it calls
   `newDeltaState(kubeController)` (Makefile:205), reads `node.os`
   (Makefile:465), `img.ownerChanges` and `lastRemoteSyncAt`, and calls
   `setImageScanned`, none of which `delta.go` defines. `ScanController`
   joins the two: `Init` is `delta.go`'s `NewDeltaState` (the remote list at
   start-up), `NodeOS` is a constant per node (the OS the newer node struct
   records from `Status.NodeInfo.OperatingSystem`), `ToReport` reads the
   owner changes `delta.go` records, and `AfterSync` marks images synced and
   scanned as `syncFromRemoteState` asks. Where the versions differ in
   behaviour rather than in fields, the model follows `delta.go`.
8. **Dead code.** `updateImagesFromRemote`, `Observe` and `isHostFsDisabled`
   have no caller in `src/`.

These parts stay out of scope: metrics, charts, build files and API types.
They are I/O or configuration with no concurrent state.
