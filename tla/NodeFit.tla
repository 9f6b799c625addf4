------------------------------ MODULE NodeFit ------------------------------
(***************************************************************************)
(* deltaState.findBestNode (src/imagescan/delta.go): the node a scan job   *)
(* is placed on.  Candidates are the named nodes the delta tracks whose    *)
(* available memory and CPU (allocatable minus the requests of the pods    *)
(* reserving the node, possibly negative) both reach the requirement; they *)
(* are ordered with sort.Slice and the first one is returned.              *)
(*                                                                         *)
(* sort.Slice on fewer than 13 elements is Go's insertion sort, modelled   *)
(* exactly, so the comparator the code passes decides the result.          *)
(*                                                                         *)
(* The model is a sequence of queries against a node table fixed in Init. *)
(***************************************************************************)
EXTENDS Integers, Sequences, FiniteSets, Functions

CONSTANTS
    Names,        \* node names a caller may pass
    Tracked,      \* the names the delta has a node for
    AllocValues,  \* allocatable CPU or memory of a node
    ReqValues,    \* summed pod requests on a node, and scan-job requests
    NoCandidates  \* errNoCandidates

ASSUME Tracked \subseteq Names /\ NoCandidates \notin Names

\* A tracked node: allocatable resources and the sum of its pods' requests.
NodeRec == [allocCPU : AllocValues, allocMem : AllocValues,
            podsCPU : ReqValues, podsMem : ReqValues]

VARIABLES
    nodes,     \* d.nodes restricted to what findBestNode reads
    nodeNames, \* the caller's candidate list
    reqMem,    \* requiredMemory
    reqCPU,    \* requiredCPU
    result     \* the returned node name, or NoCandidates

vars == <<nodes, nodeNames, reqMem, reqCPU, result>>

availableMemory(n) == nodes[n].allocMem - nodes[n].podsMem
availableCPU(n)    == nodes[n].allocCPU - nodes[n].podsCPU

\* The sort.Slice comparator of findBestNode: candidates[i].availableCPU()
\* compared with candidates[j].allocatableCPU.
less(a, b) == availableCPU(a) > nodes[b].allocCPU

Swap(s, i, j) == [s EXCEPT ![i] = s[j], ![j] = s[i]]

\* Go's insertionSortLessFunc: for i in 1..n-1, move data[i] left while
\* less(data[j], data[j-1]).
RECURSIVE Sift(_, _)
Sift(s, j) == IF j > 1 /\ less(s[j], s[j-1]) THEN Sift(Swap(s, j, j-1), j-1) ELSE s

RECURSIVE InsertionPass(_, _)
InsertionPass(s, i) == IF i > Len(s) THEN s ELSE InsertionPass(Sift(s, i), i+1)

insertionSort(s) == InsertionPass(s, 2)

Fits(n, mem, cpu) ==
    n \in DOMAIN nodes /\ availableMemory(n) >= mem /\ availableCPU(n) >= cpu

\* findBestNode: no candidates when the delta has no node at all or none of
\* the named ones fits; otherwise the head of the sorted candidates.
findBestNode(names, mem, cpu) ==
    IF DOMAIN nodes = {} THEN NoCandidates
    ELSE LET candidates == SelectSeq(names, LAMBDA n : Fits(n, mem, cpu))
         IN  IF candidates = <<>> THEN NoCandidates
             ELSE insertionSort(candidates)[1]

\* The lists a caller passes: distinct names in any order.
NameLists == UNION {[1..k -> Names] : k \in 0..Cardinality(Names)}
DistinctLists == {s \in NameLists : \A i, j \in DOMAIN s : i # j => s[i] # s[j]}

Init ==
    /\ nodes \in [Tracked -> NodeRec]
    /\ nodeNames = <<>>
    /\ reqMem = 0
    /\ reqCPU = 0
    /\ result = NoCandidates

\* One placement query against the current node table.
Query ==
    \E names \in DistinctLists, mem \in ReqValues, cpu \in ReqValues :
        /\ nodeNames' = names
        /\ reqMem' = mem
        /\ reqCPU' = cpu
        /\ result' = findBestNode(names, mem, cpu)
        /\ UNCHANGED nodes

Spec == Init /\ [][Query]_vars

-----------------------------------------------------------------------------

\* Reference: the named, tracked nodes with enough memory and CPU available.
Fitting == {n \in Range(nodeNames) \cap DOMAIN nodes :
                availableMemory(n) >= reqMem /\ availableCPU(n) >= reqCPU}

\* The node findBestNode returns has the greatest available CPU among the
\* fitting candidates (spec: best fit by available CPU).
BestFitMaxCPU ==
    result # NoCandidates =>
        \A n \in Fitting : availableCPU(n) <= availableCPU(result)

====
