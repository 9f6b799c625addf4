----------------------------- MODULE GKEScanner -----------------------------
(***************************************************************************)
(* The GKE cloud scanner of src/cloudscan/gke/scanner.go.  NewScanner     *)
(* parses the project and location out of the configured cluster name and *)
(* builds three API clients; any error is returned to the agent's run,     *)
(* which then ends the process.  Start loops:                              *)
(* scan, then wait ScanInterval or return once ctx is done.  scan reads    *)
(* the cluster, the container-scanning and binary-authorization service    *)
(* states and, when binary authorization is enabled, its policy; it        *)
(* builds the CIS checks from what it read and sends one report.  Any      *)
(* failed read except the policy's ends the scan with an error that Start  *)
(* only logs; a failed policy read is logged and the scan goes on without  *)
(* a policy.                                                               *)
(*                                                                         *)
(* The checks' inputs are abstracted to what the properties tell apart:   *)
(* whether the binary-authorization service was read as enabled and        *)
(* whether a policy was read.  The cloud may change between any two calls. *)
(* A cluster name is a sequence of tokens: "/" or a word (a maximal run of *)
(* other characters), which is all strings.Split(name, "/") looks at.      *)
(***************************************************************************)
EXTENDS Naturals, Sequences

LOCAL INSTANCE SequencesExt

CONSTANTS
    NoReport,    \* no report sent yet
    ClusterNames \* the cfg.GKE.ClusterName values the agent may be configured with

VARIABLES
    pc,          \* the scanner goroutine's place in Start/scan
    cancelled,   \* ctx is done
    binAuthOn,   \* the binaryauthorization service's State is ENABLED
    policyExists,\* projects/<p>/policy exists
    read,        \* what the running scan has read: [binAuth, policy]
    policyErr,   \* the running scan's GetPolicy failed with another error than NotFound
    lastReport   \* the inputs of the last CloudScanReport the API accepted

vars == <<pc, cancelled, binAuthOn, policyExists, read, policyErr, lastReport>>

NoneRead == [binAuth |-> FALSE, policy |-> FALSE]

\* strings.Split(name, "/"): a "/" starts a new, empty part; a word is the
\* text of the part it falls in.  Split of the empty string is <<"">>.
SplitSlash(name) ==
    LET step(tok, parts) == IF tok = "/" THEN <<"">> \o parts
                            ELSE <<tok>> \o Tail(parts)
    IN  FoldRight(step, name, <<"">>)

\* parseInfoFromClusterName: parts 1 and 3 of a six-part name, else "", "".
parseInfoFromClusterName(name) ==
    LET parts == SplitSlash(name)
    IN  IF Len(parts) # 6 THEN [project |-> "", location |-> ""]
        ELSE [project |-> parts[2], location |-> parts[4]]

\* NewScanner: an empty project or location is an error; so is a failure
\* of NewClusterManagerClient, serviceusagev1.NewClient or
\* NewBinauthzManagementClient (they use context.Background, not ctx).
newScanner ==
    /\ pc = "new"
    /\ \E name \in ClusterNames, clientsOk \in BOOLEAN :
         LET info == parseInfoFromClusterName(name)
         IN  pc' = IF info.project = "" \/ info.location = "" \/ ~clientsOk
                   THEN "failed" ELSE "getCluster"
    /\ UNCHANGED <<cancelled, binAuthOn, policyExists, read, policyErr, lastReport>>

-----------------------------------------------------------------------------
\* A cloud API call returns a response or an error; once ctx is done every
\* call fails with the context's error.
CallOk == IF cancelled THEN {FALSE} ELSE BOOLEAN

\* scan returns an error: Start logs it and goes to its select.
ScanFailed ==
    /\ pc' = "wait"
    /\ UNCHANGED <<read, policyErr, lastReport>>

Cloud == <<cancelled, binAuthOn, policyExists>>

\* clusterClient.GetCluster.
getCluster ==
    /\ pc = "getCluster"
    /\ \E ok \in CallOk :
         IF ok THEN pc' = "getContainerSvc" /\ UNCHANGED <<read, policyErr, lastReport>>
         ELSE ScanFailed
    /\ UNCHANGED Cloud

\* serviceUsageClient.GetService for containerscanning.googleapis.com.
getContainerSvc ==
    /\ pc = "getContainerSvc"
    /\ \E ok \in CallOk :
         IF ok THEN pc' = "getBinAuthSvc" /\ UNCHANGED <<read, policyErr, lastReport>>
         ELSE ScanFailed
    /\ UNCHANGED Cloud

\* serviceUsageClient.GetService for binaryauthorization.googleapis.com;
\* the policy is only asked for when the service is ENABLED.
getBinAuthSvc ==
    /\ pc = "getBinAuthSvc"
    /\ \E ok \in CallOk :
         IF ok THEN /\ read' = [read EXCEPT !.binAuth = binAuthOn]
                    /\ pc' = IF binAuthOn THEN "getPolicy" ELSE "send"
                    /\ UNCHANGED <<policyErr, lastReport>>
         ELSE ScanFailed
    /\ UNCHANGED Cloud

\* binauthzClient.GetPolicy: NotFound leaves the policy nil; any other
\* error is only logged (s.log.Warnf) and the scan goes on without it.
getPolicy ==
    /\ pc = "getPolicy"
    /\ \E ok \in CallOk :
         /\ read' = [read EXCEPT !.policy = ok /\ policyExists]
         /\ policyErr' = (~ok)
    /\ pc' = "send"
    /\ UNCHANGED <<lastReport, Cloud>>

\* The checks are built from what this scan read and sent in one
\* CloudScanReport; an error of SendCISCloudScanReport ends the scan.
send ==
    /\ pc = "send"
    /\ \E ok \in CallOk :
         lastReport' = IF ok THEN read ELSE lastReport
    /\ pc' = "wait"
    /\ UNCHANGED <<read, policyErr, Cloud>>

\* Mutant: Start returns when a scan fails instead of logging the error.
waitReturnOnError ==
    /\ pc = "wait"
    /\ pc' = "stopped"
    /\ UNCHANGED <<read, policyErr, lastReport, Cloud>>

\* Mutant: the select only waits for the timer.
waitIgnoringCtx ==
    /\ pc = "wait"
    /\ pc' = "getCluster" /\ read' = NoneRead /\ policyErr' = FALSE
    /\ UNCHANGED <<lastReport, Cloud>>

\* Start's select: ctx.Done() returns; time.After(ScanInterval) starts the
\* next scan, whose binaryauthPolicy and service reads are fresh locals.
wait ==
    /\ pc = "wait"
    /\ IF cancelled
       THEN pc' = "stopped" /\ UNCHANGED <<read, policyErr>>
       ELSE pc' = "getCluster" /\ read' = NoneRead /\ policyErr' = FALSE
    /\ UNCHANGED <<lastReport, Cloud>>

\* The scanner's goroutine, one step at a time.
Scanner == newScanner \/ getCluster \/ getContainerSvc \/ getBinAuthSvc \/ getPolicy \/ send \/ wait

\* The agent's context is cancelled (shutdown).
Cancel ==
    /\ ~cancelled /\ cancelled' = TRUE
    /\ UNCHANGED <<pc, binAuthOn, policyExists, read, policyErr, lastReport>>

\* The project's configuration changes in GCP.
CloudChange ==
    /\ \/ binAuthOn' = ~binAuthOn /\ UNCHANGED policyExists
       \/ policyExists' = ~policyExists /\ UNCHANGED binAuthOn
    /\ UNCHANGED <<pc, cancelled, read, policyErr, lastReport>>

Init ==
    /\ pc = "new"
    /\ cancelled = FALSE
    /\ binAuthOn \in BOOLEAN /\ policyExists \in BOOLEAN
    /\ read = NoneRead /\ policyErr = FALSE
    /\ lastReport = NoReport

Next == Scanner \/ Cancel \/ CloudChange

\* The scanner goroutine runs; the cloud and the shutdown get no fairness.
Spec == Init /\ [][Next]_vars /\ WF_vars(Scanner)

-----------------------------------------------------------------------------
(* Properties.                                                             *)

\* The phase of CloudScanLoop the scanner is in.
Phase ==
    CASE pc = "new"     -> "init"
      [] pc = "failed"  -> "failed"
      [] pc = "stopped" -> "stopped"
      [] OTHER          -> "running"

Loop == INSTANCE CloudScanLoop WITH phase <- Phase, report <- lastReport

\* The scanner implements CloudScanLoop: NewScanner either fails or starts
\* the loop; Start keeps scanning whatever a scan returns and ends only
\* once the context is done; a report is accepted only while the context is
\* live, and a policy is reported only with the service read as enabled, by
\* the same scan (each scan's reads are fresh locals).
ImplementsCloudScanLoop == Loop!Spec

\* Once the context is done, the scanner halts: Start returns, since every
\* call of the running scan fails with the context's error and the select
\* sees ctx.Done(), or NewScanner's error has ended the agent.
CancelStops == cancelled ~> pc \in {"stopped", "failed"}

\* A report says binary authorization is enabled without a policy only when
\* the policy did not exist when it was read (check 5.10.5's input is not
\* a failed read passed off as "no policy").
NoPolicyMeansAbsent ==
    pc = "send" /\ read.binAuth /\ ~read.policy => ~policyErr

====
