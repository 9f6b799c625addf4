---------------------------- MODULE CloudScanLoop ----------------------------
(***************************************************************************)
(* What a cloud scanner of src/cloudscan promises the agent, with the      *)
(* cloud calls abstracted away.  The scanner is constructed once; if that  *)
(* fails the agent gets the error and the loop never runs.  A running loop *)
(* sends reports until the agent's context is done, and stops only then.   *)
(* A report is sent only while the context is live, and it never claims a  *)
(* binary-authorization policy for a project whose binary-authorization   *)
(* service it did not find enabled.                                        *)
(*                                                                         *)
(* GKEScanner is checked to implement this specification.                  *)
(***************************************************************************)
CONSTANTS
    NoReport    \* no report sent yet

VARIABLES
    phase,      \* "init", "running", "stopped" or "failed"
    cancelled,  \* the agent's context is done
    report      \* the inputs of the last report the API accepted

vars == <<phase, cancelled, report>>

\* The report inputs a scanner may send.
Reports == { r \in [binAuth : BOOLEAN, policy : BOOLEAN] : r.policy => r.binAuth }

Init ==
    /\ phase = "init"
    /\ cancelled = FALSE
    /\ report = NoReport

\* The scanner is constructed and its loop starts.
Start ==
    /\ phase = "init" /\ phase' = "running"
    /\ UNCHANGED <<cancelled, report>>

\* Construction fails: the agent returns the error, no loop runs.
Fail ==
    /\ phase = "init" /\ phase' = "failed"
    /\ UNCHANGED <<cancelled, report>>

\* One report is accepted.
Report ==
    /\ phase = "running" /\ ~cancelled
    /\ report' \in Reports
    /\ UNCHANGED <<phase, cancelled>>

Cancel ==
    /\ ~cancelled /\ cancelled' = TRUE
    /\ UNCHANGED <<phase, report>>

\* The loop returns, only once the context is done.
Stop ==
    /\ phase = "running" /\ cancelled /\ phase' = "stopped"
    /\ UNCHANGED <<cancelled, report>>

Next == Start \/ Fail \/ Report \/ Cancel \/ Stop

Spec == Init /\ [][Next]_vars

====
