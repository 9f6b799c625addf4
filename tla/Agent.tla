------------------------------- MODULE Agent -------------------------------
(***************************************************************************)
(* The agent process of src/main.go, as deployed with replicas: 2 and     *)
(* leader election: run() fetches the API server version, then            *)
(* runWithLeaderElection runs client-go's leader elector on a Lease with  *)
(* ReleaseOnCancel, LeaseDuration 60s, RenewDeadline 15s, RetryPeriod 5s; *)
(* the leader runs work(ctx) in the OnStartedLeading goroutine, and       *)
(* OnStoppedLeading calls os.Exit(0).  Every API call goes through        *)
(* kubeRetryTransport: a connection-refused attempt is retried every 3s   *)
(* up to 10 times, any other error is returned at once.                   *)
(*                                                                         *)
(* Time advances in ticks of 3s: the transport's retry interval, the      *)
(* lease duration (20 ticks) and the renew deadline (5 ticks) are exact;  *)
(* the 5s retry period is rounded up to 2 ticks.  Replicas keep the ages  *)
(* client-go measures on their own clocks (time since the lease record    *)
(* they observed changed, time since their last renewal), capped where    *)
(* the code stops comparing, so the state space is finite without a      *)
(* horizon.                                                                *)
(***************************************************************************)
EXTENDS Naturals, FiniteSets

CONSTANTS
    Replicas,   \* agent pods, each with its own identity (hostname_uuid)
    NoHolder    \* an empty HolderIdentity

ASSUME NoHolder \notin Replicas

LeaseDuration == 20   \* 60s
RenewDeadline == 5    \* 15s
RetryPeriod   == 2    \* 5s, rounded up
MaxRetries    == 10   \* kubeRetryTransport maxRetries (retryInterval 3s = 1 tick)

\* The renew loop starts a RenewDeadline poll RetryPeriod after a renewal.
RenewTimeoutAge == RetryPeriod + RenewDeadline

VARIABLES
    apiUp,       \* apiUp[p]: the API server accepts p's connections
    holder,      \* the Lease's HolderIdentity
    pc,          \* where each replica's main goroutine is
    working,     \* the OnStartedLeading goroutine is running work(ctx)
    signalled,   \* SIGTERM received: the signal handler's ctx is done
    attempts,    \* retries made by the in-flight kubeRetryTransport call
    sleeping,    \* the transport is in its 3s wait before the next retry
    seen,        \* the replica's observedRecord is the Lease's current record
    obsAge,      \* ticks since observedTime (capped at LeaseDuration)
    renewAge     \* ticks since the leader's last renewal (capped)

vars == <<apiUp, holder, pc, working, signalled, attempts, sleeping, seen, obsAge, renewAge>>

PCs == {"version", "candidate", "leading", "releasing", "exiting", "exited"}

-----------------------------------------------------------------------------
(* kubeRetryTransport.RoundTrip, one attempt at a time.                    *)

\* What one attempt can return: connection refused while the API server is
\* down; otherwise a response, or another transport error (timeout, TLS).
Outcomes(p) == IF apiUp[p] THEN {"ok", "error"} ELSE {"refused"}

\* Mutant: connection-refused attempts are retried without a limit.
RetriesUnbounded(p, out) == out = "refused"

\* backoff.RetryNotify with WithMaxRetries(ConstantBackOff(3s), 10): only a
\* connection-refused error is retried, while fewer than 10 retries were made;
\* anything else is backoff.Permanent.
Retried(p, out) == out = "refused" /\ attempts[p] < MaxRetries

\* The step of a replica whose attempt is retried: count it and sleep.
RetryStep(p) ==
    /\ attempts' = [attempts EXCEPT ![p] = @ + 1]
    /\ sleeping' = [sleeping EXCEPT ![p] = TRUE]

\* The call returned (success or error): the next call starts afresh.
CallDone(p) ==
    /\ attempts' = [attempts EXCEPT ![p] = 0]
    /\ UNCHANGED sleeping

Ready(p) == ~sleeping[p]

-----------------------------------------------------------------------------
(* client-go's tryAcquireOrRenew as configured by runWithLeaderElection.   *)

\* The age of p's observation once it has read the current record: a
\* record differing from observedRecord resets observedTime to now.
ObsAge(p) == IF seen[p] THEN obsAge[p] ELSE 0

\* p may take or keep the lease: it is free, held by p, or unchanged for a
\* whole LeaseDuration of p's clock (observedTime.Add(LeaseDuration) is not
\* after now).
MayHold(p) == holder \in {NoHolder, p} \/ ObsAge(p) >= LeaseDuration

\* p writes the Lease (create, renew or release): every other replica's
\* observation is now stale.
WriteLease(p, h) ==
    /\ holder' = h
    /\ seen' = [q \in Replicas |-> q = p]
    /\ obsAge' = [obsAge EXCEPT ![p] = 0]

\* p reads the Lease without being allowed to write it.
ObserveLease(p) ==
    /\ seen' = [seen EXCEPT ![p] = TRUE]
    /\ obsAge' = [obsAge EXCEPT ![p] = ObsAge(p)]
    /\ UNCHANGED holder

-----------------------------------------------------------------------------
(* Actions of one replica.                                                  *)

Others == <<apiUp, signalled>>

\* run(): version.Get(clientset).  An error ends run with an error and
\* main calls log.Fatalf; success goes on to leaderelection.RunOrDie.
Version(p) ==
    /\ pc[p] = "version" /\ Ready(p)
    /\ \E out \in Outcomes(p) :
         IF Retried(p, out) THEN RetryStep(p) /\ UNCHANGED pc
         ELSE /\ CallDone(p)
              /\ pc' = [pc EXCEPT ![p] = IF out = "ok" THEN "candidate" ELSE "exited"]
    /\ UNCHANGED <<Others, holder, working, seen, obsAge, renewAge>>

\* acquire(): one tryAcquireOrRenew; on success OnStartedLeading starts
\* work(ctx) in a goroutine and the renew loop begins.
Acquire(p) ==
    /\ pc[p] = "candidate" /\ ~signalled[p] /\ Ready(p)
    /\ \E out \in Outcomes(p) :
         \/ Retried(p, out) /\ RetryStep(p) /\ UNCHANGED <<holder, pc, working, seen, obsAge, renewAge>>
         \/ ~Retried(p, out) /\ out # "ok" /\ CallDone(p)
            /\ UNCHANGED <<holder, pc, working, seen, obsAge, renewAge>>
         \/ out = "ok" /\ CallDone(p)
            /\ IF MayHold(p)
               THEN /\ WriteLease(p, p)
                    /\ pc' = [pc EXCEPT ![p] = "leading"]
                    /\ working' = [working EXCEPT ![p] = TRUE]
                    /\ renewAge' = [renewAge EXCEPT ![p] = 0]
               ELSE ObserveLease(p) /\ UNCHANGED <<pc, working, renewAge>>
    /\ UNCHANGED Others

\* Mutant: the elector run with a context the signal handler never cancels.
CandidateCancelNoCtx(p) == FALSE

\* acquire() returns once ctx is done; Run's deferred OnStoppedLeading
\* calls os.Exit(0).
CandidateCancel(p) ==
    /\ pc[p] = "candidate" /\ signalled[p]
    /\ pc' = [pc EXCEPT ![p] = "exited"]
    /\ UNCHANGED <<Others, holder, working, attempts, sleeping, seen, obsAge, renewAge>>

\* renew(): every RetryPeriod, tryAcquireOrRenew until it succeeds or the
\* RenewDeadline poll times out.
Renew(p) ==
    /\ pc[p] = "leading" /\ ~signalled[p] /\ Ready(p)
    /\ renewAge[p] >= RetryPeriod /\ renewAge[p] < RenewTimeoutAge
    /\ \E out \in Outcomes(p) :
         \/ Retried(p, out) /\ RetryStep(p) /\ UNCHANGED <<holder, seen, obsAge, renewAge>>
         \/ ~Retried(p, out) /\ out # "ok" /\ CallDone(p)
            /\ UNCHANGED <<holder, seen, obsAge, renewAge>>
         \/ out = "ok" /\ CallDone(p)
            /\ IF MayHold(p)
               THEN WriteLease(p, p) /\ renewAge' = [renewAge EXCEPT ![p] = 0]
               ELSE ObserveLease(p) /\ UNCHANGED renewAge
    /\ UNCHANGED <<Others, pc, working>>

\* The renew loop ends: ctx is done, or the poll timed out (an attempt
\* sleeping in the transport first wakes and fails on the expired context).
StopLeading(p) ==
    /\ pc[p] = "leading"
    /\ signalled[p] \/ (renewAge[p] >= RenewTimeoutAge /\ Ready(p))
    /\ pc' = [pc EXCEPT ![p] = "releasing"]
    /\ attempts' = [attempts EXCEPT ![p] = 0]
    /\ sleeping' = [sleeping EXCEPT ![p] = FALSE]
    /\ UNCHANGED <<Others, holder, working, seen, obsAge, renewAge>>

\* ReleaseOnCancel: release() writes an empty holder if p still believes
\* it holds the lease (the update fails on a newer record); whatever the
\* result, Run's deferred OnStoppedLeading follows.
Release(p) ==
    /\ pc[p] = "releasing" /\ Ready(p)
    /\ \E out \in Outcomes(p) :
         IF Retried(p, out) THEN RetryStep(p) /\ UNCHANGED <<pc, holder, seen, obsAge>>
         ELSE /\ CallDone(p)
              /\ pc' = [pc EXCEPT ![p] = "exiting"]
              /\ IF out = "ok" /\ seen[p] /\ holder = p
                 THEN WriteLease(p, NoHolder) ELSE UNCHANGED <<holder, seen, obsAge>>
    /\ UNCHANGED <<Others, working, renewAge>>

\* OnStoppedLeading: os.Exit(0) ends the work goroutine with the process.
Exit(p) ==
    /\ pc[p] = "exiting"
    /\ pc' = [pc EXCEPT ![p] = "exited"]
    /\ working' = [working EXCEPT ![p] = FALSE]
    /\ UNCHANGED <<Others, holder, attempts, sleeping, seen, obsAge, renewAge>>

-----------------------------------------------------------------------------
(* The environment.                                                        *)

\* SIGTERM: signals.SetupSignalHandler cancels ctx.
Signal(p) ==
    /\ pc[p] # "exited" /\ ~signalled[p]
    /\ signalled' = [signalled EXCEPT ![p] = TRUE]
    /\ UNCHANGED <<apiUp, holder, pc, working, attempts, sleeping, seen, obsAge, renewAge>>

\* The pod is killed (SIGKILL, node loss): no release, no exit handler.
Kill(p) ==
    /\ pc[p] # "exited"
    /\ pc' = [pc EXCEPT ![p] = "exited"]
    /\ working' = [working EXCEPT ![p] = FALSE]
    /\ UNCHANGED <<Others, holder, attempts, sleeping, seen, obsAge, renewAge>>

\* The API server stops or starts accepting p's connections (the server
\* restarts, or p's node is cut off from it).
ApiOutage(p) ==
    /\ apiUp' = [apiUp EXCEPT ![p] = ~@]
    /\ UNCHANGED <<holder, pc, working, signalled, attempts, sleeping, seen, obsAge, renewAge>>

\* observedTime is compared only for a record held by another replica: a
\* write by anyone else makes the observation stale, so a clock that is
\* never read is kept at 0 (and renewAge outside the renew loop).
ObsAgeRead(p) == seen[p] /\ holder \notin {p, NoHolder}

Cap(n, m) == IF n < m THEN n + 1 ELSE m

\* 3s pass: the transports' retry waits end and every clock advances.  A
\* leader's poll timer fires at the renew deadline before more time passes,
\* unless its transport is still in a retry wait (the renew request runs
\* under the poll's context).  release() runs under context.TODO on a
\* client without a timeout, so any time may pass before it returns; once
\* it has, OnStoppedLeading's os.Exit follows without delay.
Tick ==
    /\ \A p \in Replicas : pc[p] = "leading" =>
         renewAge[p] < RenewTimeoutAge \/ (renewAge[p] = RenewTimeoutAge /\ sleeping[p])
    /\ \A p \in Replicas : pc[p] # "exiting"
    /\ sleeping' = [p \in Replicas |-> FALSE]
    /\ obsAge' = [p \in Replicas |->
                    IF ObsAgeRead(p) THEN Cap(obsAge[p], LeaseDuration) ELSE 0]
    /\ renewAge' = [p \in Replicas |->
                    IF pc[p] = "leading" THEN Cap(renewAge[p], RenewTimeoutAge + 1) ELSE 0]
    /\ UNCHANGED <<apiUp, holder, pc, working, signalled, attempts, seen>>

Init ==
    /\ apiUp \in [Replicas -> BOOLEAN]
    /\ holder = NoHolder
    /\ pc = [p \in Replicas |-> "version"]
    /\ working = [p \in Replicas |-> FALSE]
    /\ signalled = [p \in Replicas |-> FALSE]
    /\ attempts = [p \in Replicas |-> 0]
    /\ sleeping = [p \in Replicas |-> FALSE]
    /\ seen = [p \in Replicas |-> FALSE]
    /\ obsAge = [p \in Replicas |-> 0]
    /\ renewAge = [p \in Replicas |-> 0]

Replica(p) ==
    \/ Version(p) \/ Acquire(p) \/ CandidateCancel(p) \/ Renew(p)
    \/ StopLeading(p) \/ Release(p) \/ Exit(p)

Next ==
    \/ \E p \in Replicas : Replica(p) \/ Signal(p) \/ Kill(p) \/ ApiOutage(p)
    \/ Tick

\* Each replica's goroutines keep running, and time keeps passing.
Spec == Init /\ [][Next]_vars /\ WF_vars(Tick) /\ \A p \in Replicas : WF_vars(Replica(p))

-----------------------------------------------------------------------------
(* Properties.                                                             *)

TypeOK ==
    /\ apiUp \in [Replicas -> BOOLEAN]
    /\ holder \in Replicas \cup {NoHolder}
    /\ pc \in [Replicas -> PCs]
    /\ working \in [Replicas -> BOOLEAN]
    /\ signalled \in [Replicas -> BOOLEAN]
    /\ attempts \in [Replicas -> 0..MaxRetries]
    /\ sleeping \in [Replicas -> BOOLEAN]
    /\ seen \in [Replicas -> BOOLEAN]
    /\ obsAge \in [Replicas -> 0..LeaseDuration]
    /\ renewAge \in [Replicas -> 0..RenewTimeoutAge + 1]

\* The comment in runWithLeaderElection: code protected by the lease must
\* terminate before the lease is given up, or another replica could be
\* elected while it still runs.
MutualExclusion ==
    \A p, q \in Replicas : p # q => ~(working[p] /\ working[q])

\* A SIGTERM ends the process: every blocking API call but release() is
\* bounded by the transport's retry limit or a context, release() (under
\* context.TODO) is assumed to return, and the elector returns on ctx
\* cancellation.
SignalLeadsToExit ==
    \A p \in Replicas : signalled[p] ~> pc[p] = "exited"

====
