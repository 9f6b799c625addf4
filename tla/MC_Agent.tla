------------------------------ MODULE MC_Agent ------------------------------
EXTENDS Agent, TLC

CONSTANTS r1, r2

\* The two replicas of the chart's Deployment are interchangeable.
MCSymmetry == Permutations({r1, r2})

\* A SIGTERM ends replica r1's process (SignalLeadsToExit for one replica):
\* every blocking API call but release() is bounded by the transport's
\* retry limit or a context, release() is assumed to return, and the
\* elector returns on ctx cancellation.  The replicas are interchangeable
\* and equally fair, so r1 stands for both.
ReplicaSignalLeadsToExit == signalled[r1] ~> pc[r1] = "exited"

====
