\* One scanner goroutine against a GCP project whose binary-authorization
\* service and policy may change between any two calls, constructed from
\* a well-formed or a malformed cluster name.
CONSTANTS
    NoReport = NoReport
    ClusterNames <- MCClusterNames
SPECIFICATION Spec
PROPERTIES ImplementsCloudScanLoop CancelStops
