\* The sort comparator reads allocatable CPU where it should read available CPU.
CONSTANTS
    a = a  b = b  c = c
    NoCandidates = NoCandidates
    Names = {a, b, c}
    Tracked = {a, b}
    AllocValues = {1, 3}
    ReqValues = {0, 1, 2}
SPECIFICATION Spec
INVARIANT BestFitMaxCPU
