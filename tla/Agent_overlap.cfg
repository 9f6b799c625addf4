CONSTANTS
    r1 = r1
    r2 = r2
    Replicas = {r1, r2}
    NoHolder = NoHolder
SPECIFICATION Spec
SYMMETRY MCSymmetry
INVARIANT MutualExclusion
