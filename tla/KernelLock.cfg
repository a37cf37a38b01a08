CONSTANTS
    c1 = c1
    c2 = c2
    c3 = c3
    p1 = p1
    p2 = p2
    p3 = p3
    Cpu = {c1, c2, c3}
    Proc = {p1, p2, p3}
    NoCpu = NoCpu
    MaxDepth = 3
SPECIFICATION Spec
INVARIANTS MutualExclusion DepthFollowsContext OutsideOwnsNothing
PROPERTY ImplementsAbstractLock
SYMMETRY Symmetry
