SPECIFICATION MCSpec
CONSTANTS
    Objs = {r1, r2}
    VoidObjs = {w1, w2}
    Failures = {f1, f2}
    Opts = {o1, o2}
    Values = {0, 1}
    Errors = {0, 1}
    Conv <- MCConv
    Unit = Unit
    Moved = Moved
    None = None
    MaxObjects = 2
INVARIANT AlwaysValueOrError
