SPECIFICATION FairSpec
CONSTANTS
    None = None
    Callers = {c1, c2}
    Freqs = {f1, f2}
    Procs = {p1, p2}
    Faults = {"hang", "spawn"}
    c1 = c1
    c2 = c2
    f1 = f1
    f2 = f2
    p1 = p1
    p2 = p2
INVARIANT StatusTruthful
INVARIANT LockHeldByAStart
INVARIANT StopOwnsItsProcess
PROPERTY CallsReturn
