SPECIFICATION Spec
CONSTANTS
    None = None
    Callers = {c1}
    Freqs = {f1, f2}
    Procs = {p1, p2}
    Faults = {}
    c1 = c1
    f1 = f1
    f2 = f2
    p1 = p1
    p2 = p2
INVARIANT NoOrphan
PROPERTY RestartDelay
PROPERTY ImplementsSdrDevice
