SPECIFICATION Spec
CONSTANTS
    None = None
    Clients = {c1}
    WebCallers = {w1}
    Freqs = {f1}
    Procs = {p1, p2}
    Faults = {}
    ScanFreqs <- OneScanFreq
    Batch <- OnePass
    SignalAttempts = 3
    ScanOutputs <- Outputs
    MinSignalStrength <- Threshold
    GroundScan = FALSE
    Requests = {}
    f1 = f1
    pass1 = pass1
    c1 = c1
    w1 = w1
    p1 = p1
    p2 = p2
INVARIANT NoFftDuringRecording
