SPECIFICATION FairSpec
CONSTANTS
    None = None
    Clients = {c1}
    WebCallers = {w1}
    Freqs = {f1}
    Procs = {p1}
    Faults = {"hang"}
    ScanFreqs <- OneScanFreq
    Batch <- OnePass
    SignalAttempts = 3
    ScanOutputs <- Outputs
    MinSignalStrength <- Threshold
    GroundScan = TRUE
    Requests = {"frequency", "gain", "api"}
    f1 = f1
    pass1 = pass1
    c1 = c1
    w1 = w1
    p1 = p1
INVARIANT TypeOK
INVARIANT ScannerYields
PROPERTY StatusShowsCapture
PROPERTY ScannerStops
PROPERTY PassesComplete
