SPECIFICATION FairSpec
CONSTANTS
    None = None
    Sockets = {x1}
    Sessions = {own, other}
    OwnSessions = {own}
    Freqs = {f1}
    Detections <- Detected
    SignalAttempts = 3
    minStrength <- MinStrength
    own = own
    other = other
    x1 = x1
    f1 = f1
INVARIANT RecordingModeBacked
PROPERTY SessionsComplete
PROPERTY RecordPassEnds
