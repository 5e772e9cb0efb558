SPECIFICATION FairSpec
CONSTANTS
    None = None
    Sockets = {x1, x2}
    MaxAttempts = 1
    LoopStatuses = {"idle", "scanning"}
    MaxPasses = 1
    MaxQueue = 2
    x1 = x1
    x2 = x2
INVARIANT TypeOK
INVARIANT ViewIsCurrent
INVARIANT SubscriptionsAgree
PROPERTY Reconnects
PROPERTY WatchedAgain
