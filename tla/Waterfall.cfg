SPECIFICATION Spec
CONSTANTS
    FFT_HISTORY_MAX = 2
    MAX_HISTORY_ROWS = 2
    Unit = 1
    MinPower <- MCMinPower
    MaxPower <- MCMaxPower
    MaxFrames = 3
    MaxPasses = 2
    MaxQueue = 2
INVARIANTS
    HistoryIsTail
    RowsInOrder
    NewestShown
    FramesEndErrors
    CaptureExplained
    ScaleIsProper
