SPECIFICATION Spec
CONSTANTS
    fftSize = 8
    BinWidth = 2
    Levels = {0, 3}
    Centres = {20, 24}
    Requests = {0, 12, 16, 18, 21, 40}
    Widths = {0, 1, 3}
    DefaultWidth = 2
    KnownFrequency = 18
    KnownWidth = 4
    MergeDistance = 3
    MaxFilters = 2
INVARIANTS
    FindsOwn
    CarrierRemoved
