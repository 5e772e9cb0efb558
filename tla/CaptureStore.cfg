SPECIFICATION FairSpec
CONSTANTS
    None = None
    Passes = {a, b}
    SignalType <- OneOfEach
    Limit = 1
    a = a
    b = b
INVARIANT ImagesBelongToCaptures
INVARIANT NoDuplicateImages
PROPERTY OnlyFailedDeleted
PROPERTY UndecodedIsDecoded
