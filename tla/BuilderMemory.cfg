SPECIFICATION FairSpec
CONSTANTS
    Block = {b1, b2, b3}
    NULL = NULL
    BUF = BUF
    Holder = 2
    IntSize = 1
    InitSize = 4
    StackSize = 4
    MinAlloc = 2
    BufferMaxSize = 16
    IntMax = 63
    MaxAppend = 6
    MaxDepth = 3
    MaxOom = 1
INVARIANTS
    DoneCannotFail
    OwnedOnce
    NoWildAccess
PROPERTIES
    CallsEnd
