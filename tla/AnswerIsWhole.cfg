\* A 1420-byte payload fits a DATA frame (1468) and no replay response (1476).
CONSTANTS
    PublisherIds = {p1}
    SeqNums = {1, 2, 3}
    PayloadLengths = {8, 1420}
    None = None
    Capacity = 2
    MaxFrameSize = 1472
    ReplayBufferSize = 1500
    MaxAsked = 2
SPECIFICATION PublisherSpec
INVARIANT AnswerIsWholeOrRefused
CHECK_DEADLOCK FALSE
