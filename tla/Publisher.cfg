\* Two identities, a two-slot buffer that wraps and is cleared, one replay
\* request.  1416 bytes is the largest payload a replay response can carry:
\* 48 + 8 + 1416 = 1472.
CONSTANTS
    PublisherIds = {p1, p2}
    SeqNums = {1, 2, 3}
    PayloadLengths = {8, 1416}
    None = None
    Capacity = 2
    MaxFrameSize = 1472
    ReplayBufferSize = 1500
    MaxAsked = 1
SPECIFICATION PublisherSpec
INVARIANTS PublisherTypeOK RetainsNewest RangeIsWholeOrRefused RefusalIsAccurate
    SentIsStored KeyIdentifiesFrame AnswerIsWholeOrRefused
PROPERTIES KeepsRingContract ImplementsWindow
CHECK_DEADLOCK FALSE
