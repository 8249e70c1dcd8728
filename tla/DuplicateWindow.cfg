CONSTANTS
    PublisherIds = {p1, p2}
    SeqNums = {1, 2, 3}
    PayloadLengths = {0}
    None = None
    DedupCapacity = 3
    MaxRecorded = 6
SPECIFICATION WindowSpec
INVARIANTS WindowTypeOK SlidingWindow HistoryMatchesSet
