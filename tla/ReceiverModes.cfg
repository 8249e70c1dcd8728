\* Every mode, two publishers whose frames interleave freely, a duplicate
\* filter small enough to evict, one outstanding request so that the second
\* gap meets Backpressure, and ranges longer than one sequence refused.
CONSTANTS
    PublisherIds = {p1, p2}
    SeqNums = {1, 2, 3}
    PayloadLengths = {0}
    None = None
    DedupCapacity = 3
    RetryTimeout = 1
    MaxRetries = 0
    MaxReplayRange = 1
    MaxOutstandingRequests = 1
    Modes = {"BestEffort", "Latest", "AtLeastOnce", "ReliableOrdered"}
    MaxRequests = 2
    MaxDelivered = 3
SPECIFICATION ReceiverCallsSpec
SYMMETRY PublisherSymmetry
INVARIANTS ReceiverCallsTypeOK InOrderUntilReplay ArrivedIsNotLost LatestOnlyAdvances
