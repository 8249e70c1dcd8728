\* LATEST, with a second publisher that takes over from the first.
CONSTANTS
    PublisherIds = {p1, p2}
    SeqNums = {1, 2, 3}
    PayloadLengths = {0}
    None = None
    DedupCapacity = 3
    RetryTimeout = 1
    MaxRetries = 1
    MaxReplayRange = 3
    MaxOutstandingRequests = 2
    Modes = {"Latest"}
    MaxRequests = 3
    MaxDelivered = 5
SPECIFICATION ReceiverCallsSpec
INVARIANT LatestStartsAnew
