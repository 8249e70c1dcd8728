\* A first frame whose gap is longer than the configured replay range.
CONSTANTS
    PublisherIds = {p1}
    SeqNums = {1, 2, 3, 4}
    PayloadLengths = {0}
    None = None
    DedupCapacity = 4
    RetryTimeout = 1
    MaxRetries = 1
    MaxReplayRange = 2
    MaxOutstandingRequests = 2
    Modes = {"AtLeastOnce", "ReliableOrdered"}
    MaxRequests = 3
    MaxDelivered = 5
SPECIFICATION ReceiverCallsSpec
INVARIANT NoSilentLoss
