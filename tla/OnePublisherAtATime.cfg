\* Two publishers, the second one restarted in place of the first.
CONSTANTS
    PublisherIds = {p1, p2}
    SeqNums = {1, 2, 3}
    PayloadLengths = {0}
    None = None
    DedupCapacity = 6
    RetryTimeout = 1
    MaxRetries = 1
    MaxReplayRange = 3
    MaxOutstandingRequests = 2
    Modes = {"ReliableOrdered"}
    MaxRequests = 3
    MaxDelivered = 5
SPECIFICATION ReceiverCallsSpec
INVARIANT OnePublisherAtATime
