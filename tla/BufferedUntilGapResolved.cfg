\* One lost frame, repaired, and then the buffer moves on.
CONSTANTS
    PublisherIds = {p1}
    SeqNums = {1, 2, 3}
    PayloadLengths = {0}
    None = None
    Capacity = 2
    MaxFrameSize = 1472
    ReplayBufferSize = 1500
    DedupCapacity = 3
    RetryTimeout = 1
    MaxRetries = 1
    MaxReplayRange = 3
    MaxOutstandingRequests = 3
    Modes = {"ReliableOrdered"}
    ChannelCapacity = 2
    PublisherAddr = a1
    Addresses = {a1}
    MaxFaults = 1
    Timings = {TRUE}
SPECIFICATION SystemFairSpec
PROPERTY BufferedUntilGapResolved
CHECK_DEADLOCK FALSE
