\* Three frames over a two-slot buffer, so that a frame can expire while it is
\* asked for; one loss or duplication; the subscriber knows the publisher's
\* address or a wrong one.  Three outstanding requests, so that none is refused.
CONSTANTS
    PublisherIds = {p1}
    SeqNums = {1, 2, 3}
    PayloadLengths = {0}
    None = None
    Capacity = 2
    MaxFrameSize = 1472
    ReplayBufferSize = 1500
    DedupCapacity = 3
    RetryTimeout = 1
    MaxRetries = 1
    MaxReplayRange = 3
    MaxOutstandingRequests = 3
    Modes = {"AtLeastOnce", "ReliableOrdered"}
    ChannelCapacity = 2
    PublisherAddr = a1
    Addresses = {a1, a2}
    MaxFaults = 1
    Timings = {TRUE}
SPECIFICATION SystemFairSpec
INVARIANTS SystemTypeOK RecoversWhatIsRetained NoSilentStall
PROPERTIES HandsOverOnlyOwed ProvidesService
\* The publisher has no more to say after the last sequence.
CHECK_DEADLOCK FALSE
