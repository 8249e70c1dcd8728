\* Two requests may be outstanding at a time and three are made in all, with
\* ranges over two sequences and one retry each.
CONSTANTS
    PublisherIds = {p1}
    SeqNums = {1, 2}
    PayloadLengths = {0}
    None = None
    RetryTimeout = 1
    MaxRetries = 1
    MaxReplayRange = 2
    MaxOutstandingRequests = 2
    MaxRequests = 3
SPECIFICATION CallsFairSpec
INVARIANTS CallsTypeOK StateMatchesRequests ClosedStaysClosed ReceivedIsNotForgotten
    OutstandingIsIncomplete WithinLimits
PROPERTY EveryRequestEnds
