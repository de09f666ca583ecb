SPECIFICATION FairSpec
CONSTANTS
    s1 = s1
    Requests = {r1, r2}
    Services = {s1, s2}
    to <- Addressee
INVARIANT NoPendingLeak
PROPERTIES ImplementsRequestReply NobodyWaitsForEver
CHECK_DEADLOCK FALSE
