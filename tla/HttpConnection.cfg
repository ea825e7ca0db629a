CONSTANTS
    Paths = {p1, p2}
    NoQuery = ""
    Queries <- MC_Queries
    MaxBody = 3
    MaxRedirects = 3
    MaxRequests = 3
    BadChunk = 1000
    None = None
SPECIFICATION Spec
INVARIANT TypeOK
INVARIANT OutcomeOnce
INVARIANT FramedBodyComplete
PROPERTY ImplementsHttpRequest
CHECK_DEADLOCK FALSE
