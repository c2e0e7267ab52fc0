SPECIFICATION Spec
CONSTANTS
    Runners = {"a"}
    MaxRuns = 2
    MaxChunks = 2
    MaxRequests = 2
    MaxDisruptions = 1
    MaxTries = 1
INVARIANTS BaselineFollowsPublication OnePostPerChunk UntornIsOrdered
PROPERTIES EndedRunsStayEnded NoLostUpdate
CHECK_DEADLOCK FALSE
