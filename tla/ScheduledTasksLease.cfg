SPECIFICATION FairSpec
CONSTANTS
    Runners = {"a", "b"}
    MaxRuns = 2
    MaxChunks = 1
    MaxRequests = 0
    MaxDisruptions = 1
    MaxTries = 0
INVARIANTS
    OneOutstanding
PROPERTIES
    RunsSettle
CHECK_DEADLOCK FALSE
