CONSTANTS
    NumTasks = 2
    Workspaces = {w1}
    WorkspaceOf <- MCWorkspaceOf
    MaxQueued = 2
    MaxAttempts = 1
    MaxSteers = 1
    MaxConcurrency = 2
    Stoppers = {}
    Dashboard <- MCNoDashboard
    MaxRestarts = 0
SPECIFICATION FairSpec
INVARIANTS OneWorkerPerTask
 
CHECK_DEADLOCK FALSE
