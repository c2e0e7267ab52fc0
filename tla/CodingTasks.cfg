CONSTANTS
    NumTasks = 2
    Workspaces = {w1}
    WorkspaceOf <- MCWorkspaceOf
    MaxQueued = 2
    MaxAttempts = 1
    MaxSteers = 0
    MaxConcurrency = 2
    Stoppers = {c1}
    Dashboard <- MCDashboard
    MaxRestarts = 1
SPECIFICATION Spec
INVARIANTS  NoStrayWork
PROPERTIES CancelWins ImplementsStore
CHECK_DEADLOCK FALSE
