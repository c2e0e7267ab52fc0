CONSTANTS
    NumTasks = 1
    Workspaces = {w1}
    WorkspaceOf <- MCWorkspaceOf
    MaxQueued = 1
    MaxAttempts = 2
    MaxSteers = 0
    MaxReplies = 2
    MaxRestarts = 1
SPECIFICATION FairSpec
INVARIANTS OneReplyPerResult DeliveredIsRecorded RetryBudget
PROPERTIES NoReplyAfterErasure OwedResultSettles
