SPECIFICATION TurnSpec
CONSTANTS
    turn = turn
    Callers = {turn}
    Own = turn
    Length = 2
    MaxIterations = 3
    MaxBatch = 2
INVARIANTS HistoryIsPaired DelegationIsAnswered NoDelegationSurvivesStop
CHECK_DEADLOCK FALSE
