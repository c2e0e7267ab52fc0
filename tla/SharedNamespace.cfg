SPECIFICATION Spec
CONSTANTS
    None = None
    u1 = u1  u2 = u2  t1 = t1  t2 = t2  t3 = t3  j1 = j1  j2 = j2
    Users = {u1, u2}
    Turns = {t1, t2, t3}
    TurnUser <- MCTurnUser
    Jobs = {j1, j2}
    JobUser <- MCJobUser
    Wiped = u1
INVARIANTS NamespaceIsExclusive NoOrphanUnit
PROPERTIES DeletionEndsOrClosed
