SPECIFICATION FairSpec
CONSTANTS
  Surfaces = {s1}
  Children = {c1}
  Deleters = {d1, d2}
  MaxTurns = 2
  MaxRestarts = 1
INVARIANTS WipeIsAlone NothingAuthorizedIsDropped LoneWipeSparesLaterState
PROPERTIES DeletionEnds
CHECK_DEADLOCK FALSE
