SPECIFICATION FairSpec
CONSTANTS
  Workspaces = {w1}
  Tools = {t1}
  Fetchers = {f1}
  Workers = {}
  Children = {}
  Sweepers = {s1}
PROPERTIES
  BarrierIsReached
