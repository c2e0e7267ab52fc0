SPECIFICATION FairSpec
CONSTANTS
  Workspaces = {w1, w2}
  Tools = {t1, t2}
  Fetchers = {f1}
  Workers = {k1}
  Children = {c1}
  Sweepers = {s1}
INVARIANTS NoLeakedLease LeasesExclude SweepSparesWriters
PROPERTIES MaintenanceProceeds
