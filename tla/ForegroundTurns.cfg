SPECIFICATION FairSpec
CONSTANTS
  m1 = m1
  m2 = m2
  m3 = m3
  u1 = u1
  u2 = u2
  r1 = r1
  r2 = r2
  Nobody = Nobody
  Messages = {m1, m2}
  Users = {u1}
  Roots = {r1}
  UserOf <- MCShort
  RootOf <- MCShortRoot
  MaxActive = 2
  MaxActivePerUser = 2
  MaxRows = 1
  Stops = {s1}
  Kinds = {"stop", "reset", "shutdown"}
INVARIANTS AdmittedIsStoppable CleanStopIsComplete ResetIsFinal
PROPERTIES TurnsEnd ImplementsTranscript
CHECK_DEADLOCK FALSE
