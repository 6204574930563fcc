SPECIFICATION MCSpec
CONSTANTS
  Tasks = {"g", "t1", "t2", "t3"}
  Projects = {"p1", "p2"}
  WriterKeys = {"k1", "kg"}
  Workspaces = {"w1", "wg"}
  GitWorkspaces = {"wg"}
  Revisions = {"rev1", "rev2", "rev3", "revg"}
  Paths = {1, 2}
  Contents = {0, 1, 2}
  Payload <- PayloadSerial
  Verifiers = {"v1"}
  Serialized = TRUE
  CanPause = TRUE
  MaxHead = 1
  MaxGen = 1
  Scenarios = {"repair", "queue", "writers"}
CHECK_DEADLOCK FALSE
INVARIANTS LedgerConsistent
PROPERTIES StartsCleanOrSentBack ImplementsReservation
