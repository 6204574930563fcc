SPECIFICATION MCSpec
CONSTANTS
  Tasks = {"t1", "t3", "r"}
  Projects = {"p1"}
  WriterKeys = {"k1"}
  Workspaces = {"w1"}
  GitWorkspaces = {}
  Revisions = {"rev1", "rev3", "revr"}
  Paths = {1}
  Contents = {0, 1}
  Payload <- PayloadRaces
  Verifiers = {"v1", "v2"}
  Serialized = FALSE
  CanPause = FALSE
  MaxHead = 0
  MaxGen = 2
  Scenarios = {"writers"}
CHECK_DEADLOCK FALSE
INVARIANT SingleWriter
