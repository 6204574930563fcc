SPECIFICATION MCSpec
CONSTANTS
  Callers = {"c1", "c2"}
  Kind = "git"
  Interference = TRUE
  MaxCommits = 4
  MaxFaults = 3
  RaceFaults = 1
  SerialCommits = 2
CHECK_DEADLOCK FALSE
INVARIANTS OneCommitLands JournalTruthful
PROPERTIES SerialJournalNeverRegresses QuietRecovers
