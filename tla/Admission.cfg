SPECIFICATION AdmissionSpec
CONSTANTS
    Tasks = {t1, t2, t3}
    First = t1
    Workspaces = {w1, w2}
    c0 = c0  c1 = c1  c2 = c2  d1 = d1  d2 = d2
    n1 = n1  n2 = n2  r0 = r0  k1 = k1  k2 = k2
    Commits = {c0, c1, c2}
    Parent <- MCParent
    Dependencies = {d1, d2}
    CommitOf <- MCCommitOf
    MaxAttempts = 3
    MaxMoves = 2
    None = None
    Names <- MCNames
    Roots <- MCRoots
    QueueTasks <- MCQueueTasks
    Revisions = {v1, v2}
    Commands <- MCCommands
    MaxHead = 2
    MaxReports = 3
    NoEntry = NoEntry
INVARIANTS
    ReadmissionSound
    RetriesKeepHistory
    AnswersAgree
    QueueSound
PROPERTIES
    LoadedIsFinal
SYMMETRY Symmetry
CHECK_DEADLOCK FALSE
