SPECIFICATION MCSpec
CONSTANTS
    r1 = r1
    r2 = r2
    t = t
    log1 = log1
    tree1 = tree1
    log2 = log2
    b1 = b1
    b2 = b2
    RunOrder <- TwoRuns
    Evidence = {log1, tree1, log2}
    Trees = {tree1}
    OwnerOf <- OwnerOfEach
    TaskOf <- OneTask
    Old = {r1}
    Recent = {}
    MaxEvidence = 1
    BackupOrder <- TwoBackups
    KeepBackups = 1
    MaxBackupBytes = 0
    Prunes = {p1, p2}
    MaxTouches = 2
    NoFile = NoFile
PROPERTIES DeletionsAreSafe LastBackupKept
SYMMETRY PruneSymmetry
CHECK_DEADLOCK FALSE
