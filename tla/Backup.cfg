SPECIFICATION Spec
CONSTANTS
    r1 = r1
    r2 = r2
    o1 = o1
    o2 = o2
    Runs = {r1, r2}
    Ops = {o1, o2}
    RunOf <- OpOfEachRun
    Backups = {b1}
    Restores = {s1, s2}
    None = None
INVARIANTS ArchiveIsOneInstant RestoredHomeIsSound OneRestoreLands
CHECK_DEADLOCK FALSE
