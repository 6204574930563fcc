SPECIFICATION MCSpec
CONSTANTS
    Runs = {"run0", "run1", "run2"}
    RunOf <- MCRunOf
    Ops = {"s0", "s1", "s2", "s3"}
    Ids = {"q1", "q2"}
    MaxCache = 6
    MaxPerRun = 2
    MaxTotal = 2
    MaxCrashes = 1
INVARIANTS
    StartsAreBounded
    ExitIsProven
    EndedRunsHaveNoProcess
PROPERTIES
    SupervisorEnds
CHECK_DEADLOCK FALSE
