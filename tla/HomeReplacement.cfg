SPECIFICATION MCSpec
CONSTANTS
    Callers = {"c1", "c2"}
    Archives = {"A", "B"}
    MaxHomes = 3
    MaxStops = 2
    SameArchive = TRUE
    SetupInGap = TRUE
    Operator = "c1"
    RaceArchives = {"A"}
INVARIANTS
    HomesAccountedFor
    AdviceLeadsOn
PROPERTIES
    ImplementsKeeping
    EventuallySettled
CHECK_DEADLOCK FALSE
