SPECIFICATION MCSpec
CONSTANTS
    t1 = t1
    Tasks = {t1, t2}
    Grants = {g1, g2}
    Routes = {r1, r2}
    Ops = {o1, o2}
    MaxAttempts = 2
    MaxCheckpoints = 1
    MaxRevisions = 1
INVARIANTS
    DoneOnce
PROPERTIES
    EffectsOnlyWhileWriter
    ImplementsReservation
SYMMETRY Symmetry
