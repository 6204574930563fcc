SPECIFICATION MCSpec
CONSTANTS
    Routes = {"r1", "r2"}
    Conns = {"c1", "c2", "c3"}
    MaxPeers = 2
    MaxChunks = 2
    MaxFlips = 2
    Listener = "listener"
    NoOne = "none"
INVARIANTS PeersAccountedFor ReleasedOnce
PROPERTIES NoStrayAnswers RetiredServiceEnds
CHECK_DEADLOCK FALSE
