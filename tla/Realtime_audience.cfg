SPECIFICATION Spec
CONSTANTS
    a1 = a1
    a2 = a2
    s1 = s1
    s2 = s2
    Actors = {a1, a2}
    Sessions = {s1, s2}
    ActorOf <- OneActor
    NoActor = NoActor
    NoSession = NoSession
    NoConn = NoConn
    Conns = {k1, k2}
    MinCount = 4
    MaxSeq = 3
    Commands = {"state", "join", "remove"}
    MaxConnections = 2
    MaxQueued = 2
    MaxUnacked = 2
    LiveLimit = 2
    AckBatch = 1
    MaxFaults = 0
INVARIANTS NoSilentSkip OnlyAddressed
SYMMETRY Symmetry
CHECK_DEADLOCK FALSE
