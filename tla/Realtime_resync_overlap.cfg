SPECIFICATION Spec
CONSTANTS
    a1 = a1
    a2 = a2
    s1 = s1
    s2 = s2
    Actors = {a1}
    Sessions = {s1}
    ActorOf <- OneActor
    NoActor = NoActor
    NoSession = NoSession
    NoConn = NoConn
    Conns = {k1}
    MinCount = 1
    MaxSeq = 4
    Commands = {"message"}
    MaxConnections = 1
    MaxQueued = 2
    MaxUnacked = 2
    LiveLimit = 2
    AckBatch = 2
    MaxFaults = 0
INVARIANTS CheckpointContiguous
SYMMETRY Symmetry
CHECK_DEADLOCK FALSE
