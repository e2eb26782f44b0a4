SPECIFICATION FairSpec
CONSTANTS
    a1 = a1
    a2 = a2
    s1 = s1
    s2 = s2
    Actors = {a1}
    Sessions = {s1}
    ActorOf <- OneActor
    NoActor = NoActor
    NoSession = NoSession
    NoConn = NoConn
    Conns = {k1}
    MinCount = 2
    MaxSeq = 2
    Commands = {"message"}
    MaxConnections = 1
    MaxQueued = 2
    MaxUnacked = 2
    LiveLimit = 1
    AckBatch = 3
    MaxFaults = 0
PROPERTIES AppliedIsAcked
CHECK_DEADLOCK FALSE
