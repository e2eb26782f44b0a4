SPECIFICATION FairSpec
CONSTANTS
    a1 = a1
    a2 = a2
    s1 = s1
    s2 = s2
    Actors = {a1}
    Sessions = {s1}
    ActorOf <- OneActor
    NoActor = NoActor
    NoSession = NoSession
    NoConn = NoConn
    Conns = {k1, k2}
    MinCount = 1
    MaxSeq = 2
    Commands = {"reply", "status"}
    MaxConnections = 1
    MaxQueued = 1
    MaxUnacked = 1
    LiveLimit = 1
    AckBatch = 3
    MaxFaults = 1
INVARIANTS DeliveryInv
PROPERTIES EventuallyDelivered StreamKept
CHECK_DEADLOCK FALSE
