SPECIFICATION Spec
CONSTANTS
    r1 = r1
    r2 = r2
    c1 = c1
    Runs = {r1}
    Chats = {c1}
    NoChat = NoChat
    ChatOf <- OneChat
    DryRuns = {}
    Workers = {w1, w2}
    NoRun = NoRun
    Calls = {p1, p2}
    MaxAttempts = 2
    ChatLimit = 1
    Budget = 2
    MaxCost = 2
    MaxFaults = 0
INVARIANTS ConflictMeansLost
