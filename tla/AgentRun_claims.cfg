SPECIFICATION Spec
CONSTANTS
    r1 = r1
    r2 = r2
    c1 = c1
    Runs = {r1, r2}
    Chats = {c1}
    NoChat = NoChat
    ChatOf <- OneChat
    DryRuns = {}
    Workers = {w1, w2}
    NoRun = NoRun
    Calls = {}
    MaxAttempts = 2
    ChatLimit = 1
    Budget = 1
    MaxCost = 1
    MaxFaults = 2
CONSTRAINT CrashesAlone
SYMMETRY AllSymmetry
INVARIANTS QueueInv ChatLimitHeld OneFinalMessage
PROPERTIES QueueKept
