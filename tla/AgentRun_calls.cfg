SPECIFICATION Spec
CONSTANTS
    r1 = r1
    r2 = r2
    c1 = c1
    Runs = {r1, r2}
    Chats = {c1}
    NoChat = NoChat
    ChatOf <- OneChat
    DryRuns = {r1, r2}
    Workers = {w1, w2}
    NoRun = NoRun
    Calls = {p1, p2}
    MaxAttempts = 1
    ChatLimit = 2
    Budget = 1
    MaxCost = 2
    MaxFaults = 0
SYMMETRY AllSymmetry
PROPERTIES BudgetHeld
