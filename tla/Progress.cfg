SPECIFICATION ProgressSpec
CONSTANTS
    Tabs = {t1}
    Messages = {m1, m2}
    NoMessage = NoMessage
    MaxLosses = 1
    Pages = {t1, t2}
    Locks = TRUE
    MaxSession = 3
    MaxMishaps = 1
    x = x
    y = y
    z = z
    Inputs = {x, y, z}
    First = x
    Stored <- Trimmed
    Failures = {"refused"}
    MaxInputs = 2
    MaxOthers = 1
    Events = {m1}
    Subscriptions = {s1}
    Digests = {d1}
    Senders = {t1, t2}
    Nobody = Nobody
    MaxTroubles = 1
    FileIds = {m1}
    Quota = 1
    ToolCalls = {m1}
    Managers = {t1, t2}
    NoCall = NoCall
    MaxDisruptions = 2
    MaxCrashes = 1
    Bots = {m1}
    Slots = {s1}
    HearsAgents = {s1}
    DepthLimit <- DepthOne
    SkipsMissed = {}
    Dispatchers = {t1, t2}
    Person = Person
    BatchSize = 1
    MaxChanges = 2
    MaxTurns = 3
    c1 = c1
    Runs = {r1, r2}
    Chats = {c1}
    NoChat = NoChat
    ChatOf <- OneChat
    DryRuns = {r2}
    Workers = {w1}
    NoRun = NoRun
    Calls = {}
    MaxAttempts = 2
    ChatLimit = 1
    Budget = 1
    MaxCost = 1
    MaxFaults = 0
PROPERTIES EveryRunEnds PostedWhenFlushed RefreshEnds InputSavedOrShown EveryDeliveryEnds
    ApprovalEnds ReservationEnds OwedIsRun
CHECK_DEADLOCK FALSE
