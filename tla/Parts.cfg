SPECIFICATION PartsSpec
CONSTANTS
    Tabs = {t1, t2}
    Messages = {n1}
    NoMessage = NoMessage
    MaxLosses = 3
    Pages = {t1, t2}
    Locks = TRUE
    MaxSession = 2
    MaxMishaps = 2
    x = x
    y = y
    z = z
    Inputs = {x, y, z}
    First = x
    Stored <- Trimmed
    Failures = {"refused", "lost"}
    MaxInputs = 4
    MaxOthers = 2
    Events = {m1, m2}
    Subscriptions = {s1}
    Digests = {d1}
    Senders = {t1, t2}
    Nobody = Nobody
    MaxTroubles = 1
    FileIds = {m1, m2}
    Quota = 1
    ToolCalls = {m1, m2}
    Managers = {t1, t2}
    NoCall = NoCall
    MaxDisruptions = 2
    MaxCrashes = 1
    Bots = {m1, m2}
    Slots = {s1}
    HearsAgents = {s1}
    DepthLimit <- DepthOne
    SkipsMissed = {m1, m2}
    Dispatchers = {t1, t2}
    Person = Person
    BatchSize = 2
    MaxChanges = 2
    MaxTurns = 3
SYMMETRY PartsSymmetry
INVARIANTS StatusTrue OneLive NoFalseReuse SavedMeansStored RepeatsExplained SentWentOut
    EffectDecided OutcomeTrue AttachedKept ReadyHasBlob LedgerTrue AnsweredOnce LoopBounded NothingPassed
PROPERTIES PostedOnce LostOnlyAfterGraft ApprovalKept
CHECK_DEADLOCK FALSE
