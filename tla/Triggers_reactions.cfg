SPECIFICATION TriggersSpec
CONSTANTS
    b1 = b1
    b2 = b2
    Bots = {b1, b2}
    Slots = {c}
    HearsAgents = {c}
    DepthLimit <- One
    SkipsMissed = {b1, b2}
    Dispatchers = {t1}
    Person = Person
    BatchSize = 2
    MaxChanges = 1
    MaxTurns = 3
INVARIANTS ChainBounded
CHECK_DEADLOCK FALSE
