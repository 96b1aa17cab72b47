SPECIFICATION Spec
CONSTANTS
    c1 = c1
    c2 = c2
    None = None
    Controllers = {c1, c2}
    Policies = {"Unlimited", "Strict"}
    NoPolicy = "Unlimited"
    limits <- SomeLimits
    actions <- SomeActions
    Categories = {"RATE_LIMIT", "UNKNOWN"}
    Latencies <- SomeLatencies
    TokenCounts = {4}
    Costs = {10}
    MaxRounds = 2
    MaxChanges = 2
SYMMETRY Symmetric
CHECK_DEADLOCK FALSE
INVARIANTS
    TypeOK
    TrailsAreWhole
    NothingMissed
    NothingInvented
    RunawayIsGoverned
