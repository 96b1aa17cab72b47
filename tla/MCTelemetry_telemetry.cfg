SPECIFICATION TelemetrySpec
CONSTANTS
    x1 = x1  x2 = x2  p1 = p1  p2 = p2  t1 = t1  t2 = t2  a1 = a1  a2 = a2  u1 = u1  u2 = u2
    k1 = k1  k2 = k2
    None = None  NoTool = NoTool  NoWeb = NoWeb  NoHealth = NoHealth  NoCost = NoCost
    NoAgent = NoAgent
    JsonArray = JsonArray
    BadDuration = BadDuration
    BadNumber = BadNumber
    Executions = {x1, x2}
    Events <- TokenEvents
    MaxClears = 1
    ToolExecutions = {x1}
    ToolEvents <- SomeToolEvents
    MaxToolLinks = 1
    MaxToolClears = 1
    WebExecutions = {x1}
    WebEvents <- SomeWebEvents
    MaxWebLinks = 1
    MaxWebClears = 1
    HealthExecutions = {x1, x2}
    HealthEvents <- SomeHealthEvents
    ProviderNames = {"P1", "P2 "}
    ModelNames = {"M"}
    Lower <- LowerCase
    MaxHealthLinks = 1
    MaxHealthClears = 1
    Callers = {a1, a2}
    CostedRuns = {x1, x2}
    Usages <- SomeUsages
    Rates <- SomeRates
    Target <- TargetKey
    MaxCostCalls = 3
    MaxRateChanges = 3
    AgentExecutions = {x1}
    AgentThreads = {a1, a2}
    AgentSetups <- SomeSetups
    Stdouts <- SomeStdouts
    Offers <- SomeOffers
    StepIndices = {k1, k2}
    AgentControls <- SomeControls
    MaxAgentSteps = 2
    MaxAgentCalls = 1
INVARIANTS
    TypeOK
    CountsAreEarned
    HistoryIsComplete
    ToolsCorrelated
    WebCorrelated
    HealthAgrees
    StepsAreTold
    SessionsAdd
    ActivityIsPaired
PROPERTIES
    CostsAreEarned
SYMMETRY Same
CHECK_DEADLOCK FALSE
