SPECIFICATION MCSpec
CONSTANTS
    Executions = {1}
    Asked <- MCAsked
    SubmittedProviders <- MCSubmittedProviders
    SubmittedModels <- MCSubmittedModels
    Lowered <- MCLowered
    Alphabet <- MCAlphabet
    Offered <- MCOffered
    Answers <- MCAnswers
    MaxChanges = 2
    MaxRegistrations = 1
INVARIANTS CatalogIsWhole RoutingIsExact
CHECK_DEADLOCK FALSE
