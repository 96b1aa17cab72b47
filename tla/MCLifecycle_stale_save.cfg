SPECIFICATION Spec
CONSTANTS
    e1 = e1
    e2 = e2
    c1 = c1
    c2 = c2
    x1 = x1
    x2 = x2
    NoThread = NoThread
    Executors = {e1}
    Cancellers = {c1}
    Ids = {x1}
    Assignments <- One
    CancelAfterStart = FALSE
    BusMayFail = FALSE
PROPERTIES
    TerminalAbsorbing
