CONSTANTS
    a = a
    b = b
    c = c
    p = p
    q = q
    None = None
    Threads = {a, b, c}
    InitialThreads = {a, b}
    Callers = {p}
    Kinds <- OperationKinds
    MaxTurns = 2
    Capacity = 1
    MaxCommands = 3
SPECIFICATION LiveSpec
PROPERTIES
    DropReturns
    ImplementsExclusiveOperations
    GateReopens
