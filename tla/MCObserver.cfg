CONSTANTS
    a = a
    b = b
    c = c
    p = p
    q = q
    None = None
    Threads = {a, b, c}
    InitialThreads = {a, b}
    Callers = {p, q}
    Kinds <- AllKinds
    MaxTurns = 1
    Capacity = 2
    MaxCommands = 3
SPECIFICATION Spec
SYMMETRY Symmetry
INVARIANTS
    TypeOK
    GateHoldsOneRequest
    TurnKeepsItsThread
    WriterIsWatched
    NoTurnWithoutWriter
    ArchivedIsReadOnly
