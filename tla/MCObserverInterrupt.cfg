CONSTANTS
    a = a
    b = b
    c = c
    p = p
    q = q
    None = None
    Threads = {a, b, c}
    InitialThreads = {a, b}
    Callers = {p}
    Kinds <- InterruptKinds
    MaxTurns = 2
    Capacity = 2
    MaxCommands = 5
SPECIFICATION Spec
INVARIANTS
    InterruptHitsItsTurn
