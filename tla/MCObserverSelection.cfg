CONSTANTS
    a = a
    b = b
    c = c
    p = p
    q = q
    None = None
    Threads = {a, b, c}
    InitialThreads = {a, b}
    Callers = {p}
    Kinds <- SelectionKinds
    MaxTurns = 2
    Capacity = 2
    MaxCommands = 3
SPECIFICATION Spec
INVARIANTS
    LastSelectionWatched
