\* Two executors carry the same message and the same control, and neither
\* refuses what the other has prepared.
CONSTANTS
    Operations = {m, n}
    Messages = {m}
    Executors = {x, y}
    Thread = thread
    MaxRevision = 1
    MaxTurns = 2
    MaxHosts = 1
    None = None
SPECIFICATION PreparedSpec
INVARIANTS
    OneCopy
    RefusedLeavesNoCopy
SYMMETRY Symmetry
CHECK_DEADLOCK FALSE
