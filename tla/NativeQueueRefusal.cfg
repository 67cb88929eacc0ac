\* Two executors: one refuses the message the other hands to Codex.
CONSTANTS
    Operations = {m}
    Messages = {m}
    Executors = {x, y}
    Thread = thread
    MaxRevision = 1
    MaxTurns = 1
    MaxHosts = 1
    None = None
SPECIFICATION Spec
INVARIANT RefusedLeavesNoCopy
CHECK_DEADLOCK FALSE
