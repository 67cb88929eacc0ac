\* One message, one control and one host loss, one executor: no second copy,
\* and what the journal calls queued is with Codex, and is proven.
CONSTANTS
    Operations = {m, n}
    Messages = {m}
    Executors = {x}
    Thread = thread
    MaxRevision = 2
    MaxTurns = 3
    MaxHosts = 2
    None = None
SPECIFICATION FairSpec
INVARIANTS
    TypeOK
    AcknowledgedIsHeld
    OneCopy
    RefusedLeavesNoCopy
PROPERTIES
    ImplementsCustody
    QueuedReachesProof
    RemovedIsDiscarded
CHECK_DEADLOCK FALSE
