\* One send, its executor and the host it may lose, a retry, a discard and two
\* faults of any process, store or host.
CONSTANTS
    Executors = {x}
    MaxRetries = 1
    MaxFaults = 2
    None = None
SPECIFICATION FairSpec
INVARIANTS
    TypeOK
    DeliveredArrived
PROPERTIES
    OneDecision
    AnswersStay
    EverySendEnds
    DeliveredIsToldSo
CHECK_DEADLOCK FALSE
