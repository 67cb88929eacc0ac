\* Two generations hand one conversation with two ordered deliveries on.
CONSTANTS
    Conversations = {c1}
    Generations = {blue, green}
    Deliveries = {1, 2}
    MaxSeq = 2
    None = None
SPECIFICATION Spec
INVARIANTS
    TypeOK
    OneLease
    LeaseCoherent
    AcksInherited
PROPERTIES
    ImplementsLease
    DeliveriesKept
    CarriedStayFirst
SYMMETRY Symmetry
CHECK_DEADLOCK FALSE
