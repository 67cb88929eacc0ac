\* A superseding snapshot reorders owed deliveries.
CONSTANTS
    Conversations = {c1}
    Generations = {blue, green}
    Deliveries = {1, 2}
    MaxSeq = 2
    None = None
SPECIFICATION Spec
PROPERTY ReplayOrderKept
CHECK_DEADLOCK FALSE
