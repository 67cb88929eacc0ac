\* A rolled back candidate takes an earlier acknowledgement with it.
CONSTANTS
    Conversations = {c1}
    Generations = {blue, green, teal}
    Deliveries = {1}
    MaxSeq = 1
    None = None
SPECIFICATION Spec
PROPERTY RollbackKeepsEarlierAcks
CHECK_DEADLOCK FALSE
