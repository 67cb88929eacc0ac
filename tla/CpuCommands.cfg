\* Two commands: one of a gate; one bound to a task, which the other may be unable to verify.
SPECIFICATION Spec
CONSTANTS
    s1 = s1
    s2 = s2
    c1 = c1
    c2 = c2
    None = None
    Stages = {}
    Commands = {c1, c2}
    Gates = {c2}
    Bound = {c1}
    Legacy = {}
    Foreign = {c1}
    Renewable = {}
    Polling = {}
    Priorities = {0, 2}
    Spacing = 1
    MaxWait = 1
    Unpolled = 1
    Abandoned = 2
    Horizon = 3
CHECK_DEADLOCK FALSE
INVARIANTS
    TypeOK
PROPERTIES
    PolledKept
    NoOvertaking
