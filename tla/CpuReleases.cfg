\* A stage of the older release and one of the current, bound to a task.
SPECIFICATION FairSpec
CONSTANTS
    s1 = s1
    s2 = s2
    c1 = c1
    c2 = c2
    None = None
    Stages = {s1, s2}
    Commands = {}
    Gates = {}
    Bound = {s2}
    Legacy = {s1}
    Foreign = {}
    Renewable = {s2}
    Polling = {s2}
    Priorities = {0, 1}
    Spacing = 1
    MaxWait = 1
    Unpolled = 1
    Abandoned = 2
    Horizon = 3
CHECK_DEADLOCK FALSE
INVARIANTS
    TypeOK
    HeadExists
PROPERTIES
    PolledKept
    PollerAdmitted
