\* A send whose thread read timed out is fenced as never executed.
CONSTANTS
    Executors = {x}
    MaxRetries = 0
    MaxFaults = 0
    None = None
SPECIFICATION Spec
PROPERTY FenceProvesUnsent
CHECK_DEADLOCK FALSE
