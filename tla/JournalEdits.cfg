\* One message and one edit: every identity has two values.
CONSTANTS
    Operations = {m, n}
    Bindings = {b, c}
    Submissions = {s, r}
    Turns = {t, u}
    Inputs = {i, j}
    MaxRevision = 2
    None = None
SPECIFICATION Spec
INVARIANTS
    TypeOK
    ProofExact
    FenceLive
    ReceiptTruth
PROPERTIES
    HistoryFrozen
SYMMETRY Symmetry
CHECK_DEADLOCK FALSE
