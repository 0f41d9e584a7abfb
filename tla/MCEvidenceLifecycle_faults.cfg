SPECIFICATION Spec
CONSTANTS
    Families = {f1}
    Evidence = {v1}
    Sessions = {s1}
    Handlers = {h1, h2}
    Jobs = {j1, j2}
    Nothing = Nothing
    Retention <- One
    GrantTtl <- One
    MaxTime = 1
    MaxEpoch = 1
SYMMETRY EvidenceSymmetry
INVARIANTS TypeOK NothingDeletedIsDelivered ServedIntact
CHECK_DEADLOCK FALSE
