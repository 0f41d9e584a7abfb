SPECIFICATION Spec
CONSTANTS
    Evidence = {e1, e2}
    Receipts = {r1, r2, r3}
    DemoMode = TRUE
    Faults = {"crash", "oserror", "dberror"}
SYMMETRY DeletionSymmetry
INVARIANTS TypeOK EvidenceKept CompletedIsEmpty
PROPERTIES NeverReseeded
