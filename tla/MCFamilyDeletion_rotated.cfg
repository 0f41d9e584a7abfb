SPECIFICATION Spec
CONSTANTS
    Evidence = {e1, e2}
    Receipts = {r1, r2}
    DemoMode = TRUE
    Faults = {}
INVARIANTS FailsOnlyByFault
