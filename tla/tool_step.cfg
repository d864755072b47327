CONSTANTS
    Steps = {invoice_a, invoice_b}
    MaxAttempts = 3
    MaxDeterministic = 2
    MaxLeases = 3
    Faults = {"timeout", "crash", "save", "expiry"}
    MaxLost = 2
SPECIFICATION Spec
SYMMETRY StepSymmetry
INVARIANTS OutputIsAWrite OneResultPerStep 
CHECK_DEADLOCK FALSE
