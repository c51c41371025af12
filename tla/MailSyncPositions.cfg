SPECIFICATION Spec
CONSTANTS
    Runs = {r1}
    MaxMails = 2
    MaxTime = 1
    Batch = 2
    Never = Never
    Nobody = Nobody
INVARIANTS LedgerIsHistory
