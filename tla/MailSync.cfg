SPECIFICATION CalmSpec
CONSTANTS
    Runs = {r1, r2}
    MaxMails = 3
    MaxTime = 2
    Batch = 2
    Never = Never
    Nobody = Nobody
SYMMETRY RunSymmetry
INVARIANTS NothingSkipped LedgerIsHistory
