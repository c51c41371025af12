SPECIFICATION Spec
CONSTANTS
    Runs = {r1, r2}
    Accounts = {alice, bob}
    NoAccount = NoAccount
    MaxRuns = 3
INVARIANTS TypeOK StatusTruthful
PROPERTIES PromptEnds SyncAvailable
