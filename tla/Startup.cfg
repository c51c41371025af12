CONSTANTS
    Upgrades <- MCUpgrades
    MaxEdits = 2
    MaxCrashes = 1
SPECIFICATION Spec
INVARIANTS
    TypeOK
    SchemaComplete
    LegacyRowsConverted
    ChoicesKept
PROPERTY SettlesInTwoStarts
