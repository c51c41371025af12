SPECIFICATION CalmSpec
CONSTANTS
    Keys = {k1, k2}
    Settings = {t1}
    Syncs = {r1}
    MaxData = 1
    MaxBundles = 3
    NoKey = NoKey
    Nobody = Nobody
    Nothing = Nothing
SYMMETRY Symmetry
INVARIANTS BundlesSelfContained SecretsReadable
