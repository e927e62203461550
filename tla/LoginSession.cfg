SPECIFICATION Spec
CONSTANTS
    Requests = {r1, r2}
    Caches = {c1, c2}
    None = none
    TTL = 2
    Grace = 1
    Expiry = 3
    MaxTime = 3
    MaxToken = 1
    MaxVersion = 2
    MaxBegun = 3
SYMMETRY Symmetry
INVARIANTS RevokedIsOut BoundedStaleness
PROPERTIES RaceKeepsSession
