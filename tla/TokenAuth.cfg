CONSTANTS
    t1 = t1  t2 = t2  h1 = h1  h2 = h2
    Token = {t1, t2}
    Handshake = {h1, h2}
    TTL = 2
    Lifetimes <- OneOrNever
    Never = Never
    NoRow = NoRow
    MaxTime = 5
    MaxFetch = 1
SPECIFICATION Spec
SYMMETRY Symmetry
INVARIANTS
    TypeOK
    StalenessBounded
    CacheVouchesForRows
