SPECIFICATION Spec
CONSTANTS
    a1 = a1
    a2 = a2
    a3 = a3
    b1 = b1
    ka = ka
    kb = kb
    v1 = v1
    v2 = v2
    v3 = v3
    v4 = v4
    j1 = j1
    None = None
    Claims = {a1, a2}
    ClaimKey <- MCClaimKey
    Verdicts = {v1}
    VerdictOf <- MCVerdictOf
    Results <- MCResults
    Jobs = {j1}
    AutoSnapshot = TRUE
    TornWrites = TRUE
    MaxLines = 4
    MaxChunks = 3
INVARIANTS
    MemoryMatchesHistory
    ReferencesResolve
