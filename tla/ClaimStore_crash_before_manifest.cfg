SPECIFICATION Spec
CONSTANTS
    a1 = a1
    a2 = a2
    a3 = a3
    b1 = b1
    ka = ka
    kb = kb
    v1 = v1
    v2 = v2
    v3 = v3
    v4 = v4
    j1 = j1
    None = None
    Claims = {a1}
    ClaimKey <- MCClaimKey
    Verdicts = {}
    VerdictOf <- MCVerdictOf
    Results <- MCResults
    Jobs = {}
    AutoSnapshot = TRUE
    TornWrites = FALSE
    MaxLines = 2
    MaxChunks = 3
INVARIANTS
    AlwaysRecovers
