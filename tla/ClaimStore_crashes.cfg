SPECIFICATION Spec
CONSTANTS
    a1 = a1
    a2 = a2
    a3 = a3
    b1 = b1
    ka = ka
    kb = kb
    v1 = v1
    v2 = v2
    v3 = v3
    v4 = v4
    j1 = j1
    None = None
    Claims = {a1, a2, b1}
    ClaimKey <- MCClaimKey
    Verdicts = {v1, v3, v4}
    VerdictOf <- MCVerdictOf
    Results <- MCResults
    Jobs = {j1}
    AutoSnapshot = TRUE
    TornWrites = FALSE
    MaxLines = 5
    MaxChunks = 3
INVARIANTS
    TypeOK
    AcknowledgedSurvives
    WithdrawalIsForever
    SupersededHasSuccessor
    SnapshotTrustedOnlyIfCurrent
    ManifestAnchorsLog
PROPERTIES
    ImplementsHistory
