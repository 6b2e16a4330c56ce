SPECIFICATION FairSpec
CONSTANTS
    p = p
    q = q
    e1 = e1
    e2 = e2
    cp = cp
    cq = cq
    None = None
    Jobs = {p, q}
    ClaimOf <- MCClaimOf
    Rank <- MCRank
    Captures = {e1, e2}
    Outcomes <- MCOutcomes
    Result <- MCResult
    GapCrashes = TRUE
    TornQueue = TRUE
    MaxCrashes = 3
    MaxRetractions = 1
INVARIANTS
    OneVerdictPerJob
    VerdictHasEvidence
    OneCapturePerJob
PROPERTIES
    KeepsPromise
    EveryJobFinishes
CHECK_DEADLOCK FALSE
