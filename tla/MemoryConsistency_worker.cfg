SPECIFICATION FairSpec
CONSTANTS
    a1 = a1
    a2 = a2
    b1 = b1
    b2 = b2
    n1 = n1
    n2 = n2
    f1 = f1
    None = None
    Claims = {a1, a2, b1, b2}
    ClaimKey <- MCClaimKey
    Entity <- MCEntity
    Relation <- MCRelation
    Value <- MCValue
    Content <- MCContent
    Source <- MCSource
    AliasRelation = "alias_of"
    Results <- MCResults
    Verdicts <- MCVerdicts
    VerdictOf <- MCVerdictOf
    Jobs = {}
    MaxEvents = 5
INVARIANTS
    SupportIsCurrent
PROPERTIES
    VerificationTakesEffect
    QueueDrains
CHECK_DEADLOCK FALSE
