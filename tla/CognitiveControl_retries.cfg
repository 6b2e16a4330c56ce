SPECIFICATION Spec
CONSTANTS
    p1 = p1
    f1 = f1
    f2 = f2
    d1 = d1
    d2 = d2
    o1 = o1
    o2 = o2
    o3 = o3
    None = None
    Absent = Absent
    NoManifest = NoManifest
    Provenances = {p1}
    Facts = {f1, f2}
    Decisions = {d1, d2}
    Operations = {o1, o2, o3}
    Moments = {0, 1, 2}
    CreatedAt <- MCCreatedAt
    ProvenanceOf <- MCProvenanceOf
    RecordedAt <- MCRecordedAt
    ValidFrom <- MCValidFrom
    ValidUntil <- MCValidUntil
    Subject <- MCSubject
    Value <- MCValue
    Parent <- MCParent
    Timestamp <- MCTimestamp
    MaxEvents = 5
SYMMETRY MCSymmetry
INVARIANTS
    TypeOK
    LogReplays
    MemoryFollowsLog
    RetriesAreAnswered
PROPERTIES
    PastIsFixed
CHECK_DEADLOCK FALSE
