SPECIFICATION Spec
CONSTANTS
    None = None
    Torn = Torn
    Commits <- MCCommits
    Ancestors <- MCAncestors
    Key <- MCKey
    Protocol <- MCProtocol
    Primary <- MCPrimary
    Diagnostic <- MCDiagnostic
    Tasks <- MCTasks
    MaxCommands = 4
    MaxKills = 1
CHECK_DEADLOCK FALSE
INVARIANTS
    TypeOK
    VerifiedBundleIsWhole
    QualificationFollowsDevelopment
    LaunchIsOfItsRevision
PROPERTIES
    PaidWorkIsKept
