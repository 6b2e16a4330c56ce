SPECIFICATION Spec
CONSTANTS
    None = None
    Torn = Torn
    Commits <- MCCommits
    Ancestors <- MCAncestors
    Key <- MCKey
    Protocol <- MCProtocol
    Primary <- MCPrimary
    Diagnostic <- MCDiagnostic
    Tasks <- MCTasks
    MaxCommands = 2
    MaxKills = 1
CHECK_DEADLOCK FALSE
INVARIANTS
    OnlyCertifiedIsNamedValid
