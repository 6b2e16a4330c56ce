SPECIFICATION Spec
CONSTANTS
    PoolSize = 5
    Entities = {"e", "f", "g", "ff"}
    Inside <- MCInside
    Texts <- MCTexts
    MaxScore = 2
    Score <- MCScore
    Asked = "f"
    Stripped = "f"
    WorkingSetSize = 4
    PacketBudget = 3
    None = None
INVARIANTS
    WalksAgree
    NothingThatFitsIsLeftOut
    BestPathSurvivesWhole
    OnlyAliasReachedAreDropped
CHECK_DEADLOCK FALSE
