SPECIFICATION FairForestSpec
CONSTANTS
    Names = {1, 2, 3, 4}
    MaxEdges = 4
INVARIANTS
    LinksDescend
    TreesAreComponents
PROPERTIES
    UnionReturns
CHECK_DEADLOCK FALSE
