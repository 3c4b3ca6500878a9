\* A second build in place: what the first one made is on the disk.
SPECIFICATION FairSpec
CONSTANTS
    Dirs <- MCDirs
    Missing <- MCMissing
    Order <- MCOrder
    Projects <- MCRebuilt
    MaxRounds = 8
INVARIANT
    LaterRulesStayOut
