\* A weak assignment before a conditional with rules in both its branches.
CONSTANTS
    Parts = {"variables"}
    Paths <- OutPaths
    Dirs <- OutDirs
    DirOf <- OutDirOf
    Rules <- OutRules
    Writable <- OutWritable
    Refusals = TRUE
    Scopes <- OutScopes
    Records <- Saves
    Values <- Damaged
    MaxString = 2
    TupProjects <- WeakProjects
SPECIFICATION PartsSpec
CHECK_DEADLOCK FALSE
INVARIANT BranchesLeaveNothing
