\* The smaller components, one at a time.
CONSTANTS
    Parts = {"outputs", "refusals", "index", "variables", "globs", "regexes", "paths", "depfiles"}
    Paths <- OutPaths
    Dirs <- OutDirs
    DirOf <- OutDirOf
    Rules <- OutRules
    Writable <- OutWritable
    Refusals = TRUE
    Scopes <- OutScopes
    Records <- Saves
    Values <- Damaged
    MaxString = 2
    TupProjects <- Projects
SPECIFICATION PartsSpec
CHECK_DEADLOCK FALSE
INVARIANTS
    BranchesLeaveNothing
    FilesAreOwned
    RecordIsSafe
    ReadsWhatWasSaved
    TextsAreReadRight
PROPERTIES
    SourcesSurvive
    OutputsFollowVariables
