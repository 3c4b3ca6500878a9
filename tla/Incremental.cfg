\* Full builds, with failures, deaths, edits and discovered dependencies.
CONSTANTS
    Source = {"a", "b"}
    Cmd = {"gen", "obj"}
    Version = {"v0", "v1"}
    Reads <- MCReads
    Includes <- MCIncludes
    Dir <- MCDir
    Runs <- MCFull
    MaxEdits = 2
    MaxFaults = 1
SPECIFICATION FairSpec
INVARIANTS
    NothingForgotten
    FreshWhenClean
    NoNeedlessRun
PROPERTIES
    OwedRunsKept
    MidBuildEditsSeen
    Converges
