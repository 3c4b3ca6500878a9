\* Builds of one target between full builds.
CONSTANTS
    Source = {"a"}
    Cmd = {"gen", "app"}
    Version = {"v0", "v1"}
    Reads <- MCReads
    Includes <- NoIncludes
    Dir <- MCDir
    Runs <- MCTargets
    MaxEdits = 2
    MaxFaults = 0
SPECIFICATION FullFirstSpec
INVARIANTS
    NothingForgotten
