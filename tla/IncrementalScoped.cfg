\* Builds of one directory, plain or with --rerun, between full builds.
CONSTANTS
    Source = {"a", "b"}
    Cmd = {"gen", "app"}
    Version = {"v0", "v1"}
    Reads <- MCReads
    Includes <- NoIncludes
    Dir <- MCDir
    Runs <- MCScoped
    MaxEdits = 2
    MaxFaults = 1
SPECIFICATION FullFirstSpec
INVARIANTS
    NothingForgotten
PROPERTIES
    UnexaminedKept
