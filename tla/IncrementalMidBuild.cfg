\* Builds of one directory with all it depends on, while sources change.
CONSTANTS
    Source = {"a", "b"}
    Cmd = {"gen", "app"}
    Version = {"v0", "v1"}
    Reads <- MCReads
    Includes <- NoIncludes
    Dir <- MCDir
    Runs <- MCAllDeps
    MaxEdits = 3
    MaxFaults = 0
SPECIFICATION FullFirstSpec
PROPERTIES
    MidBuildEditsSeen
