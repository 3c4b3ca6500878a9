\* Builds of one directory, of a project whose headers are discovered.
CONSTANTS
    Source = {"b", "h"}
    Cmd = {"gen", "obj"}
    Version = {"v0", "v1"}
    Reads <- MCReads
    Includes <- MCIncludes
    Dir <- MCDir
    Runs <- MCScoped
    MaxEdits = 2
    MaxFaults = 0
SPECIFICATION FullFirstSpec
PROPERTIES
    UnexaminedKept
