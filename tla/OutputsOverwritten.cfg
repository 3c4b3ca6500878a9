\* The user has a file of the name a rule will make later.
CONSTANTS
    Paths = {"src", "out", "two"}
    Dirs = {"a"}
    DirOf <- MCDirOf
    Rules <- MCRules
    Writable = {"src", "out"}
    Refusals = FALSE
    Scopes = {{"a"}}
SPECIFICATION Spec
CHECK_DEADLOCK FALSE
PROPERTIES
    UserFilesSurvive
