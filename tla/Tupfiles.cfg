\* Small projects of every kind of rule, to the end of their parse.
SPECIFICATION FairSpec
CONSTANTS
    Dirs <- MCDirs
    Missing <- MCMissing
    Order <- MCOrder
    Projects <- MCProjects
    MaxRounds = 3
INVARIANTS
    RulesAreAFunctionOfTheProject
    NothingHalfParsed
    OneOwnerInEveryConfiguration
    GroupsAreComplete
    InputsMeetTheirProducer
    EachOnce
PROPERTIES
    Ends
