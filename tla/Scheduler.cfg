\* Three jobs in two slots, every shape of dependency, failure and cancel.
CONSTANTS
    NumJobs = 3
    DependencyMaps <- MCMaps
    OptionSets <- MCOptions
    ScanJobs = {1}
SPECIFICATION MCSpec
INVARIANTS
    TypeOK
    DependencyOrder
    Bookkeeping
    SuccessIsComplete
    KeepGoingRunsTheRest
    NoChildLeft
PROPERTIES
    NoStartAfterFailure
    ImplementsJobOrder
    BuildEnds
