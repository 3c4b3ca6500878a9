\* The ordering of jobs over graphs of three commands, and the tables.
CONSTANTS
    Parts = {"jobs", "storage", "sorted", "interner", "maps", "edges", "nodes", "targets", "variants", "cache"}
    Absent = Absent
    Unreadable = Unreadable
    Command = {1, 2, 3}
    File = {4, 5, 6}
    Group = {7}
    Graphs <- MCGraphs
    Orderings <- MCOrderings
    Vec = {1, 2}
    Value = {0, 1}
    MaxSize = 2
    SortedVec = {}
    Reserved = 4
    Page = 2
    Slack = 1
    First = 1
    Requests <- AnyRequest
    MaxClock = 5
    MaxText = 3
    Ahead = 2
    Threshold = 1
SPECIFICATION PartsSpec
CHECK_DEADLOCK FALSE
INVARIANTS
    SortIsRight
    NeverStalls
    RetractedOnlyOnContradiction
    EnforcedIsWaitedFor
    WritersComeFirst
    WalksAgree
    EachPartIsRight
    VerdictsAreRight
PROPERTIES
    WhatIsStoredStands
