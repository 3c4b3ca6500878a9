---------------------------- MODULE MCAlgorithms ----------------------------
(***************************************************************************)
(* The algorithms and tables below the rest for TLC, one per behaviour:    *)
(* part names the one that runs.  The ordering of jobs has the variables   *)
(* of its module, so has the stat cache, and the others have r1 to r8.     *)
(***************************************************************************)
EXTENDS JobGraphProperties, Walks, StorageSizes, StatCache

CONSTANTS Parts, Absent, Unreadable
VARIABLES part, r1, r2, r3, r4, r5, r6, r7, r8

registers == <<r1, r2, r3, r4, r5, r6, r7, r8>>
-----------------------------------------------------------------------------
\* JobGraph: command n writes file n + 3; group 7 lists file 4.
Out(c) == c + 3
Writes == {<<c, Out(c)>> : c \in Command} \cup {<<4, g>> : g \in Group}

\* Which file each command may read; whether command 3 scans for command 2;
\* who may be ordered after the group, or after a file.
MCGraphs ==
    {[data |-> Writes \cup r \cup s, order |-> o] :
        r \in SUBSET {<<Out(p), c>> : <<p, c>> \in {<<1, 2>>, <<2, 3>>, <<3, 1>>}},
        s \in SUBSET {<<3, 2>>},
        o \in (SUBSET {<<g, c>> : g \in Group, c \in {2, 3}}) \cup {{<<5, 1>>}}}

\* Nothing, one pair, or two of which the second begins where the first ends.
Others == {o \in Pairs : o[1] # o[2]}
Meeting == {po \in Others \X Others : po[1][2] = po[2][1]}
MCOrderings == {{}, {<<1, 1>>}} \cup {{o} : o \in Others} \cup {{po[1], po[2]} : po \in Meeting}
-----------------------------------------------------------------------------
\* Storage: two Vecs, or two sorted ones.
G == INSTANCE Storage WITH
        used <- r1, committed <- r2, mem <- r3, vec <- r4, others <- r5
K == INSTANCE Storage WITH
        used <- r1, committed <- r2, mem <- r3, vec <- r4, others <- r5,
        SortedVec <- Vec
AnyRequest == {[size |-> 1, align |-> 2]}
-----------------------------------------------------------------------------
\* Interner: three names with hashes that may meet, in tables that start small.
TwoStrings == {<<"a">>, <<"a", "b">>}
SomePaths == {<<"a">>, <<"a", "b">>, <<"", "b", "a">>, <<"b", ".", "b">>}
NoComponents == {"", "."}
SomeSeeds == {<<0, 1, 1>>, <<4, 1, 4>>}
HashOf(s, string) ==
    CASE string = <<"a">> -> s[1] [] string = <<"b">> -> s[2] [] string = <<"a", "b">> -> s[3]
      [] OTHER -> Len(string)
EdgeHashOf(p, n) == (p * 3 + n) % 8
I == INSTANCE Interner WITH
        seed <- r1, index <- r2, strings <- r3, children <- r4, nodes <- r5, interned <- r6, made <- r7,
        Strings <- TwoStrings, Skipped <- NoComponents, Paths <- SomePaths, Seeds <- SomeSeeds,
        HashString <- HashOf, EdgeHash <- EdgeHashOf, MinSlots <- 2, MaxEntries <- 3
-----------------------------------------------------------------------------
\* IdMaps: words of two bits and pages of two words.
TwoKinds == {"file", "command"}
SomeIds == {[kind |-> "file", index |-> i] : i \in {0, 2, 3, 5}} \cup {[kind |-> "command", index |-> 1]}
M == INSTANCE IdMaps WITH
        table <- r1, pairs <- r2, ids <- r3, held <- r4,
        Kinds <- TwoKinds, WordBits <- 2, PageCells <- 2, Ids <- SomeIds, Payloads <- {0, 1}, MaxIndex <- 5
-----------------------------------------------------------------------------
\* GraphEdges: one command and two files, with six edges at most.
Id(kind, i) == [kind |-> kind, index |-> i]
SomeEdges ==
    {[from |-> Id("file", 1), to |-> Id("command", 1), type |-> "normal"],
     [from |-> Id("file", 2), to |-> Id("command", 1), type |-> "sticky"],
     [from |-> Id("command", 1), to |-> Id("file", 2), type |-> "normal"],
     [from |-> Id("file", 1), to |-> Id("file", 2), type |-> "group"]}
E == INSTANCE GraphEdges WITH
        files <- r1, commands <- r2, edges <- r3, arena <- r4, from <- r5, to <- r6,
        Kinds <- TwoKinds, WordBits <- 2, PageCells <- 4, Candidates <- SomeEdges,
        MaxFiles <- 3, MaxCommands <- 1, MaxEdges <- 6
-----------------------------------------------------------------------------
\* FileNodes: files and directories of both roots, a path below the name of the
\* build directory, and one without a root.
SomeAsked ==
    {[root |-> r, names |-> n] : r \in {"source", "build"}, n \in {<<"a">>, <<"a", "x">>}}
        \cup {[root |-> "source", names |-> <<"b", "a">>], [root |-> "ungrounded", names |-> <<"a", "x">>]}
F == INSTANCE FileNodes WITH
        files <- r1, where <- r2,
        Asked <- SomeAsked, GroupNames <- {"g"}, BuildName <- "b", NoName <- "-", MaxFiles <- 6
-----------------------------------------------------------------------------
\* Targets: a project with two directories that may be build directories, one with
\* a directory below that may have a configuration of its own.
Ini == <<"I">>
Tup == <<"T">>
Conf == <<"C">>
Pup == <<".">>
Top == <<"p">>
BuildA == <<"b", "a">>
BuildB == <<"b", "b">>
Sub == <<"s">>
Code == <<"f", "c">>
Obj == <<"f", "o">>
Project == <<Top>>
InA == <<Top, BuildA>>
InB == <<Top, BuildB>>
MayExist == {<<Top, Ini>>, <<Top, Conf>>, InA \o <<Conf>>, InB \o <<Conf>>, InA \o <<Sub, Conf>>, <<Top, Sub, Tup>>}
SomeTrees ==
    {[dirs |-> {<<>>, Project, InA, InB, <<Top, Sub>>, InA \o <<Sub>>} \cup d,
      files |-> f \cup {<<Top, Tup>>, InA \o <<Code>>, <<Top, Sub, Code>>, InB \o <<Obj>>}] :
        f \in SUBSET MayExist, d \in {{}, {InB \o <<Pup>>}}}
Word(name, rest) == [head |-> name, tail |-> <<>>, glob |-> FALSE, rest |-> rest, star |-> FALSE]
Pattern(rest) == [Word(<<"b">>, rest) EXCEPT !.glob = TRUE]
SomeTargets ==
    {{}, {Word(BuildA, <<>>)}, {Pattern(<<>>)}, {Pattern(<<Sub>>)}, {Pattern(<<Code>>)}, {Pattern(<<Sub, Obj>>)},
     {Word(BuildB, <<>>), Word(BuildA, <<Sub>>)}, {Word(Sub, <<>>)}, {Word(BuildB, <<Obj>>)},
     {Pattern(<<>>), Word(Sub, <<>>)}, {[Word(Sub, <<Obj>>) EXCEPT !.star = TRUE]}}
Plain ==
    [targets |-> {}, builds |-> {}, source |-> Absent, build |-> Absent, config |-> Absent,
     env |-> [source |-> Absent, build |-> Absent, config |-> Absent], cwd |-> Project]
SomeCommands ==
    {[Plain EXCEPT !.targets = t, !.builds = b, !.env.build = e, !.cwd = w] :
        t \in SomeTargets, b \in {{}, {InA}}, e \in {Absent, InB}, w \in {Project, InA, InA \o <<Sub>>}}
    \cup {[Plain EXCEPT !.source = s, !.config = c, !.env.source = Project, !.cwd = w] :
              s \in {Absent, InA}, c \in {Absent, Project, InA}, w \in {<<>>, <<Top, Sub>>, InA}}
T == INSTANCE Targets WITH
        tree <- r1, command <- r2, answer <- r3,
        Trees <- SomeTrees, Commands <- SomeCommands, SourceNames <- {Code}, IniName <- Ini,
        TupfileName <- Tup, ConfigName <- Conf, PupName <- Pup, None <- Absent
-----------------------------------------------------------------------------
\* Variants: two build directories, the second never configured, and one directory
\* below each; some commands name one of them twice.
Sets(n) == [x \in {"x"} |-> n]
Building ==
    [kind |-> "build", variants |-> <<"a", "b">>, dry |-> FALSE, install |-> Absent, defines |-> Sets(Absent),
     keepGoing |-> FALSE, rules |-> {}]
Configuring == [Building EXCEPT !.kind = "configure"]
SomeRequests ==
    {Building, [Building EXCEPT !.variants = <<"a">>, !.defines = Sets(2)],
     Configuring, [Configuring EXCEPT !.install = Sets(2), !.rules = {<<"s">>}],
     [Configuring EXCEPT !.dry = TRUE, !.rules = {<<"s">>}, !.variants = <<"b">>],
     [Configuring EXCEPT !.rules = {<<>>, <<"s">>}, !.keepGoing = TRUE, !.variants = <<"b", "a">>,
                         !.defines = Sets(2)],
     [Building EXCEPT !.variants = <<"a", "a">>], [Configuring EXCEPT !.variants = <<"b", "b">>],
     [Configuring EXCEPT !.variants = <<"a", "a">>, !.install = Sets(2), !.rules = {<<>>}]}
ConfigsAt(root, sub) == [d \in {<<>>, <<"s">>} |-> IF d = <<>> THEN root ELSE sub]
SomeStarts ==
    {[v \in {"a", "b"} |-> IF v = "a" THEN ConfigsAt(r, s) ELSE ConfigsAt(Absent, Absent)] :
        r \in {Absent, Unreadable, Sets(Absent), Sets(1)}, s \in {Absent, Sets(2)}}
V == INSTANCE Variants WITH
        conf <- r1, request <- r2, driver <- r3, task <- r4,
        Variants <- {"a", "b"}, Dirs <- {<<>>, <<"s">>}, Vars <- {"x"}, Values <- {1, 2},
        Requests <- SomeRequests, Starts <- SomeStarts, None <- Absent, Broken <- Unreadable, MaxRequests <- 2

\* What the modules take for granted of the values they are given here.
ASSUME ValuesAreAsAssumed == T!TargetsAssumption /\ V!VariantsAssumption /\ E!GraphAssumption
-----------------------------------------------------------------------------
Off == "off"
FromSixth == r6 = Off /\ r7 = Off /\ r8 = Off
FromThird == r3 = Off /\ r4 = Off /\ r5 = Off /\ FromSixth
\* While another part runs the ordering of jobs stands at one of its first states.
NoJobs == Init /\ graph = [data |-> Writes, order |-> {}]
PartsInit ==
    /\ part \in Parts
    /\ IF part = "jobs" THEN Init ELSE NoJobs
    /\ CacheInit
    /\ CASE part \in {"jobs", "cache"} -> r1 = Off /\ r2 = Off /\ FromThird
         [] part = "storage" -> G!Init /\ FromSixth
         [] part = "sorted" -> K!Init /\ FromSixth
         [] part = "interner" -> I!Init /\ r8 = Off
         [] part = "maps" -> M!Init /\ r5 = Off /\ FromSixth
         [] part = "edges" -> E!Init /\ r7 = Off /\ r8 = Off
         [] part = "nodes" -> F!Init /\ FromThird
         [] part = "targets" -> T!Init /\ r4 = Off /\ r5 = Off /\ FromSixth
         [] part = "variants" -> V!Init /\ r5 = Off /\ FromSixth

Within(p) == part = p /\ UNCHANGED <<part, vars, cache>>
InJobs     == part = "jobs" /\ UNCHANGED <<part, registers, cache>>
InStorage  == Within("storage") /\ UNCHANGED <<r6, r7, r8>>
InSorted   == Within("sorted") /\ UNCHANGED <<r6, r7, r8>>
InInterner == Within("interner") /\ UNCHANGED r8
InMaps     == Within("maps") /\ UNCHANGED <<r5, r6, r7, r8>>
InEdges    == Within("edges") /\ UNCHANGED <<r7, r8>>
InNodes    == Within("nodes") /\ UNCHANGED <<r3, r4, r5, r6, r7, r8>>
InTargets  == Within("targets") /\ UNCHANGED <<r4, r5, r6, r7, r8>>
InVariants == Within("variants") /\ UNCHANGED <<r5, r6, r7, r8>>
InCache    == part = "cache" /\ UNCHANGED <<part, vars, registers>>

PartsNext ==
    \/ InJobs /\ \E v \in Node : Root(v) \/ Descend(v) \/ FindCycle(v)
    \/ InJobs /\ Blacken
    \/ InJobs /\ Sorted
    \/ InJobs /\ \E filter \in SUBSET Command, o \in Orderings : Select(filter, o)
    \/ InJobs /\ BuildDependencyMap
    \/ InJobs /\ SweepOne
    \/ InJobs /\ Accept
    \/ InJobs /\ Retract
    \/ InStorage /\ G!Allocate
    \/ InStorage /\ G!PushBack
    \/ InStorage /\ G!PopBack
    \/ InStorage /\ G!Insert
    \/ InStorage /\ G!Erase
    \/ InStorage /\ G!Reserve
    \/ InStorage /\ G!Resize
    \/ InStorage /\ G!Clear
    \/ InStorage /\ G!Copy
    \/ InStorage /\ G!Move
    \/ InStorage /\ G!Destroy
    \/ InSorted /\ K!Clear
    \/ InSorted /\ K!Destroy
    \/ InSorted /\ K!SortedInsert
    \/ InSorted /\ K!SortedRemove
    \/ InSorted /\ K!SortedMove
    \/ InInterner /\ I!Intern
    \/ InInterner /\ I!InternPath
    \/ InInterner /\ I!SpellOut
    \/ InInterner /\ I!Ground
    \/ InInterner /\ I!Reserve
    \/ InInterner /\ I!ClearPaths
    \/ InInterner /\ I!Clear
    \/ InMaps /\ M!Set
    \/ InMaps /\ M!TakeOut
    \/ InMaps /\ M!Merge
    \/ InMaps /\ M!Clear
    \/ InMaps /\ M!Presize
    \/ InEdges /\ E!AddFileNode
    \/ InEdges /\ E!AddCommandNode
    \/ InEdges /\ E!AddEdge
    \/ InNodes /\ F!EnsureFile
    \/ InNodes /\ F!AddGroup
    \/ InNodes /\ F!AddVariable
    \/ InTargets /\ T!Resolve
    \/ InVariants /\ V!Ask
    \/ InVariants /\ V!Fork
    \/ InVariants /\ V!Begin
    \/ InVariants /\ V!Finish
    \/ InVariants /\ V!Turn
    \/ InVariants /\ V!Reap
    \/ InVariants /\ V!Killed
    \/ InVariants /\ \E k \in DOMAIN r4 : V!Handle(k)
    \/ InCache /\ Tick
    \/ InCache /\ Edit
    \/ InCache /\ Touch
    \/ InCache /\ Start
    \/ InCache /\ Stat
    \/ InCache /\ HashBeforeCommands
    \/ InCache /\ Judge
    \/ InCache /\ Run
    \/ InCache /\ HashFile
    \/ InCache /\ StatAndSave
    \/ InCache /\ CutShort
    \/ InCache /\ Carry

PartsSpec == PartsInit /\ [][PartsNext]_<<part, registers, vars, cache>>
-----------------------------------------------------------------------------
(***************************************************************************)
(* The properties of the instances, each stated in its module.             *)
(***************************************************************************)
\* Vectors that share one region behave as sequences that share nothing
\* (bump_alloc, Vec, SortedIdVec), and a path that led to a node leads to it for
\* good (ensure_file_node).
WhatIsStoredStands ==
    [][/\ part = "storage" => G!KeepsElements
       /\ part = "sorted" => K!KeepsElements
       /\ part = "nodes" => F!AnswersStand]_registers

\* Every table finds what was put into it, once, and nothing else: strings and
\* paths by their hash, values by id, edges by their ends, nodes by their paths.
\* The command line and the current directory lead to the build directories they
\* mean, and a command over several of them does in each what it would alone and
\* tells what became of it (for_each_variant, configure_single_variant).
EachPartIsRight ==
    /\ part = "interner" => I!PoolsAgree
    /\ part = "maps" => M!MapsAgree
    /\ part = "edges" => E!EdgesAreFound
    /\ part = "nodes" => F!NodesAgree
    /\ part = "targets" => T!PlaceDecides /\ T!PatternsMeanTheirMatches
    /\ part = "variants" => V!EachOnceAndTold /\ V!RootHasTheLastWord /\ V!ConfigureOpensTheGate
=============================================================================
