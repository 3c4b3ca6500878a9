------------------------------ MODULE MCParts ------------------------------
(***************************************************************************)
(* The smaller components for TLC, one per behaviour: part names the one   *)
(* that runs; Outputs and IndexReader have variables of their own, and r1  *)
(* to r6 are those of the others.                                          *)
(***************************************************************************)
EXTENDS SampleTupfiles, Outputs, IndexReader

CONSTANTS
    Parts,
    TupProjects
VARIABLES part, r1, r2, r3, r4, r5, r6

image == <<target, damage, loaded>>
registers == <<r1, r2, r3, r4, r5, r6>>
-----------------------------------------------------------------------------
\* Outputs: a rule of directory a makes out, and two in b; one of b makes out
\* instead, in a, from the same source; another of b makes obj of both.  Either
\* Tupfiles may be refused, or all rules are there.
OutRules ==
    {[dir |-> "a", ins |-> {"src"}, outs |-> {"out", "two"}],
     [dir |-> "b", ins |-> {"src"}, outs |-> {"out"}],
     [dir |-> "b", ins |-> {"out", "two"}, outs |-> {"obj"}]}
OutPaths == {"src", "out", "two", "obj"}
OutDirs == {"a", "b"}
OutDirOf == [p \in OutPaths |-> IF p \in {"two", "obj"} THEN "b" ELSE "a"]
OutScopes == {OutDirs, {"b"}}
OutWritable == {"src", "two"}
Refusing == part = "refusals"
OutFewer ==
    /\ ~Refusing => disk'["two"] # "user" /\ \A d \in Dirs : tupfile'[d] # "bad"
    /\ Refusing =>
        tupfile'["b"] = "good" /\ \A r \in Rules : r.outs = {"out"} => branch'[r] = "absent"
-----------------------------------------------------------------------------
\* IndexFile: one command and its files; two, one without outputs; a name too
\* long; a path recorded twice; nothing.
IdList(ids) == [ids |-> ids, starts |-> [i \in 1..(Len(ids) + 1) |-> i - 1]]
FileOf(p, n, t) == [parent |-> p, name |-> n, type |-> t, flags |-> 1, hash |-> 4]
CommandOf(env) ==
    [dir |-> 1, text |-> <<1, 2, 3>>, display |-> <<2>>, env |-> env, flags |-> 1,
     ins |-> [ids |-> <<2>>, starts |-> <<0, 1, 1>>], outs |-> IdList(<<3>>), order |-> IdList(<<>>)]
Small == [files |-> <<FileOf(0, <<>>, 3), FileOf(1, <<1>>, 0), FileOf(1, <<2>>, 1)>>,
          commands |-> <<CommandOf(<<>>)>>,
          edges |-> <<[from |-> 3, to |-> 2, type |-> 0], [from |-> 1, to |-> 3, type |-> 1]>>]
Two == [Small EXCEPT !.commands = <<CommandOf(<<1>>),
                        [CommandOf(<<>>) EXCEPT !.outs = IdList(<<>>), !.text = <<2>>]>>]
Long == [Small EXCEPT !.files[2].name = <<1, 2, 3>>]
Twice == [Small EXCEPT !.files[3].name = <<1>>, !.commands = <<>>, !.edges = <<>>]
Nothing == [files |-> <<>>, commands |-> <<>>, edges |-> <<>>]
Saves == {Small, Two, Long, Twice, Nothing}
Damaged == {0, 2, 40}
X == INSTANCE IndexFile WITH
        pending <- r1, stage <- r2, temp <- r3, synced <- r4, undone <- r5
-----------------------------------------------------------------------------
\* Variables: the projects of SampleTupfiles.
L == INSTANCE Variables WITH
        program <- r1, environment <- r2, config <- r3, record <- r4, outputs <- r5, built <- r6,
        Programs <- TupProjects, Included <- IncludedFiles, Environments <- Environs,
        Settings <- Configs, Platform <- Builtins
-----------------------------------------------------------------------------
\* Globs: patterns of three pieces over four letters.
Bytes ==
    <<"lf", "!", "$", "(", ")", "*", "+", "-", ".", "/", "0", "?", "[", "\\", "]", "^", "a", "b", "d", "{", "|">>
Piece(text, kind, letters) == [text |-> text, kind |-> kind, letters |-> letters]
Written == {"-", ".", "a", "b"}
SomePieces ==
    {Piece(<<c>>, "class", {c}) : c \in {"a", "/"}}
        \cup {Piece(<<"?">>, "class", Written), Piece(<<"*">>, "star", {}), Piece(<<"*", "*">>, "any", {}),
              Piece(<<"*", "*", "/">>, "names", {}), Piece(<<"[", "a", "-", "b", "]">>, "class", {"a", "b"}),
              Piece(<<"[", "!", "a", "]">>, "class", (Written \cup {"/"}) \ {"a"}),
              Piece(<<"[", "a", "-", "]">>, "class", {"a", "-"})}
Words(letters, n) == UNION {[1..k -> letters] : k \in 0..n}
SomeTrees ==
    {[files |-> {<<"a">>, <<".", "a">>} \cup {<<"b", "/">> \o f : f \in {<<"a">>, <<"b", "/", "a">>, <<"a", "/", "a">>, <<".", "a">>}},
      dirs |-> {<<"b">>, <<"b", "/", "a">>}]}
Gl == INSTANCE Globs WITH
        pattern <- r1, Letters <- Bytes, Pieces <- SomePieces, MaxPieces <- 3,
        Texts <- Words({"/", "a", "b"}, 3) \cup {<<"-">>, <<"a", "-">>}, Trees <- SomeTrees
-----------------------------------------------------------------------------
\* Regexes: expressions put together in two steps, and texts of three letters.
OneOf(text, letters) == [text |-> text, letters |-> letters]
SomeSets ==
    {OneOf(<<"a">>, {"a"}), OneOf(<<".">>, {"a", "b"}), OneOf(<<"[", "^", "a", "]">>, {"b", "lf"}),
     OneOf(<<"[", "]", "a", "-", "b", "]">>, {"a", "b"}), OneOf(<<"\\", "d">>, {"0"})}
Re == INSTANCE Regexes WITH
        regex <- r1, Letters <- Bytes, NewLine <- "lf", Alphanumeric <- {"0", "a", "b", "d"},
        Shorthand <- [d |-> {"0"}], Leaves <- SomeSets, Anchors <- {"^", "$"},
        Subjects <- Words({"a", "b", "lf"}, 2) \cup Words({"a", "b"}, 3),
        Typed <- {"(", ")", "*", "-", "[", "\\", "]", "^", "a", "|"}, MaxText <- 3, MaxSteps <- 2
-----------------------------------------------------------------------------
\* PathNames: a text of three parts and one of two.
Pa == INSTANCE PathNames WITH
        one <- r1, two <- r2, Components <- {"", ".", "..", "a", "b"}, MaxParts <- 3, MaxOther <- 2,
        Roots <- {<<"", "">>, <<"", "a">>, <<"", "b", "a">>, <<"", "a", "..", "b">>}
\* Depfiles: four rules and names, with the letters a compiler has to quote.
De == INSTANCE Depfiles WITH
        ending <- r1, items <- r2, Targets <- {<<"a">>, <<"b", "sp", "a">>},
        Endings <- {<<"lf">>, <<"cr", "lf">>}, MaxItems <- 4,
        Names <- {<<"a", "sp", "b">>, <<"#", ":">>, <<"\\", "\\", "sp", "\\", "#">>}
-----------------------------------------------------------------------------
Off == "off"
FromThird == r3 = Off /\ r4 = Off /\ r5 = Off /\ r6 = Off
PartsInit ==
    /\ part \in Parts
    /\ Init
    /\ target = NoImage /\ damage = Unhurt /\ loaded = X!NotRead
    /\ CASE part \in {"outputs", "refusals"} -> r1 = Off /\ r2 = Off /\ FromThird
         [] part = "index" -> X!Init /\ r6 = Off
         [] part = "variables" -> L!Init
         [] part = "globs" -> Gl!Init /\ r2 = Off /\ FromThird
         [] part = "regexes" -> Re!Init /\ r2 = Off /\ FromThird
         [] part = "paths" -> Pa!Init /\ FromThird
         [] part = "depfiles" -> De!Init /\ FromThird

In(p) == part = p /\ UNCHANGED <<part, vars>>
InOutputs == part \in {"outputs", "refusals"} /\ UNCHANGED <<part, registers, image>>
InIndex == In("index") /\ UNCHANGED r6
InVariables == In("variables") /\ UNCHANGED image
InText(p) == In(p) /\ UNCHANGED <<r3, r4, r5, r6, image>>
InOneText(p) == InText(p) /\ UNCHANGED r2

PartsNext ==
    \/ InOutputs /\ EditRule /\ OutFewer
    \/ InOutputs /\ EditTupfile /\ OutFewer
    \/ InOutputs /\ WriteFile /\ OutFewer
    \/ InOutputs /\ DeleteFile
    \/ InOutputs /\ LoseRecord
    \/ InOutputs /\ Start
    \/ InOutputs /\ RemoveStale
    \/ InOutputs /\ Select
    \/ InOutputs /\ RunCommand
    \/ InOutputs /\ Save
    \/ InOutputs /\ Crash
    \/ InOutputs /\ Clean
    \/ InOutputs /\ Distclean
    \/ InIndex /\ X!SaveRefused
    \/ InIndex /\ X!CreateTemp
    \/ InIndex /\ X!Write
    \/ InIndex /\ X!Fsync
    \/ InIndex /\ X!Unlink
    \/ InIndex /\ X!Rename
    \/ InIndex /\ X!Settle
    \/ InIndex /\ X!Crash
    \/ InIndex /\ X!Hit
    \/ InIndex /\ X!Foreign
    \/ InIndex /\ X!Load
    \/ InVariables /\ L!ChangeEnvironment
    \/ InVariables /\ L!Configure
    \/ InVariables /\ L!Build
    \/ InOneText("globs") /\ Gl!Next
    \/ InOneText("regexes") /\ Re!Parenthesise
    \/ InOneText("regexes") /\ Re!Enclose
    \/ InOneText("regexes") /\ \E q \in {"*", "+", "?"} : Re!Multiply(q)
    \/ InOneText("regexes") /\ \E b \in Re!Basics : Re!Precede(b) \/ Re!Succeed(b) \/ Re!Either(b)
    \/ InOneText("regexes") /\ Re!TypeOne
    \/ InText("paths") /\ Pa!Lengthen
    \/ InText("depfiles") /\ De!WriteRule
    \/ InText("depfiles") /\ De!WriteDependency

PartsSpec == PartsInit /\ [][PartsNext]_<<part, registers, image, vars>>
-----------------------------------------------------------------------------
(***************************************************************************)
(* The properties of the instances, each stated in its module; those of    *)
(* Outputs and IndexReader the configuration names itself.                 *)
(***************************************************************************)
\* A branch that is not taken leaves nothing behind (process_conditional).
BranchesLeaveNothing == part = "variables" => L!BranchesLeaveNothing

\* Every output was made by its command's present text in the environment the
\* command now gets, nothing runs twice for the same, and an imported variable
\* outlives its absence (compute_command_signature, process_import).
OutputsFollowVariables == [][part = "variables" => L!FollowsVariables]_registers

\* Texts say what they mean: a pattern or an expression matches what it stands for,
\* on the disk, in the graph and in the list of what is excluded; paths lead where
\* they led before they were rewritten; and a compiler's names survive its quoting
\* (Glob, IgnoreList, Regex, path::normalize and its like, parse_depfile).
TextsAreReadRight ==
    /\ part = "globs" => Gl!PatternsMeanOne /\ Gl!SameOnDiskAndInGraph /\ Gl!ExtractIsWhatTheStarTook
    /\ part = "regexes" => Re!FoundWhereItStands /\ Re!StaysInProgram
    /\ part = "paths" => Pa!NormalIsOneName /\ Pa!RelativeLeadsThere /\ Pa!UnderIsBelow /\ Pa!SeenFromElsewhere
    /\ part = "depfiles" => De!NamesSurviveQuoting
=============================================================================
