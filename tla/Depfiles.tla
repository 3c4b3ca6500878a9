------------------------------ MODULE Depfiles ------------------------------
(***************************************************************************)
(* Reading what a compiler wrote about the files it read                   *)
(* (src/src/parser/depfile.cpp).  The compiler writes rules, quotes the    *)
(* letters that make would misread and breaks its lines.                   *)
(***************************************************************************)
EXTENDS SequencesExt

CONSTANTS
    Targets,   \* names of rules, as sequences of letters
    Names,     \* names of files that were read
    Endings,   \* how a line may end: <<"lf">> or <<"cr", "lf">>
    MaxItems

VARIABLES ending, items  \* items: rules and the names below them, in order

Space == "sp"
Tab == "tab"
LineFeed == "lf"
Return == "cr"
Slosh == "\\"
Blank(c) == c \in {Space, Tab}
EndsLine(c) == c \in {LineFeed, Return}
From(s, k) == SubSeq(s, k, Len(s))
Starts(s, prefix) == IsPrefix(prefix, s)
-----------------------------------------------------------------------------
\* The parser.  Where a line is continued, and how much that takes.
Continuation(s) ==
    IF Starts(s, <<Slosh, LineFeed>>) THEN 2
    ELSE IF Starts(s, <<Slosh, Return, LineFeed>>) THEN 3 ELSE 0
RECURSIVE SkipWhitespace(_)
SkipWhitespace(s) == IF s # <<>> /\ Blank(s[1]) THEN SkipWhitespace(Tail(s)) ELSE s
RECURSIVE SkipContinuations(_)
SkipContinuations(s) ==
    LET t == SkipWhitespace(s)
    IN  IF Continuation(t) > 0 THEN SkipContinuations(From(t, Continuation(t) + 1)) ELSE t

Quoted == {Space, Slosh, "#"}
\* Mutant: a name ends at any space.
RECURSIVE ParsePathPlain(_, _, _)
ParsePathPlain(s, stopAtColon, name) ==
    IF s = <<>> \/ Blank(s[1]) \/ EndsLine(s[1]) \/ (stopAtColon /\ s[1] = ":")
    THEN [name |-> name, rest |-> s]
    ELSE ParsePathPlain(Tail(s), stopAtColon, Append(name, s[1]))
RECURSIVE ParsePath(_, _, _)
ParsePath(s, stopAtColon, name) ==
    IF s = <<>> \/ Blank(s[1]) \/ EndsLine(s[1]) \/ (stopAtColon /\ s[1] = ":")
    THEN [name |-> name, rest |-> s]
    ELSE IF Continuation(s) > 0
    THEN ParsePath(SkipWhitespace(From(s, Continuation(s) + 1)), stopAtColon, name)
    ELSE IF s[1] = Slosh /\ Len(s) > 1 /\ s[2] \in Quoted
    THEN ParsePath(From(s, 3), stopAtColon, Append(name, s[2]))
    ELSE ParsePath(Tail(s), stopAtColon, Append(name, s[1]))

RECURSIVE ParseDependencies(_, _)
ParseDependencies(s, names) ==
    LET t == SkipContinuations(s)
        path == ParsePath(t, FALSE, <<>>)
    IN  IF t = <<>> \/ EndsLine(t[1]) THEN [names |-> names, rest |-> t]
        ELSE ParseDependencies(path.rest, IF path.name = <<>> THEN names ELSE Append(names, path.name))
RECURSIVE SkipBlankLines(_)
SkipBlankLines(s) == IF s # <<>> /\ (Blank(s[1]) \/ EndsLine(s[1])) THEN SkipBlankLines(Tail(s)) ELSE s
RECURSIVE ParseRules(_, _)
ParseRules(s, depfile) ==
    LET target == ParsePath(s, TRUE, <<>>)
        colon  == SkipWhitespace(target.rest)
        deps   == ParseDependencies(IF Starts(colon, <<":">>) THEN Tail(colon) ELSE colon, depfile.dependencies)
    IN  IF s = <<>> \/ target.name = <<>> THEN depfile
        ELSE ParseRules(SkipBlankLines(deps.rest),
                 [target |-> IF depfile.target = <<>> THEN target.name ELSE depfile.target,
                  dependencies |-> deps.names])
\* An empty target stands for the error of a text without rules.
ParseDepfile(content) == ParseRules(SkipWhitespace(content), [target |-> <<>>, dependencies |-> <<>>])
-----------------------------------------------------------------------------
\* The compiler.  Sloshes before a space are doubled, and space and "#" quoted.
Munge(name) ==
    LET SloshesAhead(k) == \E l \in k..Len(name) : name[l] = Space /\ \A j \in k..(l - 1) : name[j] = Slosh
        Written(k) ==
            IF name[k] \in {Space, "#"} THEN <<Slosh, name[k]>>
            ELSE IF name[k] = Slosh /\ SloshesAhead(k) THEN <<Slosh, Slosh>> ELSE <<name[k]>>
    IN  FlattenSeq([k \in DOMAIN name |-> Written(k)])
Rule(target) == [kind |-> "rule", name |-> target, breaks |-> FALSE]
Dependency(name, breaks) == [kind |-> "dependency", name |-> name, breaks |-> breaks]
Written(item, first) ==
    IF item.kind = "rule" THEN (IF first THEN <<>> ELSE ending) \o Munge(item.name) \o <<":">>
    ELSE (IF item.breaks THEN <<Space, Slosh>> \o ending \o <<Space>> ELSE <<Space>>) \o Munge(item.name)
Content == FlattenSeq([k \in DOMAIN items |-> Written(items[k], k = 1)]) \o ending

Init == ending \in Endings /\ items \in {<<Rule(t)>> : t \in Targets}
Write(item) == Len(items) < MaxItems /\ items' = Append(items, item) /\ UNCHANGED ending
WriteRule == \E t \in Targets : Write(Rule(t))
WriteDependency == \E n \in Names, breaks \in BOOLEAN : Write(Dependency(n, breaks))
Spec == Init /\ [][WriteRule \/ WriteDependency]_<<ending, items>>
-----------------------------------------------------------------------------
Read == SelectSeq(items, LAMBDA item : item.kind = "dependency")

(***************************************************************************)
(* The first rule's name and every name written below any rule are read    *)
(* back as they were; of a file that breaks off, all names but the last    *)
(* (parse_depfile).                                                        *)
(***************************************************************************)
NamesSurviveQuoting ==
    LET names == [k \in DOMAIN Read |-> Read[k].name]
        cut   == {ParseDepfile(SubSeq(Content, 1, k)).dependencies : k \in DOMAIN Content}
    IN  /\ ParseDepfile(Content) = [target |-> items[1].name, dependencies |-> names]
        /\ \A some \in cut \ {<<>>} : IsPrefix(Front(some), names)
=============================================================================
