------------------------------- MODULE Globs -------------------------------
(***************************************************************************)
(* Patterns for names: the two matchers putup has, that of Tupfiles        *)
(* (src/src/parser/glob.cpp) and that of --exclude and of the directories  *)
(* it never enters (src/src/parser/ignore.cpp), against one definition of  *)
(* what a pattern means.  A text is a sequence of letters.                 *)
(***************************************************************************)
EXTENDS SequencesExt

CONSTANTS
    Letters,     \* every letter, in the order of their bytes
    Pieces,      \* what patterns are written from: [text, kind, letters]
    MaxPieces,
    Texts,       \* what patterns are held against
    Trees        \* [files, dirs]: what may be in a directory, as texts

VARIABLE pattern  \* a sequence of pieces

Slash == "/"
From(s, k) == SubSeq(s, k, Len(s))
NoSlash(t) == \A k \in DOMAIN t : t[k] # Slash
Before(x, y) == \E i, j \in DOMAIN Letters : Letters[i] = x /\ Letters[j] = y /\ i <= j
Between(x, low, high) == Before(low, x) /\ Before(x, high)
Wild(c) == c \in {"*", "?", "["}
HasGlobChars(p) == \E k \in DOMAIN p : Wild(p[k])

\* Both matchers: what a star or two leave of the text, and of the pattern.
DoubleStar(p) == Len(p) > 1 /\ p[1] = "*" /\ p[2] = "*"
AfterDoubleStar(p) == From(p, IF Len(p) > 2 /\ p[3] = Slash THEN 4 ELSE 3)
AfterStar(t) == {From(t, k) : k \in {j \in 1..(Len(t) + 1) : NoSlash(SubSeq(t, 1, j - 1))}}
-----------------------------------------------------------------------------
(* Glob. *)

\* match_bracket: the letters up to "]", or up to the end without one.
ClassEnd(p, start) ==
    LET closing == {k \in start..Len(p) : p[k] = "]"}
    IN  IF closing = {} THEN Len(p) + 1 ELSE CHOOSE k \in closing : \A l \in closing : k <= l
Negated(p) == Len(p) > 1 /\ p[2] \in {"!", "^"}
RECURSIVE InItems(_, _, _)
\* prev: the letter a range may start from, or none.
InItems(c, items, prev) ==
    /\ items # <<>>
    /\ IF items[1] = "-" /\ prev # <<>> /\ Len(items) > 1
       THEN Between(c, prev[1], items[2]) \/ InItems(c, From(items, 3), <<>>)
       ELSE items[1] = c \/ InItems(c, Tail(items), <<items[1]>>)
MatchBracket(p, c) ==
    LET start == IF Negated(p) THEN 3 ELSE 2
        end   == ClassEnd(p, start)
    IN  [holds |-> InItems(c, SubSeq(p, start, end - 1), <<>>) # Negated(p), rest |-> From(p, end + 1)]

\* What is left of a pattern when the text has come to its end.
RECURSIVE Trailing(_)
Trailing(p) ==
    IF p = <<>> \/ p[1] # "*" THEN p
    ELSE LET stars == IF DoubleStar(p) THEN From(p, 3) ELSE Tail(p)
         IN  Trailing(IF stars # <<>> /\ stars[1] = Slash THEN Tail(stars) ELSE stars)

\* Mutant: two stars stay within a name.
RECURSIVE MatchNarrow(_, _)
MatchNarrow(p, t) ==
    IF p = <<>> \/ t = <<>> THEN t = <<>> /\ Trailing(p) = <<>>
    ELSE IF p[1] = "*" THEN \E u \in AfterStar(t) : MatchNarrow(Tail(p), u)
    ELSE IF p[1] = "?" THEN t[1] # Slash /\ MatchNarrow(Tail(p), Tail(t))
    ELSE IF p[1] = "[" THEN MatchBracket(p, t[1]).holds /\ MatchNarrow(MatchBracket(p, t[1]).rest, Tail(t))
    ELSE p[1] = t[1] /\ MatchNarrow(Tail(p), Tail(t))
RECURSIVE MatchRecursive(_, _)
MatchRecursive(p, t) ==
    IF p = <<>> \/ t = <<>> THEN t = <<>> /\ Trailing(p) = <<>>
    ELSE IF DoubleStar(p)
    THEN AfterDoubleStar(p) = <<>> \/ \E u \in Suffixes(t) : MatchRecursive(AfterDoubleStar(p), u)
    ELSE IF p[1] = "*"
    THEN IF Len(p) = 1 THEN NoSlash(t) ELSE \E u \in AfterStar(t) : MatchRecursive(Tail(p), u)
    ELSE IF p[1] = "?" THEN t[1] # Slash /\ MatchRecursive(Tail(p), Tail(t))
    ELSE IF p[1] = "["
    THEN MatchBracket(p, t[1]).holds /\ MatchRecursive(MatchBracket(p, t[1]).rest, Tail(t))
    ELSE p[1] = t[1] /\ MatchRecursive(Tail(p), Tail(t))
Matches(p, name) == IF HasGlobChars(p) THEN MatchRecursive(p, name) ELSE p = name

\* glob_split_path: the directories before the first wildcard, and the rest.
LastOf(s, in) == IF in = {} THEN 0 ELSE CHOOSE k \in in : \A l \in in : l <= k
SplitPath(p) ==
    LET plain == {k \in DOMAIN p : \A l \in 1..k : ~Wild(p[l])}
        slash == LastOf(p, {k \in plain : p[k] = Slash})
    IN  [dir |-> SubSeq(p, 1, slash - 1), rest |-> From(p, slash + 1)]
\* glob_expand: files only, none hidden, below the directory when there are two
\* stars, in it otherwise.
Under(dir, path) == dir = <<>> \/ IsPrefix(Append(dir, Slash), path)
Rel(dir, path) == IF dir = <<>> THEN path ELSE From(path, Len(dir) + 2)
Hidden(rel) == \E k \in DOMAIN rel : rel[k] = "." /\ (k = 1 \/ rel[k - 1] = Slash)
IsRecursive(p) == \E k \in 2..Len(p) : p[k] = "*" /\ p[k - 1] = "*"
GlobExpand(tree, p) ==
    IF ~HasGlobChars(p) THEN {p} \cap (tree.files \cup tree.dirs)
    ELSE LET split == SplitPath(p)
             reached == {f \in tree.files : Under(split.dir, f) /\ ~Hidden(Rel(split.dir, f))
                             /\ (IsRecursive(split.rest) \/ NoSlash(Rel(split.dir, f)))}
         IN  {f \in reached : Matches(split.rest, Rel(split.dir, f))}

\* glob_match_extract: what %g stands for.
Base(p) ==
    LET slash == LastOf(p, {k \in DOMAIN p : p[k] = Slash})
    IN  IF slash = Len(p) THEN p ELSE From(p, slash + 1)
Common(p, n) == LastOf(p, {k \in DOMAIN p : k <= Len(n) /\ IsPrefix(SubSeq(p, 1, k), n)})
Occurrences(s, n) == {k \in 1..(Len(n) + 1 - Len(s)) : SubSeq(n, k, k + Len(s) - 1) = s}
GlobMatchExtract(pat, name) ==
    LET p == Base(pat)
        n == Base(name)
        m == Common(p, n)
        rest == From(p, m + 1)
        gap == {k \in DOMAIN rest : rest[k] # "*"}
        next == CHOOSE k \in gap : \A l \in gap : k <= l
        open == {k \in next..Len(rest) : Wild(rest[k])} \cup {Len(rest) + 1}
        literal == SubSeq(rest, next, (CHOOSE k \in open : \A l \in open : k <= l) - 1)
        at == LastOf(n, Occurrences(literal, n))
    IN  IF rest = <<>> THEN <<>>
        ELSE IF rest[1] \in {"?", "["} THEN SubSeq(n, m + 1, IF m < Len(n) THEN m + 1 ELSE m)
        ELSE IF gap = {} THEN From(n, m + 1)
        ELSE IF \E k \in (next + 1)..Len(rest) : rest[k] \in {"?", "["} THEN <<>>
        ELSE IF literal = <<>> THEN From(n, m + 1)
        ELSE IF at <= m THEN <<>> ELSE SubSeq(n, m + 1, at - 1)
-----------------------------------------------------------------------------
(* IgnoreList. *)

RECURSIVE InClass(_, _)
InClass(c, items) ==
    /\ items # <<>>
    /\ IF Len(items) > 2 /\ items[2] = "-"
       THEN Between(c, items[1], items[3]) \/ InClass(c, From(items, 4))
       ELSE items[1] = c \/ InClass(c, Tail(items))
\* Two stars stand for whole names.
AfterNames(t) == {t} \cup {From(t, k + 1) : k \in {j \in DOMAIN t : t[j] = Slash}}
RECURSIVE IgnoreMatch(_, _)
IgnoreMatch(p, t) ==
    IF p = <<>> \/ t = <<>> THEN t = <<>> /\ \A k \in DOMAIN p : p[k] = "*"
    ELSE IF DoubleStar(p)
    THEN AfterDoubleStar(p) = <<>> \/ \E u \in AfterNames(t) : IgnoreMatch(AfterDoubleStar(p), u)
    ELSE IF p[1] = "*"
    THEN IF Len(p) = 1 THEN NoSlash(t) ELSE \E u \in AfterStar(t) : IgnoreMatch(Tail(p), u)
    ELSE IF p[1] = "?" THEN t[1] # Slash /\ IgnoreMatch(Tail(p), Tail(t))
    ELSE IF p[1] = "[" /\ ClassEnd(p, 2) <= Len(p)
    THEN LET items == SubSeq(p, IF Negated(p) THEN 3 ELSE 2, ClassEnd(p, 2) - 1)
         IN  InClass(t[1], items) # Negated(p) /\ IgnoreMatch(From(p, ClassEnd(p, 2) + 1), Tail(t))
    ELSE p[1] = t[1] /\ IgnoreMatch(Tail(p), Tail(t))

\* parse_pattern: the slash at the end says nothing, and "!" is no pattern.
ParsePattern(line) ==
    IF line = <<>> \/ line[1] = "!" THEN <<>>
    ELSE IF line[Len(line)] = Slash THEN SubSeq(line, 1, Len(line) - 1) ELSE line
MatchPattern(p, path) ==
    IF ~NoSlash(p) THEN IgnoreMatch(p, path)
    ELSE \/ IgnoreMatch(p, From(path, LastOf(path, {k \in DOMAIN path : path[k] = Slash}) + 1))
         \/ DoubleStar(p) /\ IgnoreMatch(p, path)
IsIgnored(line, path) == ParsePattern(line) # <<>> /\ MatchPattern(ParsePattern(line), path)
Above(path) == {SubSeq(path, 1, k - 1) : k \in {j \in DOMAIN path : path[j] = Slash}}
IsIgnoredDir(line, path) == \E dir \in Above(path) \cup {path} : IsIgnored(line, dir)
-----------------------------------------------------------------------------
Init == pattern = <<>>
\* Stars that touch would be read as others than were written, and those that
\* stand for names begin one.
Fits(piece, before) ==
    /\ before.kind \in {"star", "any"} => piece.kind = "class"
    /\ before.kind = "any" => piece.text # <<Slash>>
    /\ piece.kind = "names" => before.text = <<Slash>>
Write(piece) ==
    /\ Len(pattern) < MaxPieces
    /\ pattern # <<>> => Fits(piece, Last(pattern))
    /\ pattern' = Append(pattern, piece)
Next == \E piece \in Pieces : Write(piece)
Spec == Init /\ [][Next]_pattern
-----------------------------------------------------------------------------
(* What a pattern means: where each of its pieces may end when it begins at i. *)

Ends(piece, text, i, whole) ==
    LET ahead == i..Len(text)
        one == IF i < Len(text) THEN {i + 1} ELSE {}
        NamesTo(j) == ~whole \/ j = i \/ text[j] = Slash
    IN  CASE piece.kind = "star"  -> {j \in ahead : NoSlash(SubSeq(text, i + 1, j))}
          [] piece.kind \in {"any", "names"} -> {j \in ahead : NamesTo(j)}
          [] piece.kind = "class" -> {j \in one : text[j] \in piece.letters}
\* whole: two stars take whole names; at the end they take everything.
Means(pieces, text, whole) ==
    LET Step(places, k) ==
            UNION {Ends(pieces[k], text, i, whole /\ k < Len(pieces)) : i \in places}
    IN  Len(text) \in FoldLeft(Step, {0}, [k \in DOMAIN pieces |-> k])

Line == FlattenSeq([k \in DOMAIN pattern |-> pattern[k].text])
Kinds == {pattern[k].kind : k \in DOMAIN pattern}
\* Where only stars follow, a star takes the slash after it along.
StarsEatSlash ==
    \E k \in 1..(Len(pattern) - 1) :
        pattern[k].kind = "star" /\ pattern[k + 1].text = <<Slash>> /\ Last(pattern).kind # "class"
EndsInName == Line # <<>> /\ Last(Line) # Slash /\ ~StarsEatSlash
Names(path) == Above(path) \cup {path}
Name(path) == From(path, LastOf(path, {k \in DOMAIN path : path[k] = Slash}) + 1)
IsPath(t) == t # <<>> /\ \A k \in DOMAIN t : t[k] = Slash => k \notin {1, Len(t)} /\ t[k - 1] # Slash

(***************************************************************************)
(* Both matchers accept what the pattern means; in --exclude a pattern     *)
(* without a slash is about the name of a directory, one with a slash      *)
(* about its path, and what lies below an excluded directory is excluded   *)
(* (Glob::matches, IgnoreList::is_ignored_dir).                            *)
(***************************************************************************)
PatternsMeanOne ==
    EndsInName =>
        \A text \in Texts :
            /\ Matches(Line, text) = Means(pattern, text, FALSE)
            /\ IsPath(text) =>
                  IsIgnoredDir(Line, text) =
                      \E dir \in Names(text) :
                          Means(pattern, IF NoSlash(Line) /\ ~DoubleStar(Line) THEN Name(dir) ELSE dir, TRUE)

(***************************************************************************)
(* A glob takes the same files whether they are found on the disk or only  *)
(* in the graph, where rules made them: the one splits the pattern and     *)
(* lists directories, the other holds the pattern against whole paths      *)
(* (glob_expand, expand_glob_pattern of builder.cpp).                      *)
(***************************************************************************)
OnlyNamesAreWild == IsRecursive(Line) \/ NoSlash(SplitPath(Line).rest)
SeesSlash(piece) == Slash \in piece.letters /\ piece.text # <<Slash>>
SameOnDiskAndInGraph ==
    /\ EndsInName /\ HasGlobChars(Line) /\ OnlyNamesAreWild
    /\ Line[1] # Slash /\ ~\E k \in DOMAIN pattern : SeesSlash(pattern[k])
    =>
        \A tree \in Trees :
            GlobExpand(tree, Line) =
                {f \in tree.files : Matches(Line, f) /\ ~Hidden(Rel(SplitPath(Line).dir, f))}

(***************************************************************************)
(* What %g stands for is the text the one star of a pattern took: put in   *)
(* its place it gives the name (glob_match_extract).                       *)
(***************************************************************************)
ExtractIsWhatTheStarTook ==
    (EndsInName /\ Cardinality({k \in DOMAIN Base(Line) : Wild(Base(Line)[k])}) = 1) =>
        \A text \in {t \in Texts : Matches(Base(Line), t) /\ NoSlash(t)} :
            LET at == CHOOSE k \in DOMAIN Base(Line) : Wild(Base(Line)[k])
            IN  Base(Line)[at] \in {"*", "?"} =>
                    SubSeq(Base(Line), 1, at - 1) \o GlobMatchExtract(Line, text) \o From(Base(Line), at + 1) = text
=============================================================================
