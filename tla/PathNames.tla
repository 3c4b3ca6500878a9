------------------------------ MODULE PathNames ------------------------------
(***************************************************************************)
(* Paths as texts (src/src/core/path.cpp, src/src/core/path_utils.cpp, as  *)
(* built for POSIX), against a walk through directories.  A text is the    *)
(* sequence of what stands between its slashes: "" is <<"">>, "/a" is      *)
(* <<"", "a">> and "/" is <<"", "">>.                                      *)
(***************************************************************************)
EXTENDS SequencesExt

CONSTANTS
    Components,  \* what may stand between slashes: "", ".", ".." and names
    Roots,       \* absolute texts: the roots of a source tree and of a target
    MaxParts, MaxOther

VARIABLES one, two  \* two texts

None == <<>>
EmptyText == <<"">>
Dot == <<".">>
Up == ".."
Root == <<"", "">>
IsAbsolute(p) == Len(p) > 1 /\ p[1] = ""
IsRoot(p) == p = Root

Join(a, b) ==
    IF b = EmptyText THEN a
    ELSE IF a = EmptyText \/ IsAbsolute(b) THEN b
    ELSE IF Last(a) = "" THEN Front(a) \o b ELSE a \o b

\* A text without the slashes at its end.
Trimmed(p) ==
    LET named == {k \in DOMAIN p : p[k] # ""}
    IN  IF named = {} THEN EmptyText ELSE SubSeq(p, 1, CHOOSE k \in named : \A l \in named : l <= k)
Parent(p) ==
    LET t == Trimmed(p)
    IN  IF IsAbsolute(p) /\ (t = EmptyText \/ Len(t) = 2) THEN Root
        ELSE IF Len(t) = 1 THEN EmptyText ELSE Front(t)
Filename(p) == <<Last(p)>>

Body(p) == IF IsAbsolute(p) THEN Tail(p) ELSE p
IsNormal(p) ==
    \/ p = Dot
    \/ Body(p) = EmptyText
    \/ \A k \in DOMAIN Body(p) :
           /\ Body(p)[k] \notin {"", "."}
           /\ Body(p)[k] = Up => ~IsAbsolute(p) /\ \A l \in 1..k : Body(p)[l] = Up

Text(absolute, parts) ==
    IF parts = <<>> THEN (IF absolute THEN Root ELSE Dot)
    ELSE IF absolute THEN <<"">> \o parts ELSE parts
Normalize(p) ==
    LET Add(parts, part) ==
            IF part \in {"", "."} THEN parts
            ELSE IF part = Up /\ parts # <<>> /\ Last(parts) # Up THEN Front(parts)
            ELSE IF part = Up /\ IsAbsolute(p) THEN parts
            ELSE Append(parts, part)
    IN  Text(IsAbsolute(p), FoldLeft(Add, <<>>, p))

PartsOf(p) == SelectSeq(p, LAMBDA part : part \notin {"", "."})
CommonParts(a, b) == Cardinality({k \in DOMAIN a : k <= Len(b) /\ SubSeq(a, 1, k) = SubSeq(b, 1, k)})
Relative(target, base) ==
    LET t == PartsOf(target)
        b == PartsOf(base)
        common == CommonParts(t, b)
    IN  Text(FALSE, [k \in 1..(Len(b) - common) |-> Up] \o SubSeq(t, common + 1, Len(t)))
-----------------------------------------------------------------------------
\* One text begins another, and a slash or nothing follows.
Begins(root, p) == IF root = EmptyText THEN IsAbsolute(p) \/ p = EmptyText ELSE IsPrefix(root, p)
IsPathUnder(p, root) == Begins(Trimmed(root), p)
RelativeToRoot(p, root) ==
    LET t == Trimmed(root)
    IN  IF ~IsPathUnder(p, root) \/ p = t THEN EmptyText ELSE SubSeq(p, Len(t) + 1, Len(p))
IsPathInScope(p, scope) == Trimmed(scope) = EmptyText \/ Begins(Trimmed(scope), p)
IsPathInAnyScope(p, scopes) == scopes = {} \/ \E scope \in scopes : IsPathInScope(p, scope)

ComputeSourceToRoot(dir) == [k \in 1..Len(PartsOf(dir)) |-> Up] \o EmptyText
\* Text after text, when the first is empty or ends with a slash.
Then(a, b) == Front(a) \o b
\* Mutant: what lies outside the directory is named from the root.
MakeSourceRelativeInside(p, toRoot, dir) ==
    IF toRoot # EmptyText /\ IsPrefix(dir, p) /\ Len(p) > Len(dir) THEN SubSeq(p, Len(dir) + 1, Len(p)) ELSE p
MakeSourceRelative(p, toRoot, dir) ==
    IF p = EmptyText \/ IsAbsolute(p) \/ toRoot = EmptyText THEN p
    ELSE IF p[1] = Up THEN (IF dir = EmptyText THEN p ELSE Then(toRoot, p))
    ELSE IF IsPrefix(dir, p) /\ Len(p) > Len(dir) THEN SubSeq(p, Len(dir) + 1, Len(p))
    ELSE IF p = dir THEN Dot ELSE Then(toRoot, p)
StripPathPrefix(p, prefix) ==
    IF prefix # EmptyText /\ IsPrefix(prefix, p) /\ Len(p) > Len(prefix)
    THEN SubSeq(p, Len(prefix) + 1, Len(p)) ELSE p
ResolveUnderRoot(p, sourceRoot, targetRoot) ==
    LET rel == Relative(Normalize(Join(sourceRoot, p)), Normalize(targetRoot))
    IN  IF p[1] # Up \/ rel[1] = Up THEN None ELSE rel
-----------------------------------------------------------------------------
Init == one = EmptyText /\ two = EmptyText
Lengthened(p, next) ==
    \E c \in Components : next = Append(p, c) \/ (p = EmptyText /\ next = <<c>>)
Lengthen ==
    \/ Len(one) < MaxParts /\ Lengthened(one, one') /\ UNCHANGED two
    \/ Len(two) < MaxOther /\ Lengthened(two, two') /\ UNCHANGED one
Spec == Init /\ [][Lengthen]_<<one, two>>
-----------------------------------------------------------------------------
(* Where a text leads, from a directory deep enough to climb from. *)

Walk(from, p) ==
    LET Enter(at, part) ==
            IF part \in {"", "."} THEN at
            ELSE IF part = Up THEN (IF at = <<>> THEN at ELSE Front(at))
            ELSE Append(at, part)
    IN  FoldLeft(Enter, IF IsAbsolute(p) THEN <<>> ELSE from, p)
Here == [k \in 1..(2 * MaxParts) |-> "here"]
At(p) == Walk(Here, p)
Named(p) == \A k \in DOMAIN p : p[k] # Up

(***************************************************************************)
(* Normalizing keeps where a text leads, gives normal texts and leaves     *)
(* those alone, and two normal texts that lead to one place are one text;  *)
(* joining goes on from where the first text leads; and the parent and the *)
(* name of a normal text lead back to it (path::normalize, is_normal,      *)
(* join, parent, filename).                                                *)
(***************************************************************************)
NormalIsOneName ==
    /\ At(Normalize(one)) = At(one)
    /\ IsNormal(Normalize(one))
    /\ IsNormal(one) /\ one # EmptyText => Normalize(one) = one
    /\ At(one) = At(two) /\ IsAbsolute(one) = IsAbsolute(two) => Normalize(one) = Normalize(two)
    /\ At(Join(one, two)) = Walk(At(one), two)
    /\ IsNormal(one) /\ one \notin {EmptyText, Dot} /\ Last(one) # Up =>
           /\ At(Parent(one)) = (IF IsRoot(one) THEN <<>> ELSE Front(At(one)))
           /\ Normalize(Join(Parent(one), Filename(one))) = one

(***************************************************************************)
(* From the base, the relative text leads to the target, unless the base   *)
(* lies above something the target does not name (path::relative).         *)
(***************************************************************************)
RelativeLeadsThere ==
    LET t == Normalize(one)
        b == Normalize(two)
    IN  IsAbsolute(t) = IsAbsolute(b) /\ Named(SubSeq(b, CommonParts(PartsOf(t), PartsOf(b)) + 1, Len(b)))
            => Walk(At(b), Relative(t, b)) = At(t)

(***************************************************************************)
(* A text lies under another when its place does, and what is left of it   *)
(* leads there from the other (is_path_under, relative_to_root,            *)
(* is_path_in_scope, strip_path_prefix).                                   *)
(***************************************************************************)
UnderIsBelow ==
    LET p == Normalize(one)
        root == Normalize(two)
        rest == StripPathPrefix(p, root)
    IN  root # Dot /\ IsAbsolute(p) = IsAbsolute(root) /\ Named(p) /\ Named(root) =>
            /\ IsPathUnder(p, root) = IsPrefix(At(root), At(p))
            /\ IsPathInScope(p, root) = IsPathUnder(p, root)
            /\ IsPathUnder(p, root) => Walk(At(root), RelativeToRoot(p, root)) = At(p)
            /\ rest # p => Walk(At(root), rest) = At(p)
            /\ ~IsRoot(root) /\ IsPathUnder(p, root) /\ p # root => rest # p

(***************************************************************************)
(* A text seen from a directory of the source tree leads where it led from *)
(* the root, and one that climbs out of the source tree is given another   *)
(* root's name just when it leads below that (make_source_relative,        *)
(* compute_source_to_root, resolve_under_root).                            *)
(***************************************************************************)
SeenFromElsewhere ==
    LET dir == Normalize(two)
    IN  /\ "" \notin ToSet(one) /\ ~IsAbsolute(dir) /\ Named(dir) =>
               Walk(At(dir), MakeSourceRelative(one, ComputeSourceToRoot(dir), dir)) = At(one)
        /\ \A source, target \in Roots :
               LET found == ResolveUnderRoot(one, source, target)
                   place == Walk(Walk(<<>>, source), one)
               IN  one[1] = Up =>
                       /\ (found # None) = IsPrefix(Walk(<<>>, target), place)
                       /\ found # None => Walk(Walk(<<>>, target), found) = place
=============================================================================
