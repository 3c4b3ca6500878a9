------------------------------- MODULE Regexes -------------------------------
(***************************************************************************)
(* The regular expressions of the scanners' tool tables                    *)
(* (src/src/parser/regex.cpp): compiled to a program by recursive descent, *)
(* run over a subject with every place of program and subject visited      *)
(* once, against what an expression means.                                 *)
(***************************************************************************)
EXTENDS SequencesExt

CONSTANTS
    Letters,       \* every letter, in the order of their bytes
    NewLine,       \* the letter that ends a line
    Alphanumeric,
    Shorthand,     \* the letters a shorthand letter stands for
    Leaves,        \* [text, letters]: what expressions are written from
    Anchors,       \* some of {"^", "$"}
    Subjects,
    Typed,         \* letters of texts that need not be expressions
    MaxText, MaxSteps

\* An expression under construction: its text, whether it may be repeated, be
\* followed or only be an alternative, and the stretches of each subject it takes;
\* or a text anyone might type.
VARIABLE regex

AllLetters == {Letters[k] : k \in DOMAIN Letters}
Between(low, high) ==
    {Letters[k] : k \in {j \in DOMAIN Letters :
        (\E i \in 1..j : Letters[i] = low) /\ (\E i \in DOMAIN Letters : i >= j /\ Letters[i] = high)}}
Quantifiers == {"*", "+", "?"}
End == "end"
Peek(p, at) == IF at <= Len(p) THEN p[at] ELSE End
-----------------------------------------------------------------------------
\* Regex::compile.  Char, Any and Class are instructions that take a letter of a
\* set; x and y are relative to the instruction.
Op(op, x, y) == <<[op |-> op, letters |-> {}, x |-> x, y |-> y]>>
Take(letters) == <<[op |-> "take", letters |-> letters, x |-> 0, y |-> 0]>>
Parsed(code, at) == [ok |-> TRUE, at |-> at, code |-> code]
Fail == [ok |-> FALSE, at |-> 0, code |-> <<>>]

ClassItem(p, at) ==
    LET escaped == Peek(p, at + 1)
        Item(ok, single, letters, next) == [ok |-> ok, single |-> single, letters |-> letters, at |-> next]
    IN  IF p[at] # "\\" THEN Item(TRUE, TRUE, {p[at]}, at + 1)
        ELSE IF escaped \in DOMAIN Shorthand THEN Item(TRUE, FALSE, Shorthand[escaped], at + 2)
        ELSE Item(escaped \notin Alphanumeric \cup {End}, TRUE, {escaped}, at + 2)

RECURSIVE ClassItems(_, _, _, _)
ClassItems(p, at, letters, first) ==
    LET low    == ClassItem(p, at)
        ranged == Peek(p, low.at) = "-" /\ Peek(p, low.at + 1) \notin {"]", End}
        high   == ClassItem(p, low.at + 1)
        range  == Between(CHOOSE c \in low.letters : TRUE, CHOOSE c \in high.letters : TRUE)
    IN  IF at > Len(p) \/ (p[at] = "[" /\ Peek(p, at + 1) \in {":", ".", "="})
        THEN [ok |-> FALSE, letters |-> {}, at |-> 0]
        ELSE IF p[at] = "]" /\ ~first THEN [ok |-> TRUE, letters |-> letters, at |-> at + 1]
        ELSE IF low.ok /\ ~ranged THEN ClassItems(p, low.at, letters \cup low.letters, FALSE)
        ELSE IF low.ok /\ low.single /\ high.ok /\ high.single /\ range # {}
        THEN ClassItems(p, high.at, letters \cup range, FALSE)
        ELSE [ok |-> FALSE, letters |-> {}, at |-> 0]
BracketClass(p, at) ==
    LET negated == Peek(p, at + 1) = "^"
        items   == ClassItems(p, IF negated THEN at + 2 ELSE at + 1, {}, TRUE)
    IN  IF items.ok THEN Parsed(Take(IF negated THEN AllLetters \ items.letters ELSE items.letters), items.at)
        ELSE Fail

\* Mutant: "+" goes back to itself.
RepeatOnce(quantifier, item) ==
    LET n == Len(item)
    IN  CASE quantifier = "*" -> Op("split", 1, n + 2) \o item \o Op("jump", -(n + 1), 0)
          [] quantifier = "+" -> item \o Op("split", 0, 1)
          [] quantifier = "?" -> Op("split", 1, n + 1) \o item
Repeat(quantifier, item) ==
    LET n == Len(item)
    IN  CASE quantifier = "*" -> Op("split", 1, n + 2) \o item \o Op("jump", -(n + 1), 0)
          [] quantifier = "+" -> item \o Op("split", -n, 1)
          [] quantifier = "?" -> Op("split", 1, n + 1) \o item

\* An item that is not in parentheses.
Atom(p, at) ==
    CASE p[at] = "["  -> BracketClass(p, at)
      [] p[at] = "."  -> Parsed(Take(AllLetters \ {NewLine}), at + 1)
      [] p[at] = "\\" -> LET escape == ClassItem(p, at)
                        IN  IF escape.ok THEN Parsed(Take(escape.letters), escape.at) ELSE Fail
      [] OTHER -> Parsed(Take({p[at]}), at + 1)
QuantifiedAtom(p, item) ==
    LET quantifier == Peek(p, item.at)
    IN  IF ~item.ok \/ quantifier \notin Quantifiers \cup {"{"} THEN item
        ELSE IF quantifier = "{" \/ Peek(p, item.at + 1) \in Quantifiers \cup {"{"} THEN Fail
        ELSE Parsed(Repeat(quantifier, item.code), item.at + 1)

\* The descent's stack: for each "(" still open the alternatives so far, joined, and
\* the sequence after them.
Opened == [joined |-> <<>>, others |-> FALSE, sequence |-> <<>>]
Alternation(frame) ==
    IF frame.others
    THEN Op("split", 1, Len(frame.joined) + 2) \o frame.joined
             \o Op("jump", Len(frame.sequence) + 1, 0) \o frame.sequence
    ELSE frame.sequence
Sequence(frames, item) ==
    IF ~item.ok THEN Fail
    ELSE [ok |-> TRUE, at |-> item.at, code |-> [frames EXCEPT ![Len(frames)].sequence = @ \o item.code]]
Descend(p, at, frames) ==
    LET c     == p[at]
        below == Front(frames)
        whole == Alternation(Last(frames))
    IN  CASE c = "|" -> Parsed(Append(below, [joined |-> whole, others |-> TRUE, sequence |-> <<>>]), at + 1)
          [] c = ")" -> IF below = <<>> THEN Fail ELSE Sequence(below, QuantifiedAtom(p, Parsed(whole, at + 1)))
          [] c = "(" -> IF Peek(p, at + 1) = "?" THEN Fail ELSE Parsed(Append(frames, Opened), at + 1)
          [] c \in {"^", "$"} -> Sequence(frames, Parsed(Op(IF c = "^" THEN "start" ELSE "end", 0, 0), at + 1))
          [] c \in Quantifiers \cup {"{"} -> Fail
          [] OTHER -> Sequence(frames, QuantifiedAtom(p, Atom(p, at)))
RECURSIVE Parse(_, _)
Parse(p, parsed) ==
    IF parsed.ok /\ parsed.at <= Len(p) THEN Parse(p, Descend(p, parsed.at, parsed.code)) ELSE parsed
Compile(p) ==
    LET parsed == Parse(p, Parsed(<<Opened>>, 1))
    IN  IF parsed.ok /\ Len(parsed.code) = 1
        THEN Parsed(Alternation(parsed.code[1]) \o Op("match", 0, 0), parsed.at)
        ELSE Fail

\* Regex::search: the threads still to run, the last one first, and those that ran.
Advances(instruction, s, pos) == pos <= Len(s) /\ s[pos] \in instruction.letters
AtLineEnd(s, pos) == pos > Len(s) \/ (pos = Len(s) /\ s[pos] = NewLine)
RECURSIVE Run(_, _, _, _)
Run(code, s, pending, visited) ==
    /\ pending # <<>>
    /\ LET thread == Last(pending)
           pc  == thread[1]
           pos == thread[2]
           instruction == code[pc]
           x == <<<<pc + instruction.x, pos>>>>
           next ==
               CASE instruction.op = "take"  -> IF Advances(instruction, s, pos) THEN <<<<pc + 1, pos + 1>>>> ELSE <<>>
                 [] instruction.op = "split" -> <<<<pc + instruction.y, pos>>>> \o x
                 [] instruction.op = "jump"  -> x
                 [] instruction.op = "start" -> IF pos = 1 THEN <<<<pc + 1, pos>>>> ELSE <<>>
                 [] instruction.op = "end"   -> IF AtLineEnd(s, pos) THEN <<<<pc + 1, pos>>>> ELSE <<>>
                 [] instruction.op = "match" -> <<>>
       IN  IF thread \in visited THEN Run(code, s, Front(pending), visited)
           ELSE instruction.op = "match" \/ Run(code, s, Front(pending) \o next, visited \cup {thread})
Search(code, s) == Run(code, s, [k \in 1..(Len(s) + 1) |-> <<1, Len(s) + 2 - k>>], {})
-----------------------------------------------------------------------------
\* Building an expression.  places: where a stretch may begin or end.
Places(s) == 1..(Len(s) + 1)
Expression(text, level, ends, steps) == [text |-> text, level |-> level, ends |-> ends, steps |-> steps]
Leaf(l) == Expression(l.text, "atom", [s \in Subjects |-> {<<i, i + 1>> : i \in {j \in DOMAIN s : s[j] \in l.letters}}], 0)
Anchor(a) ==
    Expression(<<a>>, "item",
        [s \in Subjects |-> {<<i, i>> : i \in {j \in Places(s) : IF a = "^" THEN j = 1 ELSE AtLineEnd(s, j)}}], 0)
Empty == Expression(<<"(", ")">>, "atom", [s \in Subjects |-> {<<i, i>> : i \in Places(s)}], 0)
Basics == {Leaf(l) : l \in Leaves} \cup {Anchor(a) : a \in Anchors} \cup {Empty}

Follow(r, t) == {<<p[1], q[2]>> : <<p, q>> \in {pq \in r \X t : pq[1][2] = pq[2][1]}}
Both(r, t, Joined(_, _)) == [s \in Subjects |-> Joined(r.ends[s], t.ends[s])]
Grown == regex.level \notin {"typed", "whole"} /\ regex.steps < MaxSteps
Becomes(text, level, ends) == regex' = Expression(text, level, ends, regex.steps + 1)

Init == regex \in Basics \cup {Expression(<<>>, "typed", <<>>, 0)}
Parenthesise ==
    /\ Grown /\ regex.level # "atom"
    /\ Becomes(<<"(">> \o regex.text \o <<")">>, "atom", regex.ends)
Multiply(quantifier) ==
    /\ Grown /\ regex.level = "atom"
    /\ LET Meant(s) ==
               LET once == regex.ends[s]
                   More(r, _place) == r \cup Follow(r, once)
                   some == FoldLeft(More, once, [k \in Places(s) |-> k])
                   none == {<<i, i>> : i \in Places(s)}
               IN  CASE quantifier = "*" -> some \cup none [] quantifier = "+" -> some
                     [] quantifier = "?" -> once \cup none
       IN  Becomes(Append(regex.text, quantifier), "item", [s \in Subjects |-> Meant(s)])
Precede(b) ==
    /\ Grown /\ regex.level # "either"
    /\ Becomes(b.text \o regex.text, "item", Both(b, regex, Follow))
Succeed(b) ==
    /\ Grown /\ regex.level # "either"
    /\ Becomes(regex.text \o b.text, "item", Both(regex, b, Follow))
Either(b) ==
    /\ Grown
    /\ Becomes(regex.text \o <<"|">> \o b.text, "either", Both(regex, b, LAMBDA r, t : r \cup t))
\* The last step: to stand for the whole subject, but for an end of line.
Enclose ==
    /\ regex.level \notin {"typed", "whole"}
    /\ LET Whole(s) == {ij \in regex.ends[s] : ij[1] = 1 /\ AtLineEnd(s, ij[2])}
       IN  Becomes(<<"^", "(">> \o regex.text \o <<")", "$">>, "whole", [s \in Subjects |-> Whole(s)])
Type(c) ==
    /\ regex.level = "typed" /\ Len(regex.text) < MaxText
    /\ regex' = [regex EXCEPT !.text = Append(@, c)]
TypeOne == \E c \in Typed : Type(c)
Next ==
    \/ Parenthesise \/ Enclose
    \/ \E q \in Quantifiers : Multiply(q)
    \/ \E b \in Basics : Precede(b) \/ Succeed(b) \/ Either(b)
    \/ TypeOne
Spec == Init /\ [][Next]_regex
-----------------------------------------------------------------------------
(***************************************************************************)
(* An expression is found in exactly the subjects that hold a stretch it   *)
(* stands for (Regex::compile, Regex::search).                             *)
(***************************************************************************)
FoundWhereItStands ==
    regex.level # "typed" =>
        LET program == Compile(regex.text)
        IN  program.ok /\ \A s \in Subjects : Search(program.code, s) = (regex.ends[s] # {})

(***************************************************************************)
(* Whatever is typed is refused or compiles to a program none of whose     *)
(* jumps leaves it, and no program falls off its end.                      *)
(***************************************************************************)
StaysInProgram ==
    LET program == Compile(regex.text)
        code == program.code
    IN  program.ok =>
            /\ Last(code).op = "match"
            /\ \A k \in DOMAIN code :
                   /\ code[k].op \in {"split", "jump"} => k + code[k].x \in DOMAIN code
                   /\ code[k].op = "split" => k + code[k].y \in DOMAIN code
=============================================================================
