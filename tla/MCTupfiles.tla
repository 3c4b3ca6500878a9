----------------------------- MODULE MCTupfiles -----------------------------
(***************************************************************************)
(* Small projects: two or three directories, each with a Tupfile of at     *)
(* most two rules taken from a list of kinds.                              *)
(***************************************************************************)
EXTENDS TupfilesProperties

\* A pass looks at longer paths first and at "." last.
MCOrder == <<"bb", "a", ".">>
MCDirs == {"bb", "a", "."}
MCMissing == {"new"}

F(d, b, e) == [dir |-> d, base |-> b, ext |-> e]
Pat(kind, d, f, n, e) == [k |-> kind, dir |-> d, file |-> f, name |-> n, ext |-> e]
Glob(d, e) == Pat("glob", d, NoFile, "-", e)
File(f)    == Pat("file", f.dir, f, "-", "-")
Grp(d, n)  == Pat("group", d, NoFile, n, "-")
Not(d, e)  == Pat("not", d, NoFile, "-", e)

Plain == [ins |-> <<>>, order |-> <<>>, foreach |-> FALSE, out |-> NoFile, cmd |-> "c",
          group |-> NoGroup, empty |-> NoFile, guards |-> <<>>, fails |-> FALSE]

\* The kinds of rule in directory d, whose other directory is o.
Make(d)       == [Plain EXCEPT !.out = F(d, "m", "x")]
MakeIn(o)     == [Plain EXCEPT !.out = F(o, "n", "x")]
Collect(d, o) == [Plain EXCEPT !.ins = <<Glob(o, "x")>>, !.out = F(d, "all", "y")]
Copy(d, o)    == [Plain EXCEPT !.ins = <<Glob(o, "x")>>, !.foreach = TRUE, !.out = F(d, "%B", "x")]
Own(d)        == [Plain EXCEPT !.ins = <<Glob(d, "x"), Not(d, "y")>>, !.out = F(d, "own", "y")]
Read(d, o)    == [Plain EXCEPT !.ins = <<File(F(o, "m", "x"))>>, !.out = F(d, "rd", "y")]
Await(d, o)   == [Plain EXCEPT !.ins = <<File(F(d, "s", "c"))>>, !.order = <<Grp(o, "g")>>,
                               !.out = F(d, "w", "y")]
Join(d, o)    == [Plain EXCEPT !.out = F(d, "j", "z"), !.group = <<o, "g">>]
When(d, pol)  == [Plain EXCEPT !.out = F(d, "k", "x"), !.guards = <<<<"C", pol>>>>]
Both(d, pol)  == [Plain EXCEPT !.out = F(d, "k", "x"),
                               !.guards = <<<<"C", TRUE>>, <<"D", pol>>>>]
Fallback(d, o) == [Plain EXCEPT !.ins = <<Glob(o, "z")>>, !.out = F(d, "t", "y"),
                                !.empty = F(d, "e", "x")]
Turn(d, o)    == [Plain EXCEPT !.ins = <<Glob(o, "x")>>, !.out = F(d, "q", "z")]
Fail(d)       == [Plain EXCEPT !.fails = TRUE]
Run(d)        == [Plain EXCEPT !.cmd = "run"]
Fill(d)       == [Plain EXCEPT !.out = F("new", d, "x")]
Take3(d)      == [Plain EXCEPT !.ins = <<Glob("new", "x")>>, !.out = F(d, "nw", "y")]

Kinds(d, o) == {Make(d), MakeIn(o), Collect(d, o), Copy(d, o), Own(d), Read(d, o),
                Await(d, o), Join(d, o), Join(d, d), When(d, TRUE), When(d, FALSE),
                Both(d, TRUE), Fail(d), Run(d), Fill(d), Take3(d)}
UpTo2(S) == {<<>>} \cup {<<s>> : s \in S} \cup {<<s, t>> : s, t \in S}

Options == [tup |-> <<>>, disk |-> {F("a", "s", "c"), F("bb", "s", "c"), F("bb", "s", "x")},
            prior |-> {}, scope |-> {}, nested |-> {}, broken |-> {}, keep |-> TRUE,
            variant |-> TRUE, config |-> [c \in {"C", "D"} |-> c = "C"]]
Tups(ta, tb, tr) == [d \in MCDirs |-> CASE d = "a" -> ta [] d = "bb" -> tb [] OTHER -> tr]

Two(A, B) == {[Options EXCEPT !.tup = Tups(ta, tb, <<>>)] : <<ta, tb>> \in A \X B}

\* One directory with up to two rules beside another with one.
Pairs == Two(UpTo2(Kinds("a", "bb")), {<<s>> : s \in Kinds("bb", "a")})
         \cup Two({<<s>> : s \in Kinds("a", "bb")}, UpTo2(Kinds("bb", "a")))
\* The same directories under other options: built in place, the first
\* failure fatal, a directory that cannot be read, a nested project.
Varied ==
    UNION {{[p EXCEPT !.variant = FALSE], [p EXCEPT !.keep = FALSE],
            [p EXCEPT !.broken = {"bb"}], [p EXCEPT !.nested = {"bb"}],
            [p EXCEPT !.nested = {"bb"}, !.scope = {"bb"}],
            [p EXCEPT !.scope = {"a"}, !.prior = {F("bb", "m", "x")}]} :
           p \in Two({<<s>> : s \in Kinds("a", "bb")}, {<<s>> : s \in Kinds("bb", "a")})}
\* Three directories, the last one reading from both.
Triples == {[p EXCEPT !.tup["."] = <<s>>] :
              p \in Two({<<s>> : s \in Kinds("a", "bb")}, {<<s>> : s \in Kinds("bb", "a")}),
              s \in {Collect(".", "a"), Copy(".", "bb"), MakeIn("a"), Await(".", "a")}}

\* A macro falls back to its .EMPTY variant while nothing matches, and what
\* that one makes is the reason for something to match.
MCFallbacks ==
    Two({<<Fallback("a", "bb")>>}, UpTo2({Turn("bb", "a"), Make("bb"), Join("bb", "bb")}))

\* The first build's outputs are on the disk of the second.
MCRebuilt ==
    {[p EXCEPT !.variant = FALSE, !.disk = @ \cup {F("a", "m", "x"), F("bb", "m", "x")}] :
        p \in Two(UpTo2({Own("a"), Make("a")}), UpTo2({Collect("bb", "a"), Make("bb")}))}

MCProjects == Pairs \cup Varied \cup Triples
=============================================================================
