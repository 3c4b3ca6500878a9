------------------------- MODULE TupfilesProperties -------------------------
(***************************************************************************)
(* What a parse promises: the rules are a function of the project, and not *)
(* of the order in which its directories happen to be parsed.              *)
(***************************************************************************)
EXTENDS Tupfiles

(***************************************************************************)
(* The reference: the least set of generated files that the rules of the   *)
(* parsed directories make, each glob seeing everything other directories  *)
(* generate and what its own directory generated before it.                *)
(***************************************************************************)
Visible(p, d, i, G) ==
    {f \in project.disk : Matches(p, f)}
    \cup {g.file : g \in {h \in G : Matches(p, h.file) /\ (h.dir # d \/ h.at < i)}}

FilesOf(d, i, G) ==
    FoldLeft(LAMBDA acc, p :
                CASE p.k = "glob" -> acc \cup Visible(p, d, i, G)
                  [] p.k = "file" -> acc \cup {p.file}
                  [] p.k = "not"  -> {f \in acc : ~Matches(p, f)}
                  [] OTHER        -> acc,
             {}, project.tup[d][i].ins)

HasGroup(s) == \E j \in DOMAIN s.ins : s.ins[j].k = "group"

MadeBy(d, i, G) ==
    LET s == project.tup[d][i]
        fs == FilesOf(d, i, G)
        outs == CASE s.fails \/ ~Active(s) -> {}
                  [] s.foreach -> {OutOf(s.out, f) : f \in fs}
                  [] s.ins # <<>> /\ fs = {} /\ ~HasGroup(s) -> {s.empty}
                  [] OTHER -> {s.out}
    IN  {[file |-> f, dir |-> d, at |-> i] : f \in outs \ {NoFile}}

Bigger(G) == UNION {UNION {MadeBy(d, i, G) : i \in DOMAIN project.tup[d]} : d \in parsed}

Reference[n \in Nat] ==
    IF n = 0 THEN {} ELSE UNION {Bigger(G) : G \in {Reference[n - 1]}}
\* Every step of the iteration adds a file or is the last.
Fixpoint == Reference[8]

Monotone == \A d \in Dirs : \A i \in DOMAIN project.tup[d] : project.tup[d][i].empty = NoFile

FollowsFrom(G) ==
    /\ GeneratedFiles(graph) = {g.file : g \in G}
    /\ \A i \in DOMAIN graph.cmds :
          LET c == graph.cmds[i] IN
          IF project.tup[c.dir][c.at].foreach
          THEN c.files \subseteq FilesOf(c.dir, c.at, G)
          ELSE c.files = FilesOf(c.dir, c.at, G)
    /\ \A g \in G : \E i \in DOMAIN graph.cmds :
          /\ graph.cmds[i].dir = g.dir /\ graph.cmds[i].at = g.at
          /\ Node("build", g.file) \in graph.cmds[i].outs

\* What the rules came to is what the project says, whichever directory was
\* parsed first and whichever were parsed in the middle of another.  (A
\* project whose generated files are not on the disk yet, without .EMPTY and
\* with no directory refused that was the source of a seed.)
RulesAreAFunctionOfTheProject ==
    /\ phase = "done" /\ project.scope = {} /\ Monotone
    /\ \A s \in seed : s.dir \notin refused
    =>
        \A G \in {Fixpoint} :
            (\A g \in G : g.file \notin project.disk) => FollowsFrom(G)

\* A directory whose Tupfile was refused leaves nothing behind: what is kept
\* was made by directories parsed to their end, and each directory asked for
\* is one or the other.
NothingHalfParsed ==
    phase = "done" =>
        /\ parsed \cap refused = {}
        /\ \A i \in DOMAIN graph.cmds : graph.cmds[i].dir \in parsed
        /\ \A d \in available : InScope(d) => d \in parsed \cup refused

\* Whether two rules fight over one file does not depend on the configuration:
\* in an accepted project no configuration makes two rules write it.
OneOwnerInEveryConfiguration ==
    phase = "done" =>
        \A config \in [DOMAIN project.config -> BOOLEAN] :
            \A n \in DOMAIN graph.nodes :
                Cardinality({i \in DOMAIN graph.cmds :
                                n \in graph.cmds[i].outs /\ Holds(graph.cmds[i].guards, config)})
              + Cardinality({i \in DOMAIN graph.decls :
                                graph.decls[i].out = n /\ Holds(graph.decls[i].guards, config)}) <= 1

\* A command that names a group waits for every member, also for one that
\* joined the group after the command was made.
GroupsAreComplete ==
    phase = "done" =>
        \A i, j \in DOMAIN graph.cmds :
            project.tup[graph.cmds[j].dir][graph.cmds[j].at].group \in graph.cmds[i].groups
                => graph.cmds[j].outs \subseteq graph.cmds[i].order

\* A generated file that the source tree of a variant holds as well.
Twin(f) == project.variant /\ f \in project.disk

\* A command that reads a file some rule makes is linked to that rule's very
\* node, whether it was parsed before the rule or after it.
InputsMeetTheirProducer ==
    phase = "done" =>
        \A i \in DOMAIN graph.cmds : \A f \in graph.cmds[i].files :
            f \in GeneratedFiles(graph) /\ ~Twin(f) => Node("build", f) \in graph.cmds[i].ins

\* No directory waits for itself, and none is evaluated twice in a round.
EachOnce ==
    /\ \A i, j \in DOMAIN stack : stack[i].dir = stack[j].dir => i = j
    /\ Parsing \cap (parsed \cup refused) = {}

\* A parse ends: accepted, or refused with a reason.
Ends == <>(phase \in {"done", "error"})

(***************************************************************************)
(* What the comments promise and the code does not keep.                   *)
(***************************************************************************)
\* context.cpp: the seed only grows, so this converges.
SeedIsStillGenerated ==
    phase = "done" =>
        \A i \in DOMAIN graph.cmds : \A f \in graph.cmds[i].files :
            (\E s \in seed : s.file = f) => f \in GeneratedFiles(graph)

\* glob-expansion.ears.md: a glob leaves out a file that a rule written later
\* in the same Tupfile generates.
LaterRulesStayOut ==
    phase = "done" =>
        \A i, j \in DOMAIN graph.cmds :
            LET c == graph.cmds[i]
                later == graph.cmds[j]
            IN  c.dir = later.dir /\ c.at < later.at =>
                    \A f \in c.files : Node("build", f) \in later.outs =>
                        \E p \in Range(project.tup[c.dir][c.at].ins) : p.k = "file" /\ p.file = f
=============================================================================
