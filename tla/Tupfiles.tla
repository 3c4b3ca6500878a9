------------------------------ MODULE Tupfiles ------------------------------
(***************************************************************************)
(* From Tupfiles to rules: the parse driver of src/cli/context.cpp and the *)
(* rule builder of src/graph/builder.cpp.                                  *)
(*                                                                         *)
(* A build parses its directories in an order of its own.  A rule that     *)
(* names another directory has that directory parsed first, on demand and  *)
(* in the middle of the rule, unless it is being parsed already.  A glob   *)
(* is matched against the disk and against what the rules met so far       *)
(* generate; when a round ends and some glob missed a generated file, the  *)
(* graph is thrown away and everything is parsed again, with the files the *)
(* last round generated as a seed.                                         *)
(*                                                                         *)
(* One thread.  The choice is in the project, fixed in the initial state.  *)
(* A file is [dir, base, ext], a glob matches by directory and extension,  *)
(* and an output takes the base of the input in a rule that says foreach.  *)
(***************************************************************************)
EXTENDS Naturals, Sequences, FiniteSets, FiniteSetsExt, SequencesExt, Functions

CONSTANTS
    Dirs,       \* directories that hold a Tupfile
    Missing,    \* directories that exist only once a rule writes into them
    Order,      \* the order of a pass over Dirs: longest path first, "." last
    Projects,   \* the projects a build may be started on
    MaxRounds   \* max_parse_rounds

ASSUME OrderAssumption ==
    /\ Order \in Seq(Dirs)
    /\ ToSet(Order) = Dirs
    /\ IsInjective(Order)
ASSUME RoundsAssumption == MaxRounds \in Nat \ {0}

NoFile == [dir |-> "-", base |-> "-", ext |-> "-"]
NoGroup == <<"-", "-">>

\* What a rule reads: inputs, then order-only inputs.
Operands(s) == s.ins \o s.order

IsSequence(s) == s \in Seq(Range(s))

\* The nested project is one with Tupfiles, and a group has a name.  A bound of
\* the model: a rule that says foreach has no group among its inputs and no glob
\* among its order-only inputs.
ASSUME ProjectsAssumption ==
    \A p \in Projects :
        /\ p.nested \subseteq Dirs
        /\ \A d \in Dirs : IsSequence(p.tup[d])
        /\ \A d \in Dirs : \A i \in DOMAIN p.tup[d] :
            /\ IsSequence(p.tup[d][i].ins) /\ IsSequence(p.tup[d][i].order)
            /\ \A o \in Range(Operands(p.tup[d][i])) :
                    o.k = "group" => <<o.dir, o.name>> # NoGroup
            /\ p.tup[d][i].foreach =>
                /\ \A j \in DOMAIN p.tup[d][i].ins : p.tup[d][i].ins[j].k # "group"
                /\ \A j \in DOMAIN p.tup[d][i].order : p.tup[d][i].order[j].k = "group"

VARIABLES
    project,    \* the Tupfiles, the disk and the options of this build
    phase,      \* "pass", "done" or "error"
    round,      \* parse round
    todo,       \* directories the current pass has still to look at
    available,  \* TupfileParseState::available
    pruned,     \* ::pruned
    parsed,     \* ::parsed
    refused,    \* ::failed and ::refused, which change together
    before,     \* failed_before: what was refused when the round began
    known,      \* available_before: what was available when the pass began
    stack,      \* the Tupfiles being evaluated, innermost last; ::parsing
    graph,      \* the nodes, commands and declarations made in this round
    seed        \* generated_seed: what the round before generated, and where

vars == <<project, phase, round, todo, available, pruned, parsed, refused,
          before, known, stack, graph, seed>>

(***************************************************************************)
(* The graph.  A node is named by its space and its file; in a tree built  *)
(* in place the two spaces are one.                                        *)
(***************************************************************************)
EmptyGraph ==
    [nodes |-> <<>>, cmds |-> <<>>, decls |-> <<>>,
     globs |-> {}, absent |-> {}, members |-> <<>>]

Node(space, f) == <<IF project.variant THEN space ELSE "tree", f>>

\* f, and g where f has no value.
Extended(f, g) == [x \in DOMAIN f \cup DOMAIN g |-> IF x \in DOMAIN f THEN f[x] ELSE g[x]]

\* ensure_file_node: a node is made once; Generated promotes a ghost or a file.
Ensure(g, n, type) ==
    IF n \notin DOMAIN g.nodes THEN [g EXCEPT !.nodes = Extended(@, [m \in {n} |-> type])]
    ELSE IF type = "Generated" /\ g.nodes[n] \in {"Ghost", "File"}
         THEN [g EXCEPT !.nodes[n] = "Generated"]
         ELSE g

MembersOf(g, grp) == IF grp \in DOMAIN g.members THEN g.members[grp] ELSE {}

GeneratedFiles(g) == {n[2] : n \in {m \in DOMAIN g.nodes : g.nodes[m] = "Generated"}}

\* The directory of the command that makes a file; none when no edge does.
ProducerDir(g, f) ==
    LET made == {i \in DOMAIN g.cmds : Node("build", f) \in g.cmds[i].outs}
    IN  IF made = {} THEN "-" ELSE g.cmds[Min(made)].dir

\* collect_generated_paths
GeneratedPaths(g) == {[file |-> f, dir |-> ProducerDir(g, f)] : f \in GeneratedFiles(g)}

OnDisk(f) == f \in project.disk
Seeded(f) == (\E s \in seed : s.file = f) \/ f \in project.prior

\* Mutant: a file not there yet is expected where sources are.
ResolveToSource(g, f) ==
    IF Node("build", f) \in DOMAIN g.nodes THEN <<Node("build", f), g.nodes[Node("build", f)]>>
    ELSE <<Node("source", f), IF OnDisk(f) THEN "File" ELSE "Ghost">>
\* resolve_input_node: the node an operand stands for, and its type when new.
Resolve(g, f) ==
    LET built == Node("build", f)
        written == Node("source", f)
    IN  IF built \in DOMAIN g.nodes THEN <<built, g.nodes[built]>>
        ELSE IF Seeded(f) THEN <<built, "Ghost">>
        ELSE IF written \in DOMAIN g.nodes THEN <<written, g.nodes[written]>>
        ELSE IF OnDisk(f) THEN <<written, "File">>
        ELSE <<built, "Ghost">>

BindAll(g, fs) ==
    LET made == {Resolve(g, f) : f \in fs}
    IN  [g EXCEPT !.nodes = Extended(@, [n \in {r[1] : r \in made} |->
                                            (CHOOSE r \in made : r[1] = n)[2]])]

Bound(g, fs) == {Resolve(g, f)[1] : f \in fs}

(***************************************************************************)
(* Guards: the branches of the conditionals a rule stands in.              *)
(***************************************************************************)
Holds(guards, config) == \A i \in DOMAIN guards : guards[i][2] = config[guards[i][1]]

Active(s) == Holds(s.guards, project.config)

\* are_guards_mutually_exclusive: they first differ in the sign of one condition.
Exclusive(a, b) ==
    \E i \in DOMAIN a \cap DOMAIN b :
        /\ a[i][1] = b[i][1] /\ a[i][2] # b[i][2]
        /\ \A j \in 1..(i - 1) : a[j] = b[j]

\* Mutant: what a branch not taken declares is not looked at.
OwnedByCommand(g, n, guards) ==
    \E i \in DOMAIN g.cmds : n \in g.cmds[i].outs /\ ~Exclusive(g.cmds[i].guards, guards)
Owned(g, n, guards) ==
    \/ \E i \in DOMAIN g.cmds : n \in g.cmds[i].outs /\ ~Exclusive(g.cmds[i].guards, guards)
    \/ \E i \in DOMAIN g.decls : g.decls[i].out = n /\ ~Exclusive(g.decls[i].guards, guards)

(***************************************************************************)
(* Operands                                                                *)
(***************************************************************************)
Matches(p, f) == f.dir = p.dir /\ f.ext = p.ext

\* expand_glob_pattern, once the directory it names has been parsed: the
\* disk, what this round generates, and what other directories generated in
\* the round before.
GlobMatches(g, d, p) ==
    {f \in project.disk \cup GeneratedFiles(g)
           \cup {s.file : s \in {t \in seed : t.dir # d}} : Matches(p, f)}

\* record_if_input_dir_absent
AbsentDir(g, d, p) ==
    /\ p.dir \in Missing
    /\ ~\E f \in GeneratedFiles(g) : f.dir = p.dir /\ ProducerDir(g, f) = d

\* The directory an operand has parsed first; none for one found on disk.
Demand(p) ==
    IF p.k = "not" \/ (p.k = "file" /\ OnDisk(p.file)) THEN {} ELSE {p.dir}

\* apply_exclusion: what is struck out of the operands before it.
Excluded(p, fs) == {f \in fs : ~Matches(p, f)}

\* What expand_inputs makes of one operand, in the frame that evaluates it.
Expand(fr, p) ==
    LET d == fr.dir
        found == CASE p.k = "glob"  -> GlobMatches(graph, d, p)
                   [] p.k = "file"  -> {p.file}
                   [] OTHER         -> {}
        inputs == fr.op <= Len(project.tup[d][fr.at].ins)
        next == [fr EXCEPT !.op = @ + 1, !.asked = FALSE]
    IN  CASE p.k = "not" /\ inputs  -> [next EXCEPT !.files = Excluded(p, @)]
          [] p.k = "not" /\ ~inputs -> [next EXCEPT !.order = Excluded(p, @)]
          [] p.k = "group" -> [next EXCEPT !.groups = @ \cup {<<p.dir, p.name>>},
                                           !.named = @ \/ inputs]
          [] inputs        -> [next EXCEPT !.files = @ \cup found]
          [] OTHER         -> [next EXCEPT !.order = @ \cup found]

Recorded(g, d, p) ==
    [g EXCEPT !.globs  = IF p.k = "glob"
                         THEN @ \cup {[dir |-> d, pat |-> p, got |-> GlobMatches(g, d, p)]}
                         ELSE @,
              !.absent = IF p.k \in {"glob", "file"} /\ Demand(p) # {} /\ AbsentDir(g, d, p)
                         THEN @ \cup {[dir |-> d, in |-> p.dir]}
                         ELSE @]

(***************************************************************************)
(* Rules                                                                   *)
(***************************************************************************)
OutOf(o, f) == IF o.base = "%B" THEN [o EXCEPT !.base = f.base] ELSE o

\* Whether a rule makes commands of the operands it has found: for each file,
\* or once unless it names inputs and none is there (then the .EMPTY variant
\* of its macro, if there is one, stands in).
Makes(fr, s) ==
    IF s.foreach THEN fr.files # {}
    ELSE s.ins = <<>> \/ fr.files # {} \/ fr.named \/ s.empty # NoFile

\* create_command_node, with the operands bound to it.
Command(g, fr, s, files) ==
    [dir |-> fr.dir, at |-> fr.at, cmd |-> s.cmd, guards |-> s.guards, files |-> files,
     ins |-> Bound(g, files), outs |-> {}, groups |-> fr.groups, order |-> {}]

\* One output: the command's, or declared when the branch is not taken.
Claim(g, s, node) ==
    LET last == Len(g.cmds) IN
    IF Active(s) THEN [g EXCEPT !.cmds[last].outs = @ \cup {node}]
    ELSE [g EXCEPT !.decls = Append(@, [out |-> node, guards |-> s.guards])]

JoinGroup(g, s, node) ==
    IF Active(s) /\ s.group # NoGroup
    THEN [g EXCEPT !.members =
            Extended([grp \in {s.group} |-> MembersOf(g, grp) \cup {node}], @)]
    ELSE g

OrderAfter(g, fr, s) ==
    LET after == BindAll(g, fr.order)
        last  == Len(g.cmds)
    IN  IF Active(s) THEN [after EXCEPT !.cmds[last].order = Bound(g, fr.order)] ELSE after

\* expand_rule: an output that has an owner already refuses the rule and
\* leaves what was made of it so far.
ExpandRule(g, fr, s, files, out) ==
    LET inputs == BindAll(g, files)
        begun  == IF Active(s)
                  THEN [inputs EXCEPT !.cmds = Append(@, Command(inputs, fr, s, files))]
                  ELSE inputs
        node   == Node("build", out)
        typed  == Ensure(begun, node, IF Active(s) THEN "Generated" ELSE "Ghost")
    IN  IF out = NoFile THEN [ok |-> TRUE, g |-> OrderAfter(begun, fr, s)]
        ELSE IF Owned(inputs, node, s.guards) THEN [ok |-> FALSE, g |-> typed]
        ELSE [ok |-> TRUE, g |-> OrderAfter(JoinGroup(Claim(typed, s, node), s, node), fr, s)]

\* process_rule: the files each command is made for, and process_error.
Batches(fr, s) == IF s.foreach /\ fr.files # {} THEN {{f} : f \in fr.files} ELSE {fr.files}

ApplyRule(g, fr, s, files) ==
    CASE s.fails       -> [ok |-> ~Active(s), g |-> g]
      [] ~Makes(fr, s) -> [ok |-> TRUE, g |-> g]
      [] s.foreach     -> ExpandRule(g, fr, s, files, OutOf(s.out, CHOOSE f \in files : TRUE))
      [] OTHER         -> ExpandRule(g, fr, s, files,
                                     IF s.ins # <<>> /\ files = {} /\ ~fr.named
                                     THEN s.empty ELSE s.out)

(***************************************************************************)
(* The driver                                                              *)
(***************************************************************************)
Frame(d) == [dir |-> d, at |-> 1, op |-> 1, asked |-> FALSE, files |-> {},
             order |-> {}, groups |-> {}, named |-> FALSE]

\* After the command for files: the rest of a rule that says foreach, or the rule
\* behind it.
Onward(fr, s, files) ==
    IF s.foreach /\ ~s.fails /\ fr.files \ files # {} THEN [fr EXCEPT !.files = @ \ files]
    ELSE [Frame(fr.dir) EXCEPT !.at = fr.at + 1]

Parsing == {stack[i].dir : i \in DOMAIN stack}
Top == Last(stack)
InScope(d) == project.scope = {} \/ d \in project.scope

\* discover_tupfile_dirs: a nested project is left out unless the scope names it.
Discovered ==
    IF project.nested \cap project.scope # {} THEN Dirs ELSE Dirs \ project.nested

Place(d) == CHOOSE i \in DOMAIN Order : Order[i] = d
IsFirst(d, ds) == \A e \in ds : Place(d) <= Place(e)

Init ==
    /\ project \in Projects
    /\ phase = "pass" /\ round = 1
    /\ available = Discovered /\ pruned = Dirs \ Discovered
    /\ known = available /\ todo = available
    /\ parsed = {} /\ refused = {} /\ before = {}
    /\ stack = <<>> /\ graph = EmptyGraph /\ seed = {}

\* The outcome of a directory the driver itself asked for; a demand ignores it.
Outcome(failed) == phase' = IF failed /\ ~project.keep THEN "error" ELSE "pass"

\* parse_directory, from the pass.
NextDir ==
    /\ phase = "pass" /\ stack = <<>>
    /\ \E d \in todo :
       /\ IsFirst(d, todo) /\ todo' = todo \ {d}
       /\ IF d \in parsed \/ ~InScope(d)
          THEN UNCHANGED <<phase, stack, refused>>
          ELSE IF d \in refused \cup project.broken
          THEN refused' = refused \cup {d} /\ Outcome(TRUE) /\ UNCHANGED stack
          ELSE stack' = <<Frame(d)>> /\ UNCHANGED <<phase, refused>>
    /\ UNCHANGED <<project, round, available, pruned, parsed, before, known, graph, seed>>

\* The operand the innermost rule looks at; its order-only inputs only when
\* it makes a command.
AtOperand ==
    /\ phase = "pass" /\ stack # <<>>
    /\ Top.at <= Len(project.tup[Top.dir])
    /\ LET s == project.tup[Top.dir][Top.at] IN
       Top.op <= Len(IF Makes(Top, s) THEN Operands(s) ELSE s.ins)
Operand == Operands(project.tup[Top.dir][Top.at])[Top.op]

\* compose_nested_project_subtree: what joins when a directory of a nested
\* project is asked for.
Composed(d) == IF d \notin available /\ d \in project.nested THEN project.nested ELSE {}

\* Mutant: a directory being parsed is parsed again.
ParseAgain(d, dirs) == d \notin dirs \/ d \in parsed \cup refused
\* parse_directory returns at once.
NothingToParse(d, dirs) == d \notin dirs \/ d \in parsed \cup refused \cup Parsing

\* request_demand_driven_parse: join the nested project the directory lies
\* in, then parse it unless it is parsed, refused, or being parsed.
Ask ==
    /\ AtOperand /\ ~Top.asked /\ Demand(Operand) # {}
    /\ LET d == Operand.dir
           joins == d \notin available /\ d \in project.nested
           asked == [stack EXCEPT ![Len(stack)].asked = TRUE]
       IN  /\ available' = IF joins THEN available \cup project.nested ELSE available
           /\ pruned' = IF joins THEN pruned \ project.nested ELSE pruned
           /\ IF NothingToParse(d, available')
              THEN stack' = asked /\ UNCHANGED refused
              ELSE IF d \in project.broken
              THEN stack' = asked /\ refused' = refused \cup {d}
              ELSE stack' = Append(asked, Frame(d)) /\ UNCHANGED refused
    /\ UNCHANGED <<project, phase, round, todo, parsed, before, known, graph, seed>>

Take ==
    /\ AtOperand
    /\ Top.asked \/ Demand(Operand) = {}
    /\ stack' = [stack EXCEPT ![Len(stack)] = Expand(Top, Operand)]
    /\ graph' = Recorded(graph, Top.dir, Operand)
    /\ UNCHANGED <<project, phase, round, todo, available, pruned, parsed, refused,
                   before, known, seed>>

AtRule ==
    /\ phase = "pass" /\ stack # <<>> /\ ~AtOperand
    /\ Top.at <= Len(project.tup[Top.dir])
TopRule == project.tup[Top.dir][Top.at]
Applied(files) == ApplyRule(graph, Top, TopRule, files)

Rule ==
    /\ AtRule
    /\ \E files \in Batches(Top, TopRule) :
        /\ Applied(files).ok
        /\ graph' = Applied(files).g
        /\ stack' = [stack EXCEPT ![Len(stack)] = Onward(Top, TopRule, files)]
    /\ UNCHANGED <<project, phase, round, todo, available, pruned, parsed, refused,
                   before, known, seed>>

\* A rule that is refused ends its Tupfile there; what it made stays until
\* the round is over.
Refuse ==
    /\ AtRule
    /\ \E files \in Batches(Top, TopRule) :
        /\ ~Applied(files).ok
        /\ graph' = Applied(files).g
    /\ refused' = refused \cup {Top.dir}
    /\ stack' = Front(stack)
    /\ IF Len(stack) = 1 THEN Outcome(TRUE) ELSE UNCHANGED phase
    /\ UNCHANGED <<project, round, todo, available, pruned, parsed, before, known, seed>>

EndTupfile ==
    /\ phase = "pass" /\ stack # <<>>
    /\ Top.at > Len(project.tup[Top.dir])
    /\ parsed' = parsed \cup {Top.dir}
    /\ stack' = Front(stack)
    /\ UNCHANGED <<project, phase, round, todo, available, pruned, refused, before,
                   known, graph, seed>>

AtPassEnd == phase = "pass" /\ stack = <<>> /\ todo = {}

\* Mutant: what was available is not taken down again.
AnotherPassForEver ==
    /\ AtPassEnd /\ known # available
    /\ todo' = available
    /\ UNCHANGED <<project, phase, round, available, pruned, parsed, refused, before,
                   known, stack, graph, seed>>

\* A nested project joined on the way needs a pass of its own.
AnotherPass ==
    /\ AtPassEnd /\ known # available
    /\ known' = available /\ todo' = available
    /\ UNCHANGED <<project, phase, round, available, pruned, parsed, refused, before,
                   stack, graph, seed>>

\* check_glob_stability
Missed(gl) == {f \in GeneratedFiles(graph) :
                  Matches(gl.pat, f) /\ f \notin gl.got /\ ProducerDir(graph, f) # gl.dir}
\* Mutant: the matches are not compared.
AlwaysStable == TRUE
Stable == \A gl \in graph.globs : Missed(gl) = {}

\* check_input_dirs_provided
Provided ==
    \A a \in graph.absent :
        \E s \in GeneratedPaths(graph) : s.file.dir = a.in /\ s.dir # a.dir

\* reject_ambiguous_keys
Ambiguous ==
    \E i, j \in DOMAIN graph.cmds :
        /\ i < j /\ graph.cmds[i].outs = {} /\ graph.cmds[j].outs = {}
        /\ graph.cmds[i].dir = graph.cmds[j].dir
        /\ graph.cmds[i].cmd = graph.cmds[j].cmd
        /\ graph.cmds[i].files = graph.cmds[j].files

\* Mutant: groups are not looked at again.
FinalizedEarly == graph

\* finalize_graph: a group orders its members before the command that names it.
Finalized ==
    [graph EXCEPT !.cmds = [i \in DOMAIN graph.cmds |->
        [graph.cmds[i] EXCEPT !.order = @ \cup
            UNION {MembersOf(graph, grp) : grp \in graph.cmds[i].groups}]]]

\* Mutant: the round in which a directory was refused is kept.
NoNewRefusals == FALSE
NewRefusals == refused # before

Settle ==
    /\ AtPassEnd /\ known = available
    /\ ~NewRefusals /\ Stable
    /\ IF (project.scope = {} /\ ~Provided) \/ Ambiguous
       THEN phase' = "error" /\ UNCHANGED graph
       ELSE phase' = "done" /\ graph' = Finalized
    /\ UNCHANGED <<project, round, todo, available, pruned, parsed, refused, before,
                   known, stack, seed>>

GiveUp ==
    /\ AtPassEnd /\ known = available
    /\ NewRefusals \/ ~Stable
    /\ round = MaxRounds
    /\ phase' = "error"
    /\ UNCHANGED <<project, round, todo, available, pruned, parsed, refused, before,
                   known, stack, graph, seed>>

\* Parse again: with the refused directories left out, or, when there was
\* none, with what was generated as the seed and every refusal forgotten.
NextRound ==
    /\ AtPassEnd /\ known = available
    /\ NewRefusals \/ ~Stable
    /\ round < MaxRounds
    /\ round' = round + 1
    /\ seed' = IF NewRefusals THEN seed ELSE GeneratedPaths(graph)
    /\ refused' = IF NewRefusals THEN refused ELSE {}
    /\ before' = refused' /\ parsed' = {} /\ graph' = EmptyGraph
    /\ todo' = available
    /\ UNCHANGED <<project, phase, available, pruned, known, stack>>

Ended == phase \in {"done", "error"} /\ UNCHANGED vars

Step == \/ NextDir \/ Ask \/ Take \/ Rule \/ Refuse \/ EndTupfile
        \/ AnotherPass \/ Settle \/ GiveUp \/ NextRound
Next == Step \/ Ended

Spec == Init /\ [][Next]_vars
FairSpec == Spec /\ WF_vars(Step)

TypeOK ==
    /\ phase \in {"pass", "done", "error"} /\ round \in 1..MaxRounds
    /\ available \subseteq Dirs /\ pruned \subseteq Dirs /\ known \subseteq Dirs
    /\ parsed \subseteq Dirs /\ refused \subseteq Dirs /\ before \subseteq Dirs
    /\ todo \subseteq Dirs /\ Parsing \subseteq Dirs
=============================================================================
