----------------------------- MODULE Variables -----------------------------
(***************************************************************************)
(* What the statements of a project's Tupfiles come to, and what of it the *)
(* next build goes by.  Assignments, conditionals, includes, macros,       *)
(* imports and exports are evaluated one after the other (builder.cpp,     *)
(* eval.cpp); a conditional over configuration or environment evaluates    *)
(* both its branches, the one not taken for its declarations alone, and is *)
(* to leave no trace.  A command runs again when its signature is new: its *)
(* text, and the value of each variable it hangs on.                       *)
(*                                                                         *)
(* A value is a sequence of words, none of which holds a `$`.  A Tupfile   *)
(* is a sequence of statements, records told apart by `op`.                *)
(***************************************************************************)
EXTENDS Integers, SequencesExt

CONSTANTS
    Programs,      \* what a project may be: sequences of Tupfiles
    Included,      \* Included[f]: the statements of the file f
    Environments,  \* the environments a build may be given: partial functions
    Settings,      \* the same of tup.config
    Platform       \* TUP_PLATFORM and TUP_ARCH

VARIABLES
    program,
    environment,
    config,
    record,        \* the environment's values as recorded, and each signature
    outputs,       \* outputs[n]: the text and environment command n last ran with
    built          \* the environment and configuration of the last build

vars == <<program, environment, config, record, outputs, built>>
-----------------------------------------------------------------------------
(***************************************************************************)
(* Lookup and expansion.  c is the evaluation so far: the variables of the *)
(* Tupfile at hand, and what all the project's Tupfiles share.             *)
(***************************************************************************)
Bound(f, n, v) == [x \in DOMAIN f \cup {n} |-> IF x = n THEN v ELSE f[x]]
Of(f, n)       == IF n \in DOMAIN f THEN f[n] ELSE <<>>
DepsOf(f, n)   == IF n \in DOMAIN f THEN f[n] ELSE {}
Joined(ss)     == FlattenSeq(ss)

\* Where a reference finds its value, and the value.  Nothing gives an evaluation a
\* bank of & variables (parse_directory leaves node_vars null).
Lookup(c, p) ==
    LET n == p.name
    IN  CASE n \in Platform /\ Of(environment, n) # <<>> -> [bank |-> "env", value |-> environment[n]]
          [] n \in Platform /\ Of(environment, n) = <<>> /\ n \in DOMAIN config ->
                 [bank |-> "config", value |-> config[n]]
          [] n \in Platform /\ Of(environment, n) = <<>> /\ n \notin DOMAIN config ->
                 [bank |-> "builtin", value |-> <<n>>]
          [] n \notin Platform /\ p.kind = "$" /\ n \in DOMAIN c.vars ->
                 [bank |-> IF n \in c.imported THEN "env" ELSE "regular", value |-> c.vars[n]]
          [] n \notin Platform /\ n \in DOMAIN config /\ p.kind # "&"
                /\ ~(p.kind = "$" /\ n \in DOMAIN c.vars) ->
                 [bank |-> "config", value |-> config[n]]
          [] OTHER -> [bank |-> "none", value |-> <<>>]

\* The settings, and the variables of the environment, a reference reads.
ConfigReads(c, p, bank) ==
    (IF bank = "config" \/ p.kind = "@" THEN {p.name} ELSE {})
        \cup (IF p.kind = "$" /\ bank = "regular" THEN DepsOf(c.configDeps, p.name) ELSE {})
EnvReads(c, p, bank) ==
    (IF bank \in {"env", "builtin"} THEN {p.name} ELSE {})
        \cup (IF p.kind = "$" /\ bank = "regular" THEN DepsOf(c.envDeps, p.name) ELSE {})

Gathered(c, parts, found) ==
    [value  |-> Joined([i \in DOMAIN parts |-> found[i].value]),
     config |-> UNION {ConfigReads(c, parts[i], found[i].bank) : i \in DOMAIN parts},
     env    |-> UNION {EnvReads(c, parts[i], found[i].bank) : i \in DOMAIN parts}]
Expand(c, parts) ==
    Gathered(c, parts,
        [i \in DOMAIN parts |-> IF parts[i].kind = "text" THEN [bank |-> "text", value |-> parts[i].words]
                                                         ELSE Lookup(c, parts[i])])

\* A variable of the environment has one node, whose value the last directive or
\* use to name it sets; a use sets it only while the environment has it.
Noted(c, names) ==
    LET set == names \cap DOMAIN environment
    IN  [c EXCEPT !.nodes = [n \in DOMAIN @ \cup set |-> IF n \in set THEN environment[n] ELSE @[n]]]
-----------------------------------------------------------------------------
(***************************************************************************)
(* The statements.                                                         *)
(***************************************************************************)
\* A plain assignment replaces what the variable was made from, but only by
\* something; one with += adds to it; a weak one waits for the next rule.
DepsAfter(f, n, op, new) ==
    IF new = {} THEN f ELSE Bound(f, n, IF op = "+=" THEN DepsOf(f, n) \cup new ELSE new)

Stored(c, s, value, read) ==
    [c EXCEPT !.vars = Bound(@, s.name, value),
              !.configDeps = DepsAfter(@, s.name, s.op, read.config),
              !.envDeps = DepsAfter(@, s.name, s.op, read.env)]
Assigned(c, s, read) ==
    CASE s.kind = "&" -> c
      [] s.kind = "$" /\ s.op = "=" -> Stored(c, s, read.value, read)
      [] s.kind = "$" /\ s.op = "+=" -> Stored(c, s, Of(c.vars, s.name) \o read.value, read)
      [] s.kind = "$" /\ s.op = "?=" ->
             IF s.name \in DOMAIN c.vars THEN c ELSE Stored(c, s, read.value, read)
      [] s.kind = "$" /\ s.op = "??=" -> [c EXCEPT !.weak = Append(@, [read EXCEPT !.name = s.name])]
\* What an assignment reads, the conditions around it included.
Read(c, e) ==
    [name |-> "", value |-> e.value, config |-> e.config \cup c.testConfig, env |-> e.env \cup c.testEnv]
Captured(c, s, e) == Assigned(Noted(c, e.env), s, Read(c, e))
Assign(c, s) == Captured(c, s, Expand(c, s.value))

\* The last weak assignment to a variable nothing else defined takes effect.
ApplyWeak(c) ==
    LET names == {c.weak[i].name : i \in DOMAIN c.weak} \ DOMAIN c.vars
        Latest(n) == c.weak[Max({i \in DOMAIN c.weak : c.weak[i].name = n})]
        Over(f, new(_)) ==
            LET set == {n \in names : new(n) # {}}
            IN  [n \in DOMAIN f \cup set |-> IF n \in set THEN new(n) ELSE f[n]]
        Settings_(n) == Latest(n).config
        Env_(n) == Latest(n).env
    IN  [c EXCEPT !.vars = [n \in DOMAIN @ \cup names |-> IF n \in names THEN Latest(n).value ELSE @[n]],
                  !.configDeps = Over(@, Settings_), !.envDeps = Over(@, Env_), !.weak = <<>>]

\* import: the environment's value, else the default, else what the record holds.
\* The node keeps what the environment said.
Import(c, s) ==
    LET given == s.name \in DOMAIN environment
        cached == s.default = <<>> /\ s.name \in DOMAIN record.nodes
        value == IF given THEN environment[s.name]
                 ELSE IF s.default # <<>> THEN Expand(c, s.default).value
                 ELSE Of(record.nodes, s.name)
        node == IF given \/ cached THEN value ELSE <<>>
        kept == ~given /\ cached /\ s.name \in DOMAIN c.nodes
    IN  [c EXCEPT !.vars = Bound(@, s.name, value), !.imported = @ \cup {s.name},
                  !.nodes = IF kept THEN @ ELSE Bound(@, s.name, node)]

\* export: the commands from here on are given the variable.
Export(c, s) ==
    [c EXCEPT !.exported = @ \cup {s.name}, !.nodes = Bound(@, s.name, Of(environment, s.name))]

Active(c) == \A i \in DOMAIN c.guards : c.guards[i].holds = c.guards[i].polarity

\* A rule's command hangs on what its text read, on what the conditions around it
\* read, and on what is exported to it.
\* Mutant: what is exported to it is left out.
HangsOnText(c, e) ==
    {<<"@", n>> : n \in (e.config \cup c.testConfig) \cap DOMAIN config}
        \cup {<<"$", n>> : n \in (e.env \cup c.testEnv) \cap DOMAIN c.nodes}
HangsOn(c, e) ==
    {<<"@", n>> : n \in (e.config \cup c.testConfig) \cap DOMAIN config}
        \cup {<<"$", n>> : n \in (e.env \cup c.testEnv \cup c.exported) \cap DOMAIN c.nodes}

Refused(c) == [c EXCEPT !.refused = TRUE]
Emitted(c, s, e) ==
    [c EXCEPT !.commands = Append(@,
        [name |-> s.name, text |-> e.value, active |-> Active(c), exported |-> c.exported,
         sticky |-> HangsOn(c, e)])]
Spelled(c, s, e) == Emitted(Noted(c, e.env), s, e)
Emit(c, s) ==
    IF s.macro = "" THEN Spelled(c, s, Expand(c, s.text))
    ELSE IF s.macro \in DOMAIN c.macros THEN Spelled(c, s, Expand(c, c.macros[s.macro]))
    ELSE Refused(c)
Rule(c, s) == Emit(ApplyWeak(c), s)

Define(c, s) == [c EXCEPT !.macros = Bound(@, s.name, s.text)]
Alias(c, s) ==
    IF s.target \in DOMAIN c.macros THEN [c EXCEPT !.macros = Bound(@, s.name, c.macros[s.target])]
                                    ELSE Refused(c)

\* Asking whether a variable is defined reads the configuration only when the
\* Tupfile does not define it.
Compared(l, r, test) ==
    [holds |-> (l.value = r.value) = (test = "ifeq"), config |-> l.config \cup r.config, env |-> l.env \cup r.env]
Test(c, t) ==
    IF t.test \in {"ifdef", "ifndef"}
    THEN [holds  |-> (t.name \in DOMAIN c.vars \cup DOMAIN config) = (t.test = "ifdef"),
          config |-> {t.name} \ DOMAIN c.vars, env |-> {}]
    ELSE Compared(Expand(c, t.left), Expand(c, t.right), t.test)

\* Vec::resize.
Blank == [name |-> "", value |-> <<>>, config |-> {}, env |-> {}]
Resized(weak, n) == [i \in 1..n |-> IF i <= Len(weak) THEN weak[i] ELSE Blank]

\* What the end of a branch undoes, when the branch was not taken.
\* Mutant: the variables keep what the branch gave them.
RestoredMacros(c, before) == [c EXCEPT !.macros = before.macros]
Restored(c, before) ==
    [c EXCEPT !.vars = before.vars, !.macros = before.macros, !.weak = Resized(@, Len(before.weak))]

InactiveToo == {"rule", "if", "include", "macro", "alias", "=", "+=", "?=", "??="}

RECURSIVE Process(_, _)
Popped(after, d, taken) ==
    IF taken THEN [after EXCEPT !.guards = d.guards] ELSE [Restored(after, d) EXCEPT !.guards = d.guards]
Guarded(d, id, holds, polarity) ==
    [d EXCEPT !.guards = Append(@, [id |-> id, holds |-> holds, polarity |-> polarity])]
Branch(d, body, id, holds, polarity) ==
    Popped(Process(Guarded(d, id, holds, polarity), body), d, holds = polarity)
Both(d, s, id, holds) == Branch(Branch(d, s.then, id, holds, TRUE), s.otherwise, id, holds, FALSE)
\* A condition that read neither configuration nor environment is decided for good;
\* any other gets a node, and both its branches are evaluated.
Judged(c, s, t) ==
    LET inside == [Noted(c, t.env) EXCEPT !.testConfig = @ \cup t.config, !.testEnv = @ \cup t.env]
    IN  IF t.config = {} /\ t.env = {}
        THEN Process(inside, IF t.holds THEN s.then ELSE s.otherwise)
        ELSE Both([inside EXCEPT !.conditions = @ + 1], s, c.conditions + 1, t.holds)
Conditional(c, s) ==
    [Judged(c, s, Test(c, s.test)) EXCEPT !.testConfig = c.testConfig, !.testEnv = c.testEnv]

\* A file is taken in once under the same conditions.
\* Mutant: once, whatever the conditions.
IncludeOnce(c, s) ==
    IF s.file \in {k[1] : k \in c.included} THEN c
    ELSE Process([c EXCEPT !.included = @ \cup {<<s.file, c.guards>>}], Included[s.file])
Include(c, s) ==
    IF <<s.file, c.guards>> \in c.included THEN c
    ELSE Process([c EXCEPT !.included = @ \cup {<<s.file, c.guards>>}], Included[s.file])

Statement(c, s) ==
    CASE s.op \in {"=", "+=", "?=", "??="} -> Assign(c, s)
      [] s.op = "rule" -> Rule(c, s)
      [] s.op = "if" -> Conditional(c, s)
      [] s.op = "include" -> Include(c, s)
      [] s.op = "macro" -> Define(c, s)
      [] s.op = "alias" -> Alias(c, s)
      [] s.op = "import" -> Import(c, s)
      [] s.op = "export" -> Export(c, s)
      [] s.op = "error" -> Refused(c)

Process(c, body) ==
    IF body = <<>> \/ c.refused THEN c
    ELSE IF ~Active(c) /\ Head(body).op \notin InactiveToo THEN Process(c, Tail(body))
    ELSE Process(Statement(c, Head(body)), Tail(body))

\* Each Tupfile starts with no variables of its own.
None == [n \in {} |-> <<>>]
Opened(c) ==
    [c EXCEPT !.vars = None, !.macros = None, !.weak = <<>>, !.guards = <<>>,
              !.testConfig = {}, !.testEnv = {}, !.exported = {}, !.included = {}]
Nothing ==
    [vars |-> None, macros |-> None, weak |-> <<>>, guards |-> <<>>,
     testConfig |-> {}, testEnv |-> {}, exported |-> {}, included |-> {}, conditions |-> 0,
     configDeps |-> None, envDeps |-> None, imported |-> {}, nodes |-> None, commands |-> <<>>,
     refused |-> FALSE]

AddTupfile(c, body) == IF c.refused THEN c ELSE ApplyWeak(Process(Opened(c), body))
Parsed == FoldLeft(AddTupfile, Nothing, program)
-----------------------------------------------------------------------------
(***************************************************************************)
(* The builds.                                                             *)
(***************************************************************************)
Live(c) == {c.commands[i] : i \in {k \in DOMAIN c.commands : c.commands[k].active}}
Signature(c, k) ==
    [text |-> k.text,
     values |-> {<<v, IF v[1] = "@" THEN config[v[2]] ELSE c.nodes[v[2]]>> : v \in k.sticky}]
ChildEnv(k) == [n \in k.exported \cap DOMAIN environment |-> environment[n]]
Behaviour(k) == [text |-> k.text, env |-> ChildEnv(k)]
Names(c) == {k.name : k \in Live(c)}
Command(c, n) == CHOOSE k \in Live(c) : k.name = n

Init ==
    /\ program \in Programs
    /\ environment \in Environments /\ config \in Settings
    /\ record = [nodes |-> None, signatures |-> None]
    /\ outputs = None
    /\ built = <<>>

ChangeEnvironment ==
    /\ environment' \in Environments \ {environment}
    /\ UNCHANGED <<program, config, record, outputs, built>>
Configure ==
    /\ config' \in Settings \ {config}
    /\ UNCHANGED <<program, environment, record, outputs, built>>

Due(c, n) == Of(record.signatures, n) # Signature(c, Command(c, n))
Build ==
    \E c \in {Parsed} :
        /\ ~c.refused
        /\ record' = [nodes |-> c.nodes,
                      signatures |-> [n \in Names(c) |-> Signature(c, Command(c, n))]]
        /\ outputs' = [n \in Names(c) |-> IF Due(c, n) THEN Behaviour(Command(c, n)) ELSE outputs[n]]
        /\ built' = <<environment, config>>
        /\ UNCHANGED <<program, environment, config>>

Next == ChangeEnvironment \/ Configure \/ Build
-----------------------------------------------------------------------------
(***************************************************************************)
(* What the evaluation promises.                                           *)
(***************************************************************************)
\* The statements taken one after the other, with the branches not taken left out
\* of the text: what a reader of the Tupfile expects.
RECURSIVE Straight(_, _)
Straight(c, body) ==
    IF body = <<>> \/ c.refused THEN c
    ELSE LET s == Head(body)
         IN  CASE s.op = "if" ->
                      Straight(c, (IF Test(c, s.test).holds THEN s.then ELSE s.otherwise) \o Tail(body))
               [] s.op = "include" -> Straight(c, Included[s.file] \o Tail(body))
               [] OTHER -> Straight(Statement(c, s), Tail(body))
Expected ==
    LET Add(c, body) == IF c.refused THEN c ELSE ApplyWeak(Straight(Opened(c), body))
    IN  FoldLeft(Add, Nothing, program)

Visible(c) == {<<k.name, k.text, k.exported>> : k \in Live(c)}

\* A branch not taken leaves nothing behind: the commands, their texts and what is
\* exported to them are those of the branches taken (process_conditional).
BranchesLeaveNothing ==
    \A c \in {Parsed} : \A x \in {Expected} :
        ~c.refused /\ ~x.refused => Visible(c) = Visible(x)

\* After a build every output was made by its command's present text in the
\* environment its command now gets; a build of what was built runs nothing; and a
\* variable that is only imported keeps its recorded value while it is unset.
Directives == UNION {{program[i][k] : k \in DOMAIN program[i]} : i \in DOMAIN program}
OnlyImported ==
    {s.name : s \in {d \in Directives : d.op = "import" /\ d.default = <<>>}}
        \ {s.name : s \in {d \in Directives : d.op = "export" \/ (d.op = "import" /\ d.default # <<>>)}}
FollowsVariables ==
    Build =>
        /\ \A c \in {Parsed} : outputs' = [n \in Names(c) |-> Behaviour(Command(c, n))]
        /\ built = <<environment, config>> => record' = record
        /\ \A n \in (OnlyImported \cap DOMAIN record.nodes) \ DOMAIN environment :
               record'.nodes[n] = record.nodes[n]
=============================================================================
