-------------------------- MODULE IncrementalBuild --------------------------
(***************************************************************************)
(* The build record across builds: src/src/cli/cmd_build.cpp decides from  *)
(* the record of the last build, the files on disk and the rules as they   *)
(* now read which commands to run, and writes the next record from what    *)
(* ran.  Between and during builds the user edits sources and rules;       *)
(* commands fail; a build may die before its record is written.            *)
(*                                                                         *)
(* Every command writes one output, so a command also names its output     *)
(* file.  The content of an output is the set of source and rule versions  *)
(* it was made from, so that a stale output differs from a fresh one.      *)
(* Hashes are contents; the empty set is the zero hash, of a file that is  *)
(* absent or must not be trusted.  The stat cache is left out: the scan    *)
(* compares contents.  Sources are never deleted, rules never removed.     *)
(***************************************************************************)
EXTENDS Naturals, FiniteSets

CONSTANTS
    Source, Cmd,
    Version,    \* the texts a source or a rule may have
    Reads,      \* Reads[c]: the inputs c declares, an output by its command
    Includes,   \* Includes[s][v]: what else a reader of s at version v opens
    Dir,        \* the directory of each file, and of each command's Tupfile
    Runs,       \* the invocations of putup
    MaxEdits,   \* bounds how often the user edits
    MaxFaults   \* bounds how often a command or a build fails

Node == Source \cup Cmd
Marker == "partial"   \* stands for a half-written output
Content == SUBSET (Node \X (Version \cup {Marker}))

ASSUME NodeAssumption == Source \cap Cmd = {}
ASSUME FiniteAssumption == IsFiniteSet(Node)
ASSUME ReadsAssumption == Reads \in [Cmd -> SUBSET Node]
ASSUME IncludesAssumption == Includes \in [Source -> [Version -> SUBSET Node]]
ASSUME RunsAssumption ==
    Runs \subseteq [scope : SUBSET {Dir[n] : n \in Node}, all_deps : BOOLEAN,
                    target : SUBSET Cmd, rerun : BOOLEAN]
ASSUME BoundsAssumption == MaxEdits \in Nat /\ MaxFaults \in Nat

VARIABLES
    source,    \* the text of each source
    rule,      \* the text of each command
    made,      \* the output of each command on disk
    record,    \* the index file
    pc,
    run,       \* the invocation that is being carried out
    touched,   \* the sources modified since it started
    plan,      \* what the scan decided
    executed, failed,
    discovered,  \* the files the depfile of an executed command named
    clean,     \* the last full build succeeded and nothing changed since
    edits, faults

disk  == <<source, rule, made>>
build == <<run, touched, plan, executed, failed, discovered>>
budget == <<edits, faults>>
vars  == <<disk, record, pc, build, clean, budget>>

FullRun == [scope |-> {}, all_deps |-> FALSE, target |-> {}, rerun |-> FALSE]
NoRecord == [saved |-> FALSE, cmds |-> {}, files |-> {},
             hash |-> [n \in Node |-> {}], must_rerun |-> {},
             rule |-> rule, deps |-> [c \in Cmd |-> {}]]
NoPlan == [examined |-> {}, before |-> {}, filter |-> {}, injected |-> {},
           must_rerun |-> {}]

\* The nodes reachable from S along next, S included.
Closure(S, next) ==
    LET reach[k \in 0..Cardinality(Node)] ==
            IF k = 0 THEN S
            ELSE reach[k - 1] \cup UNION {next[n] : n \in reach[k - 1]}
    IN  reach[Cardinality(Node)]

Upward == [n \in Node |-> IF n \in Cmd THEN Reads[n] ELSE {}]
Downward(cmds, hops) ==
    [n \in Node |-> {c \in cmds : n \in Reads[c] \/ <<n, c>> \in hops}]

ContentOf(n) == IF n \in Source THEN {<<n, source[n]>>} ELSE made[n]
-----------------------------------------------------------------------------
(***************************************************************************)
(* What a command reads, and what it makes of it.                          *)
(***************************************************************************)
Included(c) == UNION {Includes[s][source[s]] : s \in Reads[c] \cap Source}
Opened(c)   == Reads[c] \cup Included(c)
Result(c)   == {<<c, rule[c]>>} \cup UNION {ContentOf(n) : n \in Opened(c)}
Partial(c)  == {<<c, Marker>>}
-----------------------------------------------------------------------------
(***************************************************************************)
(* Which directories a run parses, and what its graph then holds.          *)
(***************************************************************************)
InScope(o) == {n \in Node : Dir[n] \in o.scope}
Parsed(o)  == IF o.scope = {} \/ o.all_deps THEN Cmd ELSE Cmd \cap InScope(o)
GraphNodes(o) == Parsed(o) \cup UNION {Reads[c] : c \in Parsed(o)}
Upstream(o)   == Closure(UNION {Reads[c] : c \in Cmd \cap InScope(o)}, Upward)

\* An input nobody produces and nobody left on disk fails the build.
Ghosts(o) == {n \in GraphNodes(o) \ Parsed(o) : ContentOf(n) = {}}
-----------------------------------------------------------------------------
(***************************************************************************)
(* The pre-build comparison, and the commands it leads to.                 *)
(***************************************************************************)
Crossing(o) ==
    UNION {Reads[c] \cup record.deps[c] : c \in record.cmds \cap InScope(o)}

Examined(o) ==
    {n \in record.files :
        o.scope # {} => \/ n \in InScope(o) \cup Crossing(o)
                        \/ o.all_deps /\ n \in Upstream(o)}

Differs(n) == ContentOf(n) = {} \/ record.hash[n] # ContentOf(n)

NewSources(o) == (GraphNodes(o) \cap Source) \ record.files

\* detect_new_commands: no record, a record that says run, or another text.
\* Mutant: the mark is not looked at.
UnverifiedByText(o) ==
    {c \in Parsed(o) : c \notin record.cmds \/ record.rule[c] # rule[c]}
Unverified(o) ==
    {c \in Parsed(o) : \/ c \notin record.cmds \/ c \in record.must_rerun
                       \/ record.rule[c] # rule[c]}

Changed(o) ==
    LET seen == {n \in Examined(o) : Differs(n)} \cup NewSources(o)
    IN  seen \cup {c \in Parsed(o) : record.deps[c] \cap seen # {}}
             \cup Unverified(o)

Forced(o) ==
    IF o.rerun THEN {c \in Parsed(o) : o.scope # {} => c \in InScope(o)} ELSE {}

\* collect_discovered_ordering.
Injected(o) ==
    {e \in Parsed(o) \X Parsed(o) : e[1] # e[2] /\ e[1] \in record.deps[e[2]]}

Affected(o) ==
    Closure(Changed(o) \cap GraphNodes(o), Downward(Parsed(o), Injected(o)))
        \cup Forced(o)

Selected(o) ==
    {c \in Parsed(o) :
        /\ record.saved => c \in Affected(o)
        /\ o.target # {} => c \in Closure(o.target, Upward)
        /\ ~record.saved /\ o.all_deps /\ o.scope # {} =>
                c \in InScope(o) \cup Upstream(o)}

NothingToDo(o) == record.saved /\ Changed(o) = {} /\ Forced(o) = {}
-----------------------------------------------------------------------------
TypeOK ==
    /\ source \in [Source -> Version] /\ rule \in [Cmd -> Version]
    /\ made \in [Cmd -> Content]
    /\ record \in [saved : BOOLEAN, cmds : SUBSET Cmd, files : SUBSET Node,
                   hash : [Node -> Content], must_rerun : SUBSET Cmd,
                   rule : [Cmd -> Version], deps : [Cmd -> SUBSET Node]]
    /\ pc \in {"idle", "starting", "running"}
    /\ run \in Runs \cup {FullRun}
    /\ touched \in SUBSET Source
    /\ plan \in [examined : SUBSET Node, before : SUBSET (Source \X Version),
                 filter : SUBSET Cmd, injected : SUBSET (Cmd \X Cmd),
                 must_rerun : SUBSET Cmd]
    /\ executed \in SUBSET Cmd /\ failed \in SUBSET Cmd
    /\ discovered \in [Cmd -> SUBSET Node]
    /\ clean \in BOOLEAN
    /\ edits \in 0..MaxEdits /\ faults \in 0..MaxFaults

Init ==
    /\ source \in [Source -> Version] /\ rule \in [Cmd -> Version]
    /\ made = [c \in Cmd |-> {}]
    /\ record = NoRecord
    /\ pc = "idle" /\ run = FullRun
    /\ touched = {}
    /\ plan = NoPlan
    /\ executed = {} /\ failed = {}
    /\ discovered = [c \in Cmd |-> {}]
    /\ clean = FALSE
    /\ edits = 0 /\ faults = 0

\* putup exits; what it only held in memory is gone.
Exit ==
    /\ pc' = "idle" /\ run' = FullRun
    /\ touched' = {}
    /\ plan' = NoPlan
    /\ executed' = {} /\ failed' = {}
    /\ discovered' = [c \in Cmd |-> {}]
-----------------------------------------------------------------------------
(***************************************************************************)
(* The user.  A source may get back an older text, also during a build.    *)
(* Left out is only the text the scan hashed after a first change during   *)
(* the same build: a file that has it again counts as unchanged, by        *)
(* REQ-INPUT-FUTURE-MTIME.                                                 *)
(***************************************************************************)
Edit ==
    /\ edits < MaxEdits /\ edits' = edits + 1
    /\ clean' = FALSE
    /\ UNCHANGED faults

EditSource(s, v) ==
    /\ Edit
    /\ v # source[s] /\ <<s, v>> \notin plan.before
    /\ source' = [source EXCEPT ![s] = v]
    /\ touched' = IF pc = "idle" THEN {} ELSE touched \cup {s}
    /\ UNCHANGED <<rule, made, record, pc, run, plan, executed, failed,
                   discovered>>

\* Tupfiles are read when a build starts; an edit during one waits for the next.
EditRule(c, v) ==
    /\ Edit
    /\ pc = "idle" /\ v # rule[c]
    /\ rule' = [rule EXCEPT ![c] = v]
    /\ UNCHANGED <<source, made, record, pc, build>>
-----------------------------------------------------------------------------
(***************************************************************************)
(* build_single_variant up to the scheduler: build_start_ns is taken, then *)
(* the Tupfiles are parsed and the record compared.                        *)
(***************************************************************************)
Start(o) ==
    /\ pc = "idle"
    /\ pc' = "starting" /\ run' = o
    /\ touched' = {}
    /\ UNCHANGED <<disk, record, plan, executed, failed, discovered, clean,
                   budget>>

Refuse ==
    /\ pc = "starting" /\ Ghosts(run) # {}
    /\ Exit
    /\ UNCHANGED <<disk, record, clean, budget>>

UpToDate ==
    /\ pc = "starting" /\ Ghosts(run) = {} /\ NothingToDo(run)
    /\ Exit
    /\ clean' = (clean \/ run.scope = {})
    /\ UNCHANGED <<disk, record, budget>>

\* Every command about to be scheduled is marked before the first one runs.
\* Mutant: only what was marked before is.
MarkedAlready(o) == record.must_rerun \cap Parsed(o)
Marked(o) == (record.must_rerun \cap Parsed(o)) \cup Selected(o)

Scan ==
    /\ pc = "starting" /\ Ghosts(run) = {} /\ ~NothingToDo(run)
    /\ pc' = "running"
    /\ plan' = [examined |-> Examined(run),
                before |-> {<<s, source[s]>> : s \in Examined(run) \cap touched},
                filter |-> Selected(run),
                injected |-> Injected(run),
                must_rerun |-> Marked(run)]
    /\ UNCHANGED <<disk, record, run, touched, executed, failed, discovered, clean,
                   budget>>
-----------------------------------------------------------------------------
(***************************************************************************)
(* The scheduler, as JobOrder promises it: a command starts when those it  *)
(* waits for succeeded; after a failure the rest may or may not run.       *)
(***************************************************************************)
\* has_cycle: an injected ordering that would stall the queue is given up whole.
Contradictory(pairs) ==
    LET next == Downward(plan.filter, pairs)
    IN  \E c \in plan.filter : c \in Closure(next[c], next)
Enforced ==
    LET pairs == {e \in plan.injected : e[1] \in plan.filter /\ e[2] \in plan.filter}
    IN  {e \in pairs : ~Contradictory(pairs)}
Needs(c) == ((Reads[c] \cap Cmd) \cup {p \in Cmd : <<p, c>> \in Enforced})
                \cap plan.filter
Ready(c) == /\ pc = "running" /\ c \in plan.filter \ (executed \cup failed)
            /\ Needs(c) \subseteq executed

CommandSucceeds(c) ==
    /\ Ready(c)
    /\ \A n \in Opened(c) : ContentOf(n) # {}
    /\ made' = [made EXCEPT ![c] = Result(c)]
    /\ executed' = executed \cup {c}
    /\ discovered' = [discovered EXCEPT ![c] = Included(c)]
    /\ UNCHANGED <<source, rule, record, pc, run, touched, plan, failed, clean,
                   budget>>

Fault ==
    /\ faults < MaxFaults /\ faults' = faults + 1
    /\ UNCHANGED edits

\* It failed, or was killed with the build: the old output, half a new one,
\* or none.
CommandFails(c) ==
    /\ Fault
    /\ Ready(c)
    /\ \E left \in {made[c], Partial(c), {}} : made' = [made EXCEPT ![c] = left]
    /\ failed' = failed \cup {c}
    /\ UNCHANGED <<source, rule, record, pc, run, touched, plan, executed,
                   discovered, clean>>
-----------------------------------------------------------------------------
(***************************************************************************)
(* build_index: the next record.  The files of the graph come first, then  *)
(* those the executed commands discovered, then those of the commands of   *)
(* unparsed directories, copied from the old record, and last the recorded *)
(* discoveries of the commands that did not run.                           *)
(***************************************************************************)
GraphFiles  == GraphNodes(run)
FoundFiles  == (UNION {discovered[c] : c \in executed}) \ GraphFiles
Merged      == record.cmds \ Parsed(run)
MergedFiles == (Merged \cup UNION {Reads[c] : c \in Merged})
                   \ (GraphFiles \cup FoundFiles)
KeptFiles   == (UNION {record.deps[c] : c \in record.cmds \ executed})
                   \ (GraphFiles \cup FoundFiles \cup MergedFiles)

\* recorded_content: a source modified since the build started keeps its hash
\* only if that is the content the scan read before any command ran.
\* Mutants: whatever is there is recorded, or the comparison is inverted.
ObservedAtOnce(n) == ContentOf(n)
ObservedInverted(n) == IF n \in Source \ touched THEN {} ELSE ContentOf(n)
Observed(n) ==
    IF n \in touched /\ <<n, source[n]>> \notin plan.before THEN {}
                                                           ELSE ContentOf(n)

\* carry_for: what was neither examined nor produced keeps its old entry.
\* Mutant: every file of the graph is hashed anew.
NeverCarried(n) == FALSE
Carried(n) == n \in record.files \ (plan.examined \cup executed)

\* What comes from the record of an unparsed directory comes as it is.
\* Mutant: it is hashed anew.
MergedObserved(n) == Observed(n)
MergedHash(n) == record.hash[n]

NewHash(n) ==
    CASE n \in GraphFiles \cap Parsed(run) \/ n \in GraphFiles \cap Source ->
             IF Carried(n) THEN record.hash[n] ELSE Observed(n)
      [] n \in GraphFiles \ (Parsed(run) \cup Source) -> ContentOf(n)
      [] n \in FoundFiles \cup KeptFiles -> Observed(n)
      [] n \in MergedFiles -> MergedHash(n)
      [] OTHER -> {}

\* merge_out_of_scope_commands: a command carried across a change is marked.
\* Mutant: the change is left to the next comparison.
LeftToComparison(c) == FALSE
DependencyChanged(c) ==
    \E n \in ({c} \cup Reads[c] \cup record.deps[c]) \cap record.files :
        /\ n \in GraphFiles \cup FoundFiles
        /\ NewHash(n) # record.hash[n]

\* process_implicit_deps: a command that read what another wrote in this build,
\* with nothing ordering the two.
\* Mutant: races are not looked for.
NeverRaced(c) == FALSE
Raced(c) ==
    \E p \in discovered[c] \cap executed :
        c \notin Closure({p}, Downward(Parsed(run), Enforced))

\* The commands recorded as having to run again.
Owed == (plan.must_rerun \ executed) \cup {c \in executed : Raced(c)}
            \cup {c \in Merged : c \in record.must_rerun \/ DependencyChanged(c)}

NewRecord ==
    [saved |-> TRUE,
     cmds |-> record.cmds \cup Parsed(run),
     files |-> GraphFiles \cup FoundFiles \cup MergedFiles \cup KeptFiles,
     hash |-> [n \in Node |-> NewHash(n)],
     must_rerun |-> Owed,
     rule |-> [c \in Cmd |-> IF c \in Parsed(run) THEN rule[c] ELSE record.rule[c]],
     deps |-> [c \in Cmd |-> IF c \in executed THEN discovered[c]
                                               ELSE record.deps[c]]]

Finish ==
    /\ pc = "running"
    /\ failed # {} \/ \A c \in Cmd : ~Ready(c)
    /\ record' = NewRecord
    /\ clean' = ((clean \/ run.scope \cup run.target = {}) /\ failed = {}
                    /\ touched = {})
    /\ Exit
    /\ UNCHANGED <<disk, budget>>

\* putup dies, or cannot write the record: the old one stands.
Crash ==
    /\ Fault
    /\ pc # "idle"
    /\ Exit
    /\ clean' = FALSE
    /\ UNCHANGED <<disk, record>>
-----------------------------------------------------------------------------
UserStep == \/ \E s \in Source, v \in Version : EditSource(s, v)
            \/ \E c \in Cmd, v \in Version : EditRule(c, v)

BuildStep == \/ Refuse \/ UpToDate \/ Scan \/ Finish
             \/ \E c \in Cmd : CommandSucceeds(c)

Next == \/ UserStep \/ BuildStep \/ Crash
        \/ \E o \in Runs : Start(o)
        \/ \E c \in Cmd : CommandFails(c)

Spec == Init /\ [][Next]_vars
=============================================================================
