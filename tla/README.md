# A verification of putup

`putup` is a build system in the manner of tup: Tupfiles in every directory say
which commands make which files, a dependency graph is built from them, the
commands whose inputs changed are run in parallel, and what was learnt (content
hashes, discovered headers, commands that still have to run) is kept in an index
file for the next build. This directory holds TLA+ models of it, the TLC
configurations that check them, and proofs checked by TLAPS. Paths below are
relative to the root of the repository, where the program itself is `src/` and
`include/pup/`; `PROJECT.json`, whose paths begin one level above it, maps every
definition to the lines it models and lists the hazards, line by line, with the
properties that watch them.

1. [The system](#1-the-system)
2. [Modules](#2-modules)
3. [Runs](#3-runs)
4. [Findings](#4-findings)
5. [Proofs](#5-proofs)
6. [What is not modelled](#6-what-is-not-modelled)
7. [What is left to do](#7-what-is-left-to-do)

## 1. The system

### Parts and their state

| Part | State it keeps | Operations | Modules |
|---|---|---|---|
| Command scheduler (`src/exec/scheduler.cpp`) | ready queue, in-degrees, slots with a child and its pipes, counts, verdicts | launch, poll, drain, reap, kill, terminate, cancel | `Scheduler`, `JobOrder` |
| Build ordering (`src/graph/topo.cpp`, `scheduler.cpp:272-416, 591-776`) | colours and stack of a sort, job list, dependency map, injected ordering | sort, filter, map, sweep, retract | `JobGraph` |
| Incremental build (`src/cli/cmd_build.cpp`) | the record, changed and examined files, marks, executed commands, discovered files | scan, select, run, merge, save | `IncrementalBuild`, `StatCache` |
| Outputs and clean (`cmd_build.cpp`, `cmd_clean.cpp`) | what the record calls generated, ghost or source | guard, delete stale outputs, clean, distclean | `Outputs` |
| Index file (`src/index/`) | the record as bytes: header, checksum, string table | read, verify, write through a temporary and rename | `IndexFile` |
| Context and parsing (`src/cli/context.cpp`) | available, parsed, refused directories, rounds, the seed | parse on demand, passes, rounds | `Tupfiles` |
| Rule builder (`src/graph/builder.cpp`) | nodes, commands, groups, ghosts, guards, globs to check | expand rules, resolve inputs and outputs, finalize | `Tupfiles` |
| Tupfile evaluator (`builder.cpp`, `parser/eval.cpp`) | variables and their banks, pending defaults, conditions, macros | assign, test, include, import, export, expand | `Variables` |
| Patterns, expressions, depfiles (`src/parser/`) | a position in a text | match, search, extract, parse | `Globs`, `Regexes`, `Depfiles` |
| Paths and layout (`src/core/`, `layout.cpp`) | none | join, normalise, relate, find the roots | `PathNames`, `Targets` |
| Graph tables (`src/graph/dag.cpp`) | nodes, path lookups, edge lists, signatures | ensure, link, query, walk upwards | `FileNodes`, `GraphEdges`, `Walks` |
| Containers (`src/core/`) | one bump region, vectors, pools, bit sets, sorted ids | grow, insert, erase, intern, look up | `Storage`, `Interner`, `IdTables`, `IdMaps` |
| Drivers (`multi_variant.cpp`, `cmd_configure.cpp`, `target.cpp`) | a process for each variant, configurations | resolve targets, fork, run, reap, configure | `Targets`, `Variants` |
| Process layer (`src/platform/process-*.cpp`) | child processes, pipes | spawn, poll, reap, signal | as used by `Scheduler` |
| Dependency scanners, show, export, Windows I/O | none over time | rewriting and printing of text | no (section 6) |

### How they interact

`cmd_build` reads the index and lets the context parse the Tupfiles into a graph: the
context hands one directory after another to the rule builder, whose rules call back
into it to have the directories they name parsed first; the evaluator gives the builder
the texts, the patterns give it the files, and the tables keep what it makes. Then
`cmd_build` compares the recorded files with the disk
(`find_changed_files_with_implicit`, `detect_new_commands`), deletes the outputs of rules
that are gone, and derives the commands to run. It hands the graph, that filter and the
ordering the previous build discovered to `Scheduler::build`, which sorts the graph, keeps
the filtered commands, maps who waits for whom and runs the event loop. The loop calls
back `on_job_complete`, where `cmd_build` collects executed commands, marks and discovered
dependencies; the counts and the enforced ordering come back as `BuildStats`.
`build_index` then writes the next record. Over all this stands a driver that does it in
several build directories at once, one process each.

The models meet at these calls. `Tupfiles` says which rules there are; `JobGraph` makes of
them the dependency map `Scheduler` runs, and that the map is acyclic, the assumption under
which `Scheduler` is proved to run everything, is a theorem about `JobGraph`; `JobOrder` is
what `IncrementalBuild` assumes of a run (a command starts when those it waits for
succeeded), and that `Scheduler` implements it is a theorem too; `StatCache` refines the one
comparison `IncrementalBuild` makes of a file, `IndexFile` its one step that saves;
`VectorValues` is what every other module takes for granted of a container, and `Storage`
implements it.

### What is hard

One thread, but many actors: the child processes and whatever they leave behind, the user
who edits while a build runs, the clock, sibling processes in other variants, and the builds
that follow one another over the same record. The hard behaviours are: the order of exits; a
failure while others run; fork failures; pipes held open by nobody the scheduler knows; a
record written after the fact about files that have moved on; a build that dies with its
outputs on disk and its record unwritten; builds of parts of the project, which know less
than the record they replace; discovered dependencies, which become true only after the
command that had them has run; directories parsed in the middle of a rule of another, whose
result must not depend on which came first; conditionals both of whose branches are
evaluated; outputs whose rules come and go under the user's own files; and text read by
scanners written by hand.

### What makes each part correct

- *Scheduler*: dependency order; each job at most one process and one verdict; the queue
  loses and repeats nothing; no child outlives the build; success means all ran; keep-going
  leaves out only what is blocked; the build ends.
- *Build ordering*: the sort rejects exactly the cyclic graphs; the map makes every reader
  wait for its writer; injected ordering never stalls a build, and is reported only where
  it was enforced.
- *Incremental build*: no change is forgotten; a clean build is a fresh one; nothing runs
  for no reason; owed runs stay owed; what was not examined is not restated.
- *Outputs*: nothing of the user's is overwritten or removed; nothing of putup's is lost
  sight of.
- *Index file*: a reader sees the old record or the new one; damage is detected; no offset
  leads outside the file.
- *Parsing*: the rules are a function of the project; it ends; a refused directory leaves
  nothing; owners are found in every configuration; groups and producers are complete.
- *Evaluator*: a branch not taken leaves nothing; an output follows the variables it hangs on.
- *Drivers*: every variant asked for is handled once and reported; configure opens the gate.
- *Containers, tables, texts*: agreement with sets, maps, sequences, and with what a pattern
  or a path denotes.

## 2. Modules

| Module | What it is |
|---|---|
| `JobOrder` | abstract specification: what a scheduler promises of start, verdict, limit and end |
| `Scheduler`, `SchedulerProperties` | `execute_parallel`, one action per phase and slot, beside the child processes; its properties, the refinement mapping to `JobOrder`, fairness |
| `SchedulerProofs` | the invariant; how a build ends, and the refinement |
| `JobGraph`, `JobGraphProperties`, `JobGraphProofs` | `topological_sort`, `filter_jobs`, `build_dependency_map`, `has_cycle`, retraction |
| `Walks` | the walks up the graph for a target, a scope, a configuration; proofs in `JobGraphProofs` |
| `IncrementalBuild`, `IncrementalProperties` | `build_single_variant` and `build_index` over a history of builds and edits |
| `RecordProofs` | marks; the record and the disk; builds of directories |
| `StatCache` | the stat cache and the racy window of one file, against a clock |
| `Outputs`, `OutputsProofs` | who owns a path: builds in place, stale outputs, clean, distclean |
| `IndexImage`, `IndexReader`, `IndexFile`, `IndexFileProofs` | the image of a record; its reader; its save and what damages it |
| `Tupfiles`, `TupfilesProperties`, `TupfilesProofs` | the parse driver and the rule builder |
| `Variables`, `SampleTupfiles` | the evaluator, and small programs for it |
| `Globs`, `Regexes`, `Depfiles`, `PathNames` | four readers of text, each against a definition of what the text means |
| `Targets`, `Variants` | from a command line to build directories; one command over several of them, configure |
| `CliProofs` | proofs about `StatCache`, `Variants`, `Targets` |
| `Elements`, `VectorValues`, `StorageSizes`, `Storage`, `StorageProofs` | what vectors hold; the abstract specification; the bump region; proofs, also of `GraphEdges` |
| `Interner`, `IdTables`, `IdMaps`, `GraphEdges`, `FileNodes` | pools, tables by id, edges, nodes of files |
| `MCScheduler`, `MCIncremental`, `MCTupfiles`, `MCOutputs` | instances for TLC |
| `MCParts`, `MCAlgorithms` | the smaller components, one per behaviour: `part` names the one that runs, and one run explores them all |

Operators marked "Mutant" sit before the definition they would replace: each is that
definition with a plausible bug in it, used to see that a property notices.

### Scheduler

`pc` is the numbered phase of the loop (1 launch; 2-4 poll and drain; 5 reap; 6 check) and
`cursor` the slot a `for` loop over the slots is at, so that children move between any two
slots of a pass. Launch, LaunchFails and LaunchDry are the three branches at lines 844-911;
`Reap` is everything from a successful waitpid to the end of the iteration, with the depfile
check and `reject_unwritten_outputs` deciding the verdict before the dependents are released.
`Terminate` is phase 6 as one step: the thread does nothing else in between, and it waits for
every child. `KillOverdue` leaves the cursor where it is, since the waitpid that follows the
kill may or may not find the child gone. Cancellation may be requested at any point of the
phases that make callbacks.

Abstracted: stdout and stderr are one pipe (`hup` when the last writer of both is gone,
`closed` when the scheduler has closed its ends); data are "some" or "none"; a deadline is a
set of overdue jobs that the clock may add to. The environment, the command line and all
reporting are left out. `options.timeout` is never set by the command line; the library offers
it and the tests use it.

### Build ordering

In `JobGraph` the recursive search is its stack: `Root`, `Descend`, `FindCycle`, `Blacken`
are the cases of `visit_neighbors`, with neighbours taken in any order where the code goes
through data edges and then order-only edges in the order of ids, which is one of them.
`Select` is the filter and the ordering that come in from `cmd_build`; `BuildDependencyMap`,
`SweepOne`, `Accept` and `Retract` are lines 789-802 of `execute_parallel`. Edges are of the
two roles `edge_mask` separates, data and order-only. Edges from Tupfiles, variables and tools
are left out: no command produces those nodes (`reject_shadowed_sources` refuses a rule that
would). `Walks` adds the walks of a target, a scope and a configuration over the same graph.

### Incremental build

One invocation is `Start` (the time is taken), then `Refuse` (a missing input), `UpToDate`, or
`Scan`; commands succeed or fail in any order their dependencies allow; `Finish` computes and
saves the record; `Crash` is a death, or a failed save, at any point. The user edits sources
at any time and rules between builds.

Content is symbolic: an output's content is the set of source and rule versions it was made
from, so "stale" is decidable and hash comparison is equality of contents. The order in which
`build_index` fills the record matters and is kept: files of the graph, then those discovered
by executed commands, then the merged ones of unparsed directories, last the kept discoveries;
each name is taken by the first that adds it (`record_file_entry`). `touched` stands for the
comparison of a file's mtime with the start of the build, and `plan.before` for
`hashed_before_commands`.

Abstracted or left out: a dependency-scan job counts as part of the command it scans for (in
the code the parent is in `executed_cmds` as soon as the scan succeeds); includes go one level
deep; one output per command; groups as order-only edges; deleted sources, removed rules and
the deletion of their outputs (`Outputs` has those); retraction of an injected ordering is in
the model (`Contradictory`, `Enforced`) but not exercised by the runs' projects, whose
discoveries close no cycle, while `JobGraph` exercises it; edges that make a command depend on
variables and tools stand in the version of its rule.

`StatCache` looks inside the scan: one source file, a clock, a file that may be dated ahead,
and every step of a build that touches its entry, in the order of the code and with edits
between any two: `Stat`, `HashBeforeCommands`, `Judge` (the time, the racy window,
`--no-stat-cache`, the hash), the command, `HashFile`, `StatAndSave` under `RecordedContent`. A
file found unchanged may still have its command run for another input, or be recorded anew
because something else is; a build may be killed or a dry run; a build of another directory
carries the entry into a later record. `NoChangeMissed` says of the verdict "unchanged" that
the command last read the text the build found, `NothingRunsTwice` of a file at rest that it
gets that verdict.

`Outputs` looks at what the record says of a path and what is done on its strength:
`reject_shadowed_sources`, `remove_stale_outputs`, the deletion before a command runs, `clean`
and `distclean`, between which the user writes, deletes, edits rules, switches branches, breaks
Tupfiles and loses the record. `disk` remembers whose file is at a path, which the program
cannot see, and `untracked` which of putup's files no record accounts for: those written since
the last save, those of a lost record, and those a build *forsakes*. `Forsaken` names the three
ways a save takes a file's name out of the record and leaves the file: its directory is refused
under `-k`; a scoped build carries over a command that lives outside the scope, whose output
lies inside it and is read there, so that the record calls it a source; or the scope's rules took
one output of such a command, so that `merge_out_of_scope_commands` drops the command with its
others. `FilesAreOwned` says that there is no fourth, and that nothing else goes wrong with a
file that is named: section 4 tells what becomes of the forsaken ones.

### Index file

An image is cells, one for each 32-bit word or character, and a footer that is an ideal
checksum; `IndexImage` is `serialize_index`, which makes one, `IndexReader` what takes it back.
The save (`IndexFile`) goes through a temporary file, `fsync` and `rename`, with a failure or a
power cut at any of them: cells that were not synced may be cut short, and a rename be undone,
until the file system has settled. `Hit` damages any one cell or cuts the file, `Foreign`
changes a cell under a checksum that agrees; the readers (`read_index`, `read_prior_paths`)
check offset by offset, and `Touched` is what they look at, which is compared with the length of
the file. `RecordIsSafe` bundles what follows; `ReadsWhatWasSaved` is the round trip.

### Tupfiles

`stack` is the Tupfiles being evaluated, the innermost last: an operand that names another
directory pushes it (`Ask`), `Take` binds the operand, `Rule` or `Refuse` applies the rule (one
call of `expand_rule` a step: a rule that says foreach takes its files one by one, in any order),
`EndTupfile` returns. `NextDir` is the driver's loop over the directories of a pass,
`AnotherPass` the pass a nested project needs, and `Settle`, `GiveUp`, `NextRound` are the
checks at the end of a round (refusals, `check_glob_stability`, `check_input_dirs_provided`,
`reject_ambiguous_keys`, `finalize_graph`). A file is a directory, a base and an extension; a
glob matches by directory and extension. Projects are data: `project.tup[d]` is the list of
rules the evaluator would deliver for directory `d`, with their guards.

`Variables` is that evaluator: assignments of all kinds, pending `??=` defaults, conditionals
whose two branches are both evaluated, includes, macros, imports and exports, and the
signature a command's next build compares. A value is a sequence of words without sigils.

### Texts

`Globs`, `Regexes`, `PathNames` and `Depfiles` transcribe scanners as functions of positions
and hold them against a definition: a pattern against the set of texts it stands for, an
expression against the stretches of a subject it takes, a path against a walk through
directories, a depfile against a writer that quotes as compilers do.

### Drivers, containers and tables

`Targets` computes the layout and the targets from the command line and the current directory;
`Variants` runs a request (build or configure) in the build directories, by forked children or
the parent in their stead, with children killed and handlers failing. A task belongs to a place of
the command, not to a directory: `for_each_variant` takes `-B x -B x` as it stands, so two handlers
may work in `x` at once, and the model has them do so; what one of them finds (no `tup.config`) may
be stale when it acts on it, and a failed install of the one may take away what the other put
there. A command without any build directory is one over the source root. `Storage` has
the bump region, `Vec` and `SortedIdVec` as cells that move, grow in place and are given back,
and implements `VectorValues`; `Interner` has the Robin Hood index, strings and paths for
arbitrary hash functions; `IdMaps` does the same work with three tables side by side;
`GraphEdges` has the arena of edge lists; `FileNodes` the ways a path leads to a node.

## 3. Runs

All pass unless marked; bounds are the constants of the `.cfg` and the MC modules.

| Run | Question | Bounds | States |
|---|---|---|---|
| `Scheduler` | order, queue, counts, verdicts, reaping, refinement of `JobOrder`; does every build end, by itself or by its timeout? | 3 jobs, 1 or 2 slots (1 or 3 in dry runs), 4 dependency maps, one job with a scan | 256,044 (3 min) |
| `Incremental` | full builds: nothing forgotten, clean is fresh, no needless run, marks, mid-build edits, convergence | 2 sources, 2 commands, 2 versions, 2 edits, 1 fault | 102,520 (2.5 min) |
| `IncrementalScoped` | builds of one directory, plain or `--rerun`, between full builds | 2 sources, 2 commands in 2 directories, 2 edits, 1 fault | 284,912 |
| `IncrementalTarget` | *violated*: builds of a target | 1 source, 2 commands, 2 edits | |
| `IncrementalMidBuild` | *violated*: edits during `-a` builds | 2 sources, 3 edits | |
| `IncrementalHeader` | *violated*: scoped builds and headers | 2 sources, 2 edits | |
| `Tupfiles` | do the rules come out as the project says, whichever directory is parsed first? owners, groups, producers, refusals, end | 3 directories, one or two of 16 kinds of rule each, 6 option sets, `MaxRounds` 3 | |
| `TupfilesDisk` | *violated*: second build in place | 2 directories, `MaxRounds` 8 | |
| `Parts` | outputs, refusals, index, variables, globs, regexes, paths, depfiles | see below | 450,998 (3 min) |
| `WeakDefaults` | *violated*: a pending default at a conditional | programs of `WeakProjects` | |
| `OutputsOverwritten` | *violated*: a file the user made first | 1 directory, 2 rules | |
| `Algorithms` | sort, map, sweep and walks; stat cache; vectors; pools; tables; nodes; targets; variants | 3 commands, 3 files, 1 group, up to 2 injected pairs; others below | 1,175,066 (2 min) |

Why the bounds are enough to be interesting. Three jobs are the least with a fork, a join, a
chain and an unrelated job beside a pair; two slots are the least with one job running beside a
reap and the least that a third job must wait for. One of the maps has its edge against the
index order, since releases and queues are in index order. The timeout is tried over the fork
alone, which keeps two slots busy, and `keep_going` over every map but the fork, on which it
changes no order, and always over the pair with a job beside it. Three commands give cycles of
length two and three, a scan edge from command to command, a group with a member and cycles
only an injected pair closes. Two versions suffice for a text that changes and comes back, the
case in which a record by content can be fooled; two edits put a change before and during a
build; one fault is a failure or a death between any two steps. The project `gen`/`obj` has a
generated header that is discovered, not declared: the race of REQ-IMPL-RACE. `gen`/`app` puts
the producer in another directory than its consumer. `MaxEdits` and `MaxFaults` bound
histories, not states reached within them; the number of builds is not bounded.

`IncrementalScoped`, `IncrementalTarget`, `IncrementalMidBuild` and `IncrementalHeader` run
partial builds only once full builds have recorded every command (`FullFirstSpec`): over a lost
or fresh record a partial build has no history to keep, and what it leaves unrecorded the next
full build treats as new.

In `Tupfiles` a pair of directories is the least in which each can ask for the other, which is
every shape of demand there is; the third reads from both. Sixteen kinds of rule cover every
operand, group, guard and outcome; `Varied` adds builds in place, a fatal first failure, an
unreadable Tupfile, nested projects and scopes. `MaxRounds` is 3 where the code has 8: three
rounds are the least in which a refusal and a new seed cost one each, and a project that is
still unstable then (a rule whose `.EMPTY` form makes what it looks for, a chain of globs that
each need the one before) reaches the limit, so that `GiveUp` is explored too.

In `Parts`: two directories and four paths for outputs; records of two files, commands and
edges for the index; programs of two statements of every kind in every order, or one and a
conditional with rules in both branches, then two rules; patterns of three pieces over texts
of three letters; expressions of two constructions; paths of three and two components;
depfiles of four items. In `Algorithms`: two vectors over four cells of which two are a page;
six edges; six files; a clock to 5, three texts, stamps two ahead; requests that name two directories or one directory twice, each with any child killed.

`CHECK_DEADLOCK FALSE` stands in `Parts`, `Algorithms`, `WeakDefaults` and `OutputsOverwritten`:
their parts really stop, where a text is written out, planning ends or a history is at its bound.
The scheduler has its own final stuttering step (`Returned`), a parse has `Ended`, and the
incremental model can always start another build.

### Fairness

`MCSpec` of the scheduler: the loop goes on when it can (a single thread that only waits in
`poll`), and a killed command dies. Without a timeout, a command ends at some time and each of
its pipes loses its last writer; the last is a property of the commands, and section 4 says what
happens without it. With a timeout neither is assumed: the clock alone must end the build.
`FairSpec` of the incremental build has weak fairness of the build's own steps and of starting
a full build: someone who keeps building; `Converges` asks nothing of a history in which edits
or faults go on. `FairSpec` of `Tupfiles` has weak fairness of `Step`, the one thread that
parses.

## 4. Findings

Each is a run with one violated property, and was reproduced with the built program.

1. **A build of a target forgets other commands** (`IncrementalTarget`,
   `cmd_build.cpp:2459`). Edit an input of commands x and y, run `putup` for x's output only:
   the record takes the input's new hash, y is neither run nor marked, and the next full build
   is "up to date" with y's output stale. REQ-EXIT-CARRY says it shall be recorded as needing
   to run. Builds of a directory do this right (`merge_out_of_scope_commands`); commands of
   parsed directories outside the target filter pass through neither path.
2. **Edits during `-a` builds** (`IncrementalMidBuild`, `cmd_build.cpp:566`). `-a x` runs what
   x depends on, and commands downstream of that, on files outside the examined set, whose old
   hashes `carry_for` then keeps. If such a file gets its old text back while its reader runs,
   the record matches the disk and the stale output is permanent (against
   REQ-INPUT-MIDBUILD).
3. **Unexamined headers are re-hashed** (`IncrementalHeader`, `cmd_build.cpp:1131`). The
   recorded discoveries of commands that did not run go through `create_implicit_file`, which
   hashes the file as it is now, against REQ-INPUT-UNEXAMINED. Edit a header, run `putup x` for
   an unrelated directory x: the next full build calls the header's readers up to date.
4. **A pending default is lost at a conditional** (`WeakDefaults`, `builder.cpp:1965`). A rule
   inside a branch that is not taken applies and empties the pending `??=` assignments; the end
   of the branch restores the variables but resizes the emptied list with blank entries. A rule
   after the conditional reads an empty variable.
5. **A file the user made is overwritten** (`OutputsOverwritten`, `cmd_build.cpp:1722`). With
   a record present, an output may be written over a file the record does not list. A rule
   added for a path where the user has a file no rule ever read overwrites it, where the same
   rule in a first build is refused; REQ-PROTECT-RECORD-INDEPENDENT says the answer shall be
   the same.
6. **A glob takes what a later rule makes** (`TupfilesDisk`, `builder.cpp:812`). In a project
   built in place the first build's outputs are on the disk of the second, and
   `expand_glob_pattern` asks of no match which rule generates it: the command changes and runs
   again, against REQ-GLOB-SAME-TUPFILE-ORDER.

### Other observations

No run checks these; those said to be verified were seen with the built program, the others are
from reading.

*Scheduler.* Without a timeout the loop wakes for pipes only (`scheduler.cpp:959`), where
DESIGN.md:1264 has "On child exit (SIGCHLD / waitpid)": a command that leaves a background
process with its stdout holds up the build until that one ends (verified). At
`scheduler.cpp:954` "100ms fallback for reap" is meant for children that have closed their
output, but `poll_fds` (`process-posix.cpp:470`) returns at once when it is given no
descriptor, so that the loop spins: `: |> touch %o; exec >/dev/null 2>&1; sleep 3 |> out` takes
three seconds of CPU time (verified; the Windows version sleeps). A failed fork does not stop
the pass: the gate at line 832 is outside the loop over the slots, so other ready jobs are still
launched. `NoStartAfterFailure` is therefore about commands that failed after they started.

*Record.* The three cases of `Forsaken`, all verified. With `-k` and a refused Tupfile a full
build has no list of prior outputs (`context.cpp:983-996`): an input its reader names becomes a
source in the record, later builds refuse the project's own output, and the orphan survives
(against REQ-OUT-OWNERSHIP, command-record.ears.md:591). The same without any refusal: a rule of
directory a writes `../b/x`, one of b reads x, and after an edit `putup b` is run; the next full
build says "Attempting to create files the build does not own" of putup's own `b/x`, and `clean`
leaves it. And a scoped build whose command takes over one output of a recorded command of an
unparsed directory drops that command's other outputs (`find_joined`): a rule of a makes out and
two, is replaced by one of b that makes `../a/out` alone, and after `putup b` nothing removes
`a/two` again. `cmd_build.cpp:1225` has it that "a scoped build's saved index still describes the
whole project". A first
build in place that is killed before it saves leaves outputs the next build refuses to
overwrite, although the message at `cmd_build.cpp:2543` says otherwise (verified). Outputs of a
rule moved to another directory into a branch not taken lose their owner.

*Stat cache.* Stamps coarser than the clock break `mtime >= build_start` and the racy window
of carried entries; `StatCache` has stamps as fine as the clock, and texts that never come back.

*Parsing.* The comment in `context.cpp` that the seed only grows is not kept
(`SeedIsStillGenerated` says what it promises; a rule with an `.EMPTY` form takes its file
back). A source of the same name as a generated file in the source tree of a variant build is
read, or the generated one, as the order of parsing has it (`builder.cpp:365`); such twins are
left out of `InputsMeetTheirProducer`.

*Variables.* An assignment in a branch not taken overwrites the configuration dependencies
recorded of a variable (REQ-ENV-RECORD); `V=@(A)` followed by `V=plain` keeps the dependency
on A and runs for nothing (REQ-ENV-PRECISION). A variable both imported and exported loses its
recorded value (verified; command-record.ears.md:772 acknowledges it), as do two imports of one
variable of which one has a default; such programs are left out of `Projects`. An export that
is unset and one that is empty have one signature. A recorded value is dropped by a build in
which its import sits in a branch not taken. `&` variables of nodes do nothing (reference.md:953,
2858; verified).

*Drivers* (all verified). `build-a build-b/src` crosses both variants with both scopes;
`-B build -B build` is not reduced to one, as targets are (`multi_variant.cpp:80`, `115-118`): two
handlers run in `build` at the same time, each is counted, and with `configure -c FILE` one
that succeeded can be left without its `tup.config` by the other, whose copy failed half-way
and was unlinked, while the command as a whole then reports failure; `configure -n -c FILE`
installs `tup.config` in a dry run; `putup build-b/src` is refused in a variant whose `src` was
never built; targets are resolved against the root of the project but the handler opens the
variant relative to the current directory, so `cd src && putup build-a` finds no `tup.config`;
`configure -D A=7` without any `tup.config` ignores `-D`; a glob of build directories accepts a
file named like a source that a plain target does not.

*Texts.* `**/b` also matches inside a name in `Glob` and whole names in `IgnoreList`; `a*/`
matches "a"; `[!x]` matches "/"; `*/x` finds no source on disk but a generated file in the
graph; generated dot files are matched where hidden files on disk are not; an unclosed "[" is a
class to the end in `Glob` and a letter in `IgnoreList`. These patterns are left out of what
the run checks. `make_source_relative` on "a//." strips to "/."; `is_path_under(p, "")` holds
for absolute p alone. In depfiles `$$` is not undone, tabs are not read, and names with doubled
backslashes come out shorter.

*Command text* (verified; no module). `builder.cpp:2098-2099` says `%f` and `%i` are spelled
alike at parse and at run. In a variant build with the consumer's rule before its producer's in
one Tupfile, the command runs on `build/gen.c` but its scan is `gcc -M gen.c`: the first build
fails, the second succeeds. A group of the root directory named from a nested Tupfile
(`../<grp>`) is spelled `<grp>` when run (`dag.cpp:720-735`). Scans quote shell variables:
`gcc -I$PWD/inc -c a.c` is scanned as `gcc -M '-I$PWD/inc' a.c` (`scanners/dep_words.cpp:19-25`),
so a right command fails for its scan, against REQ-SCAN-CARRIES-COMPILE-WORDS.

## 5. Proofs

Fourteen lines of argument, all for every value of the constants, from the named assumptions of the
modules (`NumJobs` positive, dependency maps are functions from jobs to sets of jobs, options
have at least one slot; commands, files and groups are different things, graphs relate nodes,
orderings relate commands; sources, commands and directories are finite sets related as the
rules say; a region is whole pages; the order of a pass names each directory once, the operands
of a rule are a sequence, a nested project has Tupfiles and a group has a name; paths lie in
directories and rules are about them; a record is lists of files, commands and edges, whose fields
are unsigned words, types and flags a reader knows, and operands grouped by a prefix sum, as the
constructors of `TokenList` make it; nodes are finitely many and edges join what `add_edge` is called with; a tree holds the directories of what it holds). The instances TLC
explores satisfy them.

**Scheduler** (`SchedulerProofs`). `Spec => []IInv`, where IInv joins TypeOK and Bookkeeping to
three facts they do not have by themselves: `SlotInv`, which says that a job is in a slot
exactly when it has a process that is not reaped, in one slot only, and that only a job without
a verdict is; `NeedsMet`, that what a started job waits for has succeeded; `OutputsThere`, that
a success that was not a dry run left its outputs. The queue's exactness alone is not inductive:
that a released job is not queued twice needs that its in-degree was exactly 1, and that a reaped
job has no verdict yet needs its slot. The proof has a lemma for each kind of step (`QuietKeeps`
for those that settle nothing, `LaunchKeeps`, `SettleAtLaunchKeeps`, `ReapKeeps`,
`TerminateKeeps`), over `FailKeeps` and `SucceedKeeps`, which are about a verdict wherever it is
given, and over facts on queues and cardinalities. Theorems: `TypeCorrect`, `OrderKept`,
`BooksAreKept`.

**How a build ends** (`SchedulerProofs`). EndInv says that the loop is left with all slots
empty, and for one of three reasons. From it: `AllReaped`, `KeepsGoing`, and `NothingLeftOut`,
that a build without failure or cancellation has run every job, for acyclic maps. The last takes
the set of jobs without a verdict: were it not empty, acyclicity gives it a member all of whose
needs have succeeded, which the books put in the ready queue. That maps are acyclic is
`QueueNeverStalls` of `JobGraphProofs`. `FailureStopsLaunching` is an action property: after a
command failed, timed out or lost an output nothing starts unless `keep_going`.

**The scheduler implements its specification** (`SchedulerProofs`). `Implementation`:
`Spec => JobOrder!Spec` under the mapping of `SchedulerProperties`. Every action is shown to be
a step of `JobOrder` or to leave what it sees unchanged; a reap that settles a job and skips
nothing, a launch that fails and one that never starts a process in a dry run are the three
shapes. That at most `limit` run together comes from the slots, each of which holds one job.

**Job graph** (`JobGraphProofs`). *Map.* MapInv: from the time it is built the map holds the
declared producers of each job and each enforced pair, and survives sweep and retraction;
`EnforcedIsTrue`, `WritersFirst`. *Sort.* SearchInv is the invariant of a depth-first search
with three colours: the grey nodes are the stack, each reached from the one below it; a black
node's predecessors are black; the order lists the black nodes, each after those it needs.
`SortRight` follows: at the end white is empty, so the order is a topological one, and where the
search finds a grey neighbour the stack from there is a cycle. *Sweep.* SweepInv: what the sweep
has reached is closed under needs and what it counts is what is left; so it reaches every job
exactly when the map is acyclic. `QueueNeverStalls` and `RetractedRightly` rest on it, the latter
on the declared map being acyclic because the graph was sorted.

**Walks** (`JobGraphProofs`). `WalksMeet`: the three ways to ask what must run first, for a target
(`collect_required_commands`), for a scope (`walk_upstream_from_scope`) and for a configuration
(`collect_command_dependencies`), come to the commands the given ones wait for, those and no
others, although they walk through different nodes and edges; and the files a scoped build examines
are all that these read. Each walk is unrolled as `Closure` is below (`RoundsExist`, `WalkedIs`) and
is the least set closed under its steps (`WalkedHolds`); the three closures then agree on the
commands (`ConfigWalk`, `NodeWalk`, `ScopeWalk`). `EdgesAssumption` is what the calls of `add_edge`
in `builder.cpp` make of edges: without it a walk over all nodes could pass where the map of the
jobs has no step.

**Build record** (`RecordProofs`). MarksKept: the marks of a build cover
what it scheduled and what the record owed of the commands it parsed, and the record's marks are
on commands it holds, so that the rest is merged. `OwedStayOwed`: for every project, history and
kind of invocation (target, scoped and `-a` builds included), a mark is lost only by success.

`NothingIsForgotten`, `CleanIsFresh`, `NothingRunsNeedlessly` and `MidBuildEditsAreSeen` state
the other properties of run `Incremental` for every project, every number of edits and faults,
with or without `--rerun`, where every invocation builds the whole project
(`\A o \in Runs : Whole(o)`). The hypothesis is needed: without it the first and the last are
false, and runs `IncrementalTarget` and `IncrementalMidBuild` show how. The invariant WholeInv:
- `RecordIsTrue`: where the record trusts all that leads to an output, the output is what its
  recorded inputs make. So a command the comparison leaves out has its files as recorded and its
  output fresh (`SameIsFresh`);
- `PlanHolds`, what is known during a build of the commands left out of it, `RunHolds` and
  `Vouched`, of those that have succeeded, `LateIsRaced`, of those that opened a file another
  command was still to write; these have to survive edits and failures between any two steps;
- `CleanHolds`, what a build that reported success leaves.

None of them is inductive without the rest: what `Finish` records of a file depends on whether it
was touched since the start, what `Scan` may leave out on what the last `Finish` recorded. The
closure over the graph is a recursive function over data, which the library's induction theorems
cannot be instantiated for; `Closure` is unrolled instead (`StepsExist`, `ClosureIs`): the
sequence of sets exists by a least counterexample, and stops growing within
`Cardinality(Node)` steps because each step that is not the last adds a node, so that the closure
is the least closed set.

**Builds of a directory** (`RecordProofs`). `ScopesForgetNothing`, `UnexaminedStays` and
`ScopesSeeMidBuildEdits` state the properties of run `IncrementalScoped`, and `MidBuildEditsSeen`
with them, for every project, every set of scopes and every history in which a directory is built
only once the record holds every command (`FullFirstSpec`), no command opens more than it declares
(`NothingIncluded`), and no invocation names a target or takes `-a` (`Plain`). Without these one of
the three fails: runs `IncrementalHeader` (`UnexaminedKept`), `IncrementalTarget`
(`NothingForgotten`) and `IncrementalMidBuild` (`MidBuildEditsSeen`) drop one condition each. ScopedInv is about the record rather than the disk, for a scoped build says nothing of
what it did not parse: `RecordIsWhole`, the record holds all commands and files, and what it says
of an unmarked output is what it says of its rule and its inputs (`Stated`). `Finish` keeps it in
three ways: a command that ran by what it made (`ScopedProgress`), one that was parsed and left
out because all it reads was compared and found as recorded (`Spared` in `ScopedPlan`), one that
was not parsed because either its files are recorded as before or it is marked
(`DependencyChanged`). That the files of a parsed command were all examined is `PlainRuns`.

**Parsing** (`TupfilesProofs`). PInv is inductive for any directories, order of a pass, limit of
rounds and set of projects:
- `StackInv`: the directories on the stack are different and none of them is parsed or refused,
  which is what `parse_directory` tests before it pushes one. It gives `EvaluatedOnce`;
- `RoundInv`: a directory of the pass is to come, done with or on the stack, and whatever was
  refused before the round is refused still. With `MadeIn`, that the commands of the graph come
  from directories parsed, refused or being parsed *in this round*, and the test that ends a
  round only when no refusal is new, it gives `WholeTupfiles`;
- `GraphInv`, of the graph: `OwnersApart`, that two claims on one file have guards that exclude
  each other, among commands, among declarations and between the two (`OneOwner`);
  `MembersListed`, that an output of a rule with a group is its member, and `Ordered`, what
  `finalize_graph` makes of it (`WholeGroups`); `InputsBuilt`, that an input is bound to the place
  of its output unless there is a source by that name (`InputsAreLinked`). The last needs
  `SourcesAreThere`: a node of the source tree is made only for a file that is there.

Each helper of a rule has a lemma that says it keeps GraphInv (`BindAllKeeps`, `CommandKeeps`,
`ClaimKeeps`, `OrderAfterKeeps`, `ExpandRuleKeeps`, `ApplyRuleKeeps`), also for a rule that is
refused half way, and each action one that says it keeps PInv.

**Outputs** (`OutputsProofs`). OInv, inductive for any rules, directories and scopes, with refused
Tupfiles or without, joins the types to: `NamedOrPending`, that at every moment a file of putup is named by the
record, together with a command that makes it, or is untracked, without the command the next save
could not say whose it is; `RecordRight`, that a record that cannot be read says nothing; and
`RunRight`, that what is still to be deleted is stale and all that is stale is still to be
deleted, that what is still to run is a rule of the scope, and that a build that got past `Start`
would overwrite no file the record guards, which no step of that build can change. The heart is `Save`: a file named before and not after is
an output no live command makes, so `Stale` had it removed before (`NothingIsForsaken`,
`StaleOrMade`), unless one of the three cases of `Forsaken` applies (`NamedOrForsaken`); and after
a full build without refusals every command was authoritative (`FullBuildDecides`). Theorems:
`EveryFileHasAnOwner`, `NoSourceIsTaken`, and `TidyProjectsForsakeNothing`: in a project whose
rules write into their own directory, and none of whose Tupfiles is refused, the exception of
forsaken files is empty, whatever scopes are built.

**Index file** (`IndexFileProofs`). *Reading.* `ReaderStaysInside` holds of every image, by what
each position is checked against before it is used: the sections of the header against the file
(`SectionsInside`), a string against its table, a record of operands against the strings behind
it. `HitIsUnread`: a cut image has no footer to agree with, a changed one another's.
`PathsOutlast`: two images that differ in one cell outside the header, the file table and the
strings open alike, have the same files and so the same paths. *Saving.* IInv: the record's name,
and what a crash may bring back under it, hold an image of a saved record or none; from `Fsync`
on the temporary file is that image, from `Rename` on it is on the platter. With the two facts
about damage it gives `TheRecordIsSafe`. The checksum is ideal and what the proof needs of it is
that different cells have different footers. *The round trip* (`ImageIsRead`): reading the image
of a record, of any lengths, gives the record. `Stands(s, a, t)` says that t stands in s behind a
cells; it composes (`StandsIn`) and survives appending (`StandsAhead`), so the proof only has to say
where everything stands. Rows laid end to end are `FlattenSeq`, a recursive function, unrolled by the
least row for which it fails (`PilesExist`, `FlattenIs`, `PilesGrow`): `RowsStand` and, for rows of
one width, `EvenRows`. `StringsStand` finds each string at the offset of its first use,
`ImageIsLaid` each section where the header says, `ReadsString`, `ReadsFile`, `ReadsOperands`,
`ReadsCommand` and `ReadsEdge` take the pieces back and pass the reader's checks on the way. That
the edges can be sorted at all is `OrdersExist`, a selection sort by least elements. With it the
conjunct `ReadsWhatWasSaved` of IInv is inductive: a reader of an undamaged record finds an image
some save made.

**Stat cache** (`CliProofs`). `ScanIsRight`: both directions of `VerdictsAreRight`. That
the record names what the command read is not inductive by itself, for what is recorded is
hashed and dated after the command ran. IInv adds what makes it so: `RecordTrue`, a time stands
in the record only for the text that stands beside it, and lies before the start of any build
that reads it; `FoundTrue`, what a build found holds of the file it found, which may be gone
when the hash is taken; `InHand`, a file dated before the start, or that still has the text it
had before the commands, is the one the command read; `AtRest`, what a quiet file leaves in the
hands of each phase. Every edit and touch falls under one lemma, `WriteKeeps`: its stamp lies
at or after the clock, hence after every recorded time and not before the start. The proof uses
nothing of `RacyClean`: with stamps as fine as the clock the window costs hashes and decides
nothing; it is there for coarser stamps, which the model does not have.

**Driver** (`CliProofs`). VInv joins the types to two facts. `Turns`, for each place the driver can
be at: the places of the command behind `next` have had their run and those ahead of it have not,
whether a child or the parent runs the handler. Nothing is assumed of the directories a command
names: one named twice has two places, and two runs. `Gates` has two parts. `Gate`, for each point a
handler has reached: in a build, whatever was found for a directory is still what the files above it
say, since a build writes none and runs only where there is a file. `Opens`, for all the tasks that
share a build directory: where one of them created or found the root `tup.config`, it is there
unless another's install failed; where it could only come from `ensure_config`, one of them ran its
rules without a failure. A step of one task changes the files of the others in its directory, so
`MovesOpen` is where the proof is: what a step adds or takes away (`Opening`) it also answers for.
From them: `HandlersRunOnce`, once for each time a directory is named, with the exit code of the
whole; `ConfigureArms`; and `RootIsHeard`, that `-D` has the last word and
then the file nearest to the root. The merge over the levels of a directory is a recursive
function, unrolled from the innermost level on (`MergeSays`, `FoundIsReference`).

**Targets** (`CliProofs`). `PlaceIsHeeded`: without `-B` the outermost build directory that encloses
the current one is the one meant, or the source tree when there is none. `PatternsAreWrittenOut`: a
pattern comes to what its matches come to, each written out; the heart is that a match of the
pattern's first component is a directory of the tree which `parse_target` finds by its own name.

**Vectors** (`StorageProofs`). `BlocksStayApart`: blocks are disjoint and lie in committed
memory, for any number of vectors, elements, pages, and any requests of the rest of the program.
`VectorsAreSequences`: the refinement of `VectorValues`. `StepsKeepElements`: a call on one
vector writes into no block of others.

**Edges** (`StorageProofs`). `EveryNodeFindsItsEdges`: `EdgesAreFound` of `GraphEdges` for any
kinds of node, candidate edges, sizes of word and page, and any order of additions. What is
inductive (EInv) is `Laid`, that the blocks of two lists never meet and none reaches past what the
arena has handed out, joined to `Names`, that a node's list at one end holds the indices of its
edges there, rising and none missing. A block is not stored: it is what `append_extend` infers from
the length, the next power of two (`Span`), so the heart is `AppendExtends` and `ListsStayApart`:
a list that is no power of two long has a cell to spare inside its own block, and one that is moves
whole behind all others. `MapSetKeeps` and `PutKeeps` say that the two tables by id give back what
was set and keep the rest, bits and pages included; `KeptChooses` and `IncreasingOnce`, that what
a query filters out of a rising list is determined by its elements, hence equal to what a filter of
all edges gives. Assumed of the constants (`GraphAssumption`): there are words and pages, files and
commands are kinds of node, candidates are edges between ids, and at most 2^29 edges are added: the
lists then take fewer than 2^32 cells, so that an offset of 32 bits is a natural number.

**With TLC only.** Liveness (`BuildEnds`, `Converges`, `Ends`) and ENABLED, which TLAPS cannot
prove here; `RulesAreAFunctionOfTheProject`, whose reference is iterated eight times, enough for
the projects of the run and not for all, and which over many rounds also needs that no refusal is
forgotten and repeated: a file seeded by a directory that is refused again later can seed others;
what the scanners of text compute (`TextsAreReadRight`), recursive definitions over data; and of
`MCParts` and `MCAlgorithms` the evaluator (`BranchesLeaveNothing`, `OutputsFollowVariables`) and,
within `EachPartIsRight`, pools, tables by id and nodes of files, most of whose modules keep
RECURSIVE operators.

## 6. What is not modelled

- *Dependency scanners* (`src/parser/scanners/`): rewriting of compiler command lines, without
  state. A scan is in `Scheduler` and `IncrementalBuild` by its effect.
- *Lexer and parser of Tupfiles*: text into statements; `Variables` begins with statements.
- *Show and export*: printing of what other parts hold.
- *Windows*: platform files for it; paths and processes are those of POSIX.
- *`run_process`* and `CommandRunner` (`process-posix.cpp:94-339`, `exec/runner.cpp`): a blocking
  run of one command, which only the tests use; `configure` runs its commands by the scheduler.
- *Text of commands*: `%` patterns, generated rules, quoting; a command is a name.
- *Tool fingerprints* and the text of signatures, in whose place stand versions of rules.
- *Parsing of options*, `--strict`, empty directories, and all messages.
- *Containers*: regions mapped one by one, `StableVec`, `NodePairSet`, `Buf`.

In the models: an element takes one cell of `Storage`, exhaustion of the region ends the
program (a guard), the direction in which a move copies is left out; hash functions in
`Interner` are arbitrary for each seed; in `FileNodes` the name of the build root is one
component and a generated directory stands as a directory; `IdMaps` has two kinds of node,
words of two bits and pages of two cells; `Targets` leaves out symbolic links, trailing slashes
and the order of listings; `Variants` has configuration files changed by configure alone and no
parent killed; a copy or a rule puts its file there in one step, so that a handler in the same
directory never reads half of one, and what two builds in one directory (`-B x -B x`; nothing
locks it) do to each other's outputs and `.pup` is left out, `Variants` having of a build only
what it reads of the configuration; `clean` and the other commands that go through
`for_each_variant` have the driver's part in common and their own work elsewhere or not at all;
names in `PathNames` are atoms, so names that begin with ".." are left out.

## 7. What is left to do

- The refinement of `IdTables` and `Interner` by maps is of the same kind as that of vectors.
- The evaluator (`Variables`) is checked on small programs; the statement that a branch not taken
  leaves nothing is by induction over a program, out of the prover's reach as it stands.
- The `%` patterns of a command, generated rules and the options of the command line could be
  modelled as functions of text, as `Globs` and `PathNames` are.
