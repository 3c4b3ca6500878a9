------------------------------ MODULE Variants ------------------------------
(***************************************************************************)
(* One command over several build directories: a process for each, or the  *)
(* parent in their stead once fork fails; what "configure" does in each,   *)
(* and the configuration a build then reads there for every directory      *)
(* (for_each_variant, run_parallel_tasks, configure_single_variant,        *)
(* build_context and find_config_for_dir of src/src/cli/context.cpp).      *)
(***************************************************************************)
EXTENDS SequencesExt

CONSTANTS
    Variants,   \* build directories
    Dirs,       \* directories of the project, sequences of names, <<>> its root
    Vars, Values,
    Requests,   \* [kind, variants, dry, install, defines, keepGoing, rules]: variants are the build
                \* directories in the command's order, one named twice being there twice; rules
                \* says where a rule makes its directory's tup.config
    Starts,     \* the tup.config files there may be at first
    None, Broken,
    MaxRequests

VARIABLES
    conf,     \* per build directory and directory: its tup.config, Broken or None
    request,  \* the command that runs, or None
    driver,   \* [at, next, inline, failed, exit, asked]
    task      \* per place in request.variants: the handler's run for it

vars == <<conf, request, driver, task>>

Unset == [x \in Vars |-> None]
Configs == [Vars -> Values \cup {None}]
Configuration == Configs \cup {None, Broken}
Request ==
    [kind : {"build", "configure"}, variants : Seq(Variants), dry : BOOLEAN,
     install : Configuration, defines : Configs, keepGoing : BOOLEAN, rules : SUBSET Dirs]
Names == UNION {ToSet(d) : d \in Dirs}

\* task_contexts: what is named twice is taken twice.
Chosen == request.variants

-----------------------------------------------------------------------------
(* The configuration of a directory. *)

\* VarDb::set for every name the file sets.
Over(merged, file) == [x \in Vars |-> IF file[x] # None THEN file[x] ELSE merged[x]]
\* get_or_parse_config: a file that does not parse counts for nothing.
Parsed(file) == IF file = Broken THEN Unset ELSE file
\* From the directory up to the root: those above have the last word.
Levels(d) == 1..(Len(d) + 1)
Above(d, k) == SubSeq(d, 1, Len(d) + 1 - k)
Merge(below, file) == IF file = None THEN below ELSE Over(below, Parsed(file))
\* Mutant: those below.
MergedDown(files, d) ==
    LET upTo[k \in Levels(d)] ==
            Merge(IF k = 1 THEN Unset ELSE upTo[k - 1], files[Above(d, Len(d) + 2 - k)])
    IN  upTo[Len(d) + 1]
Merged(files, d) ==
    LET upTo[k \in Levels(d)] == Merge(IF k = 1 THEN Unset ELSE upTo[k - 1], files[Above(d, k)])
    IN  upTo[Len(d) + 1]
\* Without any file nothing is set, -D included.
FindConfigForDir(files, d, defines) ==
    IF \A k \in Levels(d) : files[Above(d, k)] = None THEN Unset ELSE Over(Merged(files, d), defines)
\* scoped_configs: what was found once is found again.
Scoped(k, d) ==
    IF d \in DOMAIN task[k].scoped THEN task[k].scoped[d] ELSE FindConfigForDir(conf[Chosen[k]], d, request.defines)
Asked(k, d) == [e \in DOMAIN task[k].scoped \cup {d} |-> Scoped(k, e)]

\* What the rest takes for granted of the values above.
VariantsAssumption ==
    /\ None \notin Configs /\ None # Broken /\ None \notin Requests
    /\ <<>> \in Dirs /\ Dirs \subseteq Seq(Names)
    /\ \A d \in Dirs : \A k \in Levels(d) : Above(d, k) \in Dirs
    /\ Requests \subseteq Request
    /\ Starts \subseteq [Variants -> [Dirs -> Configuration]]
-----------------------------------------------------------------------------
(* The handlers.  at: what a task does next. *)

NotRead == [d \in {} |-> Unset]
Fresh == [at |-> "idle", runs |-> 0, killed |-> FALSE, rc |-> 0, scoped |-> NotRead, todo |-> {}, wrong |-> FALSE,
          before |-> None]
Running(k) == task[k].at \notin {"idle", "done"}
Become(k, run) == task' = [task EXCEPT ![k] = run]
GoOn(k, at) == Become(k, [task[k] EXCEPT !.at = at])
Quit(k, code) == Become(k, [task[k] EXCEPT !.at = "done", !.rc = code])
Still == UNCHANGED <<request, driver>>

\* install_config_file: a dry run installs too; a copy that fails half-way takes the file along.
Install(k) ==
    /\ task[k].at = "started" /\ request.kind = "configure"
    /\ \/ request.install = None /\ GoOn(k, "load") /\ UNCHANGED conf
       \/ request.install # None /\ Quit(k, 1) /\ UNCHANGED conf
       \/ request.install # None /\ Quit(k, 1) /\ conf' = [conf EXCEPT ![Chosen[k]][<<>>] = None]
       \/ /\ request.install # None /\ GoOn(k, "load")
          /\ conf' = [conf EXCEPT ![Chosen[k]][<<>>] = request.install]
    /\ Still
\* build_context: Tupfiles may not parse; configure reads the root's file alone.
Load(k) ==
    /\ task[k].at = "load"
    /\ \/ Quit(k, 1)
       \/ Become(k, [task[k] EXCEPT !.at = "rules", !.scoped = Asked(k, <<>>), !.todo = request.rules])
    /\ UNCHANGED conf /\ Still
\* A rule copies what it read of the configuration.
RunRule(k) ==
    /\ task[k].at = "rules"
    /\ \E d \in task[k].todo :
        \/ /\ ~request.dry
           /\ Become(k, [task[k] EXCEPT !.wrong = TRUE, !.todo = IF request.keepGoing THEN @ \ {d} ELSE {}])
           /\ UNCHANGED conf
        \/ /\ conf' = IF request.dry THEN conf ELSE [conf EXCEPT ![Chosen[k]][d] = task[k].scoped[<<>>]]
           /\ Become(k, [task[k] EXCEPT !.todo = @ \ {d}])
    /\ Still
\* ensure_config, once every rule succeeded: the file is looked for, and made if none was there.
\* Mutant: a dry run makes the file as well.
EnsureConfigAlways(k) == IF conf[Chosen[k]][<<>>] # None THEN Quit(k, 0) ELSE GoOn(k, "create")
EnsureConfig(k) ==
    IF conf[Chosen[k]][<<>>] # None \/ request.dry THEN Quit(k, 0) ELSE GoOn(k, "create")
Conclude(k) ==
    /\ task[k].at = "rules" /\ task[k].todo = {}
    /\ IF task[k].wrong THEN Quit(k, 1) ELSE EnsureConfig(k)
    /\ UNCHANGED conf /\ Still
\* write_file empties what came to be there since.
Create(k) ==
    /\ task[k].at = "create"
    /\ \/ Quit(k, 1) /\ UNCHANGED conf
       \/ GoOn(k, "made") /\ conf' = [conf EXCEPT ![Chosen[k]][<<>>] = Unset]
    /\ Still
Leave(k) == task[k].at = "made" /\ Quit(k, 0) /\ UNCHANGED conf /\ Still

\* A build reads the configuration of each directory as it comes to it.
Open(k) ==
    /\ task[k].at = "started" /\ request.kind = "build"
    /\ IF conf[Chosen[k]][<<>>] = None THEN Quit(k, 1) ELSE Become(k, [task[k] EXCEPT !.at = "parse", !.todo = Dirs])
    /\ UNCHANGED conf /\ Still
ParseDirectory(k) ==
    /\ task[k].at = "parse"
    /\ \/ task[k].todo = {} /\ Quit(k, 0)
       \/ \E d \in task[k].todo :
             Become(k, [task[k] EXCEPT !.scoped = Asked(k, d), !.todo = @ \ {d}])
    /\ UNCHANGED conf /\ Still
-----------------------------------------------------------------------------
(* The driver. *)

Resting == [at |-> "resting", next |-> 1, forked |-> 0, failed |-> 0, exit |-> 0, asked |-> 0]
Failure(k) == IF task[k].killed \/ task[k].rc # 0 THEN 1 ELSE 0
Starting(k) == Become(k, [task[k] EXCEPT !.at = "started", !.runs = @ + 1])

\* One build directory needs no process of its own.
Ask ==
    /\ driver.at \in {"resting", "exited"} /\ driver.asked < MaxRequests
    /\ \E r \in Requests :
        /\ request' = r
        /\ driver' = [Resting EXCEPT !.at = IF Len(r.variants) = 1 THEN "inline" ELSE "forking",
                                     !.asked = driver.asked + 1]
        /\ task' = [k \in 1..Len(r.variants) |-> [Fresh EXCEPT !.before = conf[r.variants[k]][<<>>]]]
    /\ UNCHANGED conf
Fork ==
    /\ driver.at = "forking" /\ driver.next <= Len(Chosen)
    /\ \/ /\ Starting(driver.next)
          /\ driver' = [driver EXCEPT !.next = @ + 1, !.forked = @ + 1]
       \/ driver' = [driver EXCEPT !.at = "inline"] /\ UNCHANGED task
    /\ UNCHANGED <<conf, request>>
\* The parent runs those it could not fork, one after the other.
Begin ==
    /\ driver.at = "inline" /\ driver.next <= Len(Chosen)
    /\ task[driver.next].at = "idle" /\ Starting(driver.next)
    /\ UNCHANGED <<conf, request, driver>>
Finish ==
    /\ driver.at = "inline" /\ driver.next <= Len(Chosen)
    /\ task[driver.next].at = "done"
    /\ driver' = [driver EXCEPT !.next = @ + 1, !.failed = @ + Failure(driver.next)]
    /\ UNCHANGED <<conf, request, task>>
Turn ==
    /\ driver.at \in {"forking", "inline"} /\ driver.next > Len(Chosen)
    /\ driver' = [driver EXCEPT !.at = "reaping", !.next = 1]
    /\ UNCHANGED <<conf, request, task>>
Reap ==
    /\ driver.at = "reaping"
    /\ IF driver.next <= driver.forked
       THEN /\ task[driver.next].at = "done"
            /\ driver' = [driver EXCEPT !.next = @ + 1, !.failed = @ + Failure(driver.next)]
       ELSE driver' = [driver EXCEPT !.at = "exited", !.exit = IF driver.failed > 0 THEN 1 ELSE 0]
    /\ UNCHANGED <<conf, request, task>>
\* A signal ends a child.
Killed ==
    /\ driver.at # "exited"
    /\ \E k \in 1..driver.forked :
        Running(k) /\ Become(k, [task[k] EXCEPT !.at = "done", !.killed = TRUE])
    /\ UNCHANGED <<conf, request, driver>>

Init ==
    /\ conf \in Starts /\ request = None
    /\ driver = Resting /\ task = [k \in {} |-> Fresh]
Handle(k) ==
    \/ Install(k) \/ Load(k) \/ RunRule(k) \/ Conclude(k) \/ Create(k) \/ Leave(k)
    \/ Open(k) \/ ParseDirectory(k)
Next == Ask \/ Fork \/ Begin \/ Finish \/ Turn \/ Reap \/ Killed \/ \E k \in DOMAIN task : Handle(k)
Spec == Init /\ [][Next]_vars
-----------------------------------------------------------------------------
(***************************************************************************)
(* A command over several build directories ends when its handler has run  *)
(* once for each time it names one, the same directory twice included,     *)
(* whoever ran it, and no process is left; it reports success only if      *)
(* every run succeeded (run_parallel_tasks, for_each_variant).             *)
(***************************************************************************)
Succeeded(k) == task[k].at = "done" /\ ~task[k].killed /\ task[k].rc = 0
EachOnceAndTold ==
    driver.at = "exited" =>
        /\ \A k \in DOMAIN Chosen : task[k].runs = 1 /\ ~Running(k)
        /\ driver.exit = 0 <=> \A k \in DOMAIN Chosen : Succeeded(k)

(***************************************************************************)
(* What a build reads for a directory is, for each variable, what -D says, *)
(* else the file nearest to the root that sets it, whichever directories   *)
(* were parsed before and whatever else runs, there or in other build      *)
(* directories (find_config_for_dir, apply_config_overrides).              *)
(***************************************************************************)
Setters(v, d, x) ==
    {k \in 0..Len(d) : LET f == conf[v][SubSeq(d, 1, k)] IN f \notin {None, Broken} /\ f[x] # None}
Reference(v, d, x) ==
    IF request.defines[x] # None THEN request.defines[x]
    ELSE IF Setters(v, d, x) = {} THEN None
    ELSE conf[v][SubSeq(d, 1, CHOOSE k \in Setters(v, d, x) : \A l \in Setters(v, d, x) : k <= l)][x]
RootHasTheLastWord ==
    (request # None /\ request.kind = "build") =>
        \A k \in DOMAIN task : \A d \in DOMAIN task[k].scoped : \A x \in Vars :
            task[k].scoped[d][x] = Reference(Chosen[k], d, x)

(***************************************************************************)
(* A build directory can be built after a configure that succeeded in it,  *)
(* unless a second one of the same command failed to install a file there. *)
(* One that could not be built before can be only if a configure has run   *)
(* all its rules there without a failure and made its empty file, unless a *)
(* file was installed or a rule made one: not after a dry run, nor where   *)
(* each failed or was ended before (ensure_config, the gate of             *)
(* build_context).                                                         *)
(***************************************************************************)
Armed(v) == conf[v][<<>>] # None
Places(v) == {k \in DOMAIN task : Chosen[k] = v}
RanItsRules(k) ==
    /\ task[k].at \in {"made", "done"} /\ task[k].rc = 0 /\ ~task[k].wrong
    /\ task[k].todo = {} /\ <<>> \in DOMAIN task[k].scoped
\* A run that had a file to install and failed before it read one may have taken it along.
MayHaveDropped(k) ==
    /\ request.install # None /\ task[k].at = "done" /\ task[k].rc = 1 /\ DOMAIN task[k].scoped = {}
ConfigureOpensTheGate ==
    (request # None /\ request.kind = "configure") =>
        \A k \in DOMAIN task :
            /\ (Succeeded(k) /\ ~request.dry) =>
                   (Armed(Chosen[k]) \/ \E l \in Places(Chosen[k]) : MayHaveDropped(l))
            /\ (task[k].before = None /\ request.install = None /\ (request.dry \/ <<>> \notin request.rules)) =>
                   (Armed(Chosen[k]) => ~request.dry /\ \E l \in Places(Chosen[k]) : RanItsRules(l))
=============================================================================
