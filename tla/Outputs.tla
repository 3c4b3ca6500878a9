------------------------------ MODULE Outputs ------------------------------
(***************************************************************************)
(* Who owns a file: what a build in place may overwrite, what it deletes   *)
(* because no rule makes it any more, what clean and distclean remove, and *)
(* what the record says of it all (src/src/cli/cmd_build.cpp,              *)
(* src/src/cli/cmd_clean.cpp).                                             *)
(*                                                                         *)
(* A file is the user's or putup's.  The program cannot see which: it has  *)
(* the record, which names each path as a source, as generated, or as a    *)
(* ghost, a path some rule spoke of and none made.                         *)
(***************************************************************************)
EXTENDS Naturals, FiniteSets

CONSTANTS
    Paths, Dirs,
    DirOf,      \* the directory of a path
    Rules,      \* the rules a Tupfile may hold: [dir, ins, outs]
    Writable,   \* the paths the user writes to
    Refusals,   \* whether Tupfiles may be refused, and builds keep going
    Scopes      \* the sets of directories a build may be given

\* A rule writes where it likes below the root, in its own directory or not.
ASSUME OutputsAssumption ==
    /\ DirOf \in [Paths -> Dirs]
    /\ \A r \in Rules : r.dir \in Dirs /\ r.ins \subseteq Paths /\ r.outs \subseteq Paths
    /\ Scopes \subseteq SUBSET Dirs

VARIABLES
    disk,       \* whose file is at a path: "none", "user", "putup"
    branch,     \* of a rule: "absent", "off" (in a branch not taken), "on"
    tupfile,    \* of a directory: "good", "bad" (does not parse), "none"
    record,     \* what .pup/index says
    run,        \* the build under way
    outcome,    \* how the last command ended
    untracked   \* putup's files whose last writer is in no record, or in none any more

vars == <<disk, branch, tupfile, record, run, outcome, untracked>>
project == <<branch, tupfile>>

Kinds == {"none", "lost", "known"}
Types == {"none", "source", "generated", "ghost"}
NoRecord == [kind |-> "none", type |-> [p \in Paths |-> "none"], cmds |-> {}]
Idle == [phase |-> "idle", scope |-> Dirs, stale |-> {}, todo |-> {}]

Recorded(type) == {p \in Paths : record.type[p] = type}

\* What a record names as generated, and by which of its commands.
Named(rec) == {p \in Paths : rec.type[p] = "generated" /\ \E r \in rec.cmds : p \in r.outs}

\* One owner for a path among the rules of every branch.
Sound(b) == \A r, q \in Rules : r # q /\ b[r] # "absent" /\ b[q] # "absent" => r.outs \cap q.outs = {}
-----------------------------------------------------------------------------
(***************************************************************************)
(* What a build knows once it has parsed.                                  *)
(***************************************************************************)
Available == {d \in Dirs : tupfile[d] # "none"}
Parsed(scope) == {d \in scope : tupfile[d] = "good"}
RulesIn(scope, state) == {r \in Rules : r.dir \in Parsed(scope) /\ branch[r] = state}
Made(scope) == UNION {r.outs : r \in RulesIn(scope, "on")}

\* Parsed, or deleted with its rules; a directory out of scope, or refused, is neither.
Authoritative(scope, d) == d \in Parsed(scope) \/ (d \in scope /\ d \notin Available)

\* What the last record calls generated, of the directories this build leaves alone.
PriorGenerated(scope) ==
    IF record.kind = "none" THEN {} ELSE {p \in Recorded("generated") : DirOf[p] \notin scope}

\* What a path is in the graph; "none" for one no parsed rule speaks of.
NodeType(scope, p) ==
    IF p \in Made(scope) THEN "generated"
    ELSE IF \E r \in RulesIn(scope, "on") : p \in r.ins
    THEN IF p \in PriorGenerated(scope) \/ disk[p] = "none" THEN "ghost" ELSE "source"
    ELSE IF \E r \in RulesIn(scope, "off") : p \in r.outs THEN "ghost" ELSE "none"

\* An output over a file that the record calls a source, or nobody's; without a
\* record, over any file.
Shadowed(scope) ==
    {p \in Made(scope) :
        /\ disk[p] # "none"
        /\ record.kind = "known" => p \in Recorded("source") \cup Recorded("ghost")}

\* A declared input that no rule makes and the disk does not have.
Unresolved(scope) ==
    {p \in Paths : /\ NodeType(scope, p) = "ghost" /\ disk[p] = "none"
                   /\ \E r \in RulesIn(scope, "on") : p \in r.ins}

\* A recorded command is known by the outputs the record gives it.
OutputsOf(r) == r.outs \cap Recorded("generated")
Joined(scope, r) == OutputsOf(r) \cap Made(scope) # {}
Retired(scope) ==
    {r \in record.cmds : Authoritative(scope, r.dir) /\ ~Joined(scope, r)}

\* Mutant: an output is stale if its command is gone.
StaleOfRetired(scope) == UNION {OutputsOf(r) : r \in Retired(scope)}
\* Outputs of recorded commands that no live command makes.
Stale(scope) ==
    (UNION {OutputsOf(r) : r \in {q \in record.cmds : Authoritative(scope, q.dir)}}) \ Made(scope)

\* Commands the record does not know, and those whose outputs are not there.
New(scope) ==
    {r \in RulesIn(scope, "on") :
        \/ record.kind # "known"
        \/ \E p \in r.outs : disk[p] = "none"
        \/ \A q \in record.cmds : OutputsOf(q) \cap r.outs = {}}
-----------------------------------------------------------------------------
(***************************************************************************)
(* The record a build leaves.                                              *)
(***************************************************************************)
\* Mutant: the record describes what was parsed.
MergedNone(scope) == {}
\* Commands of the directories this build knows nothing of are carried over.
Merged(scope) ==
    {r \in record.cmds : ~Authoritative(scope, r.dir) /\ ~Joined(scope, r)}

\* Mutant: a path is what the graph calls it.
SavedTypeOfNode(scope, p) == IF NodeType(scope, p) # "none" THEN NodeType(scope, p) ELSE record.type[p]
SavedType(scope, p) ==
    LET node == NodeType(scope, p) IN
    IF node = "ghost" /\ p \in PriorGenerated(scope) THEN "generated"
    ELSE IF node # "none" THEN node
    ELSE IF \E r \in Merged(scope) : p \in r.ins \cup r.outs THEN record.type[p] ELSE "none"

Saved(scope) ==
    [kind |-> "known", type |-> [p \in Paths |-> SavedType(scope, p)],
     cmds |-> RulesIn(scope, "on") \cup Merged(scope)]

\* Files of putup that this record takes the name from: of a refused directory; of
\* a command outside the scope that writes into the scope; of one that the scope's
\* rules took another output from.
Forsaken(scope) ==
    {p \in Named(record) \ Named(Saved(scope)) :
        /\ disk[p] = "putup"
        /\ \E r \in record.cmds :
              /\ p \in r.outs
              /\ \/ r.dir \in scope /\ tupfile[r.dir] = "bad"
                 \/ r.dir \notin scope /\ (DirOf[p] \in scope \/ Joined(scope, r))}
-----------------------------------------------------------------------------
Init ==
    /\ disk = [p \in Paths |-> IF p \in Writable /\ \A r \in Rules : p \notin r.outs
                               THEN "user" ELSE "none"]
    /\ branch = [r \in Rules |-> "absent"]
    /\ tupfile = [d \in Dirs |-> "good"]
    /\ record = NoRecord
    /\ run = Idle
    /\ outcome = "none"
    /\ untracked = {}

\* The user edits a rule, a Tupfile, a file.  What putup says it made, or what it
\* left behind, the user does not write over.
EditRule ==
    /\ run = Idle
    /\ \E r \in Rules, b \in {"absent", "off", "on"} :
          b # branch[r] /\ branch' = [branch EXCEPT ![r] = b]
    /\ Sound(branch')
    /\ outcome' = "none"
    /\ UNCHANGED <<disk, tupfile, record, run, untracked>>

EditTupfile ==
    /\ run = Idle
    /\ \E d \in Dirs, t \in {"good", "none"} \cup (IF Refusals THEN {"bad"} ELSE {}) :
          t # tupfile[d] /\ tupfile' = [tupfile EXCEPT ![d] = t]
    /\ outcome' = "none"
    /\ UNCHANGED <<disk, branch, record, run, untracked>>

WriteFile ==
    /\ run = Idle
    /\ \E p \in Writable \ (Recorded("generated") \cup untracked) :
          disk[p] = "none" /\ disk' = [disk EXCEPT ![p] = "user"]
    /\ outcome' = "none"
    /\ UNCHANGED <<project, record, run, untracked>>

DeleteFile ==
    /\ run = Idle
    /\ \E p \in Paths : disk[p] # "none" /\ disk' = [disk EXCEPT ![p] = "none"]
                        /\ untracked' = untracked \ {p}
    /\ outcome' = "none"
    /\ UNCHANGED <<project, record, run>>

\* The record is damaged beyond reading.
LoseRecord ==
    /\ run = Idle /\ record.kind = "known"
    /\ record' = [NoRecord EXCEPT !.kind = "lost"]
    /\ untracked' = untracked \cup {p \in Paths : disk[p] = "putup"}
    /\ outcome' = "none"
    /\ UNCHANGED <<disk, project, run>>

User == EditRule \/ EditTupfile \/ WriteFile \/ DeleteFile \/ LoseRecord

Fails(how) ==
    /\ run' = Idle /\ outcome' = how
    /\ UNCHANGED <<disk, project, record, untracked>>

\* A Tupfile that does not parse ends the build, unless it keeps going.
Start ==
    /\ run = Idle
    /\ \E scope \in Scopes :
          IF Shadowed(scope) # {} THEN Fails("shadowed")
          ELSE IF Unresolved(scope) # {} THEN Fails("unresolved")
          ELSE /\ run' = [phase |-> "stale", scope |-> scope, todo |-> {},
                          stale |-> {p \in Stale(scope) : disk[p] # "none"}]
               /\ outcome' = "none"
               /\ UNCHANGED <<disk, project, record, untracked>>

RemoveStale ==
    /\ run.phase = "stale" /\ run.stale # {}
    /\ \/ \E p \in run.stale : /\ disk' = [disk EXCEPT ![p] = "none"]
                               /\ run' = [run EXCEPT !.stale = @ \ {p}]
                               /\ untracked' = untracked \ {p}
          /\ UNCHANGED <<project, record, outcome>>
       \/ Fails("undeletable")

Done == IF Parsed(run.scope) = Available /\ run.scope = Dirs THEN "complete" ELSE "partial"
Leave == run' = Idle /\ outcome' = Done /\ UNCHANGED <<disk, project, record, untracked>>

\* Changes elsewhere may make any command run; with nothing to run and nothing
\* retired the record may be left as it is.
Select ==
    /\ run.phase = "stale" /\ run.stale = {}
    /\ \/ \E also \in SUBSET RulesIn(run.scope, "on") :
             run' = [run EXCEPT !.phase = "run", !.todo = New(run.scope) \cup also]
          /\ UNCHANGED <<disk, project, record, outcome, untracked>>
       \/ record.kind = "known" /\ New(run.scope) = {} /\ Retired(run.scope) = {} /\ Leave

\* A command writes its outputs, or some of them and fails, which ends the build.
Writes(paths) ==
    /\ disk' = [p \in Paths |-> IF p \in paths THEN "putup" ELSE disk[p]]
    /\ untracked' = untracked \cup paths
RunCommand ==
    /\ run.phase = "run"
    /\ \E r \in run.todo :
          /\ \A q \in run.todo : q.outs \cap r.ins = {}
          /\ \/ Writes(r.outs) /\ run' = [run EXCEPT !.todo = @ \ {r}] /\ UNCHANGED outcome
             \/ /\ \E some \in SUBSET r.outs : Writes(some)
                /\ run' = [run EXCEPT !.todo = {}] /\ outcome' = "failed"
    /\ UNCHANGED <<project, record>>

\* The record replaces the old one, or cannot be saved.
Save ==
    /\ run.phase = "run" /\ run.todo = {}
    /\ \/ /\ record' = Saved(run.scope)
          /\ untracked' = (untracked \ Named(Saved(run.scope))) \cup Forsaken(run.scope)
          /\ outcome' = IF outcome = "failed" THEN "failed" ELSE Done
       \/ outcome' = "unsaved" /\ UNCHANGED <<record, untracked>>
    /\ run' = Idle
    /\ UNCHANGED <<disk, project>>

Crash == run # Idle /\ Fails("crashed")

\* clean and distclean remove what a readable record calls generated; some files
\* may not go.
\* Mutant: what the record lists is removed.
RemovedListed(left) ==
    disk' = [p \in Paths |-> IF record.type[p] # "none" /\ p \notin left THEN "none" ELSE disk[p]]
Removed(left) ==
    disk' = [p \in Paths |-> IF p \in Recorded("generated") \ left THEN "none" ELSE disk[p]]
Survivors == {p \in Recorded("generated") : disk'[p] # "none"}

Clean ==
    /\ run = Idle /\ record.kind # "none"
    /\ IF record.kind = "lost" THEN Fails("unreadable")
       ELSE \E left \in SUBSET Recorded("generated") :
               /\ Removed(left)
               /\ untracked' = {p \in untracked : disk'[p] # "none"}
               /\ outcome' = IF Survivors = {} THEN "clean" ELSE "incomplete"
               /\ UNCHANGED <<project, record, run>>

Distclean ==
    /\ run = Idle /\ record.kind # "none"
    /\ IF record.kind = "lost" THEN Fails("unreadable")
       ELSE /\ \E left \in SUBSET Recorded("generated") : Removed(left)
            /\ record' = IF Survivors = {} THEN NoRecord ELSE record
            /\ untracked' = {p \in untracked : disk'[p] # "none"}
            /\ outcome' = IF Survivors = {} THEN "reset" ELSE "incomplete"
            /\ UNCHANGED <<project, run>>

Putup == Start \/ RemoveStale \/ Select \/ RunCommand \/ Save \/ Crash \/ Clean \/ Distclean
Next == User \/ Putup
Spec == Init /\ [][Next]_vars
-----------------------------------------------------------------------------
(***************************************************************************)
(* Properties.                                                             *)
(***************************************************************************)
\* A file of putup is named as generated by the record, unless what wrote it last
\* is not recorded yet, the record was lost, or a build forsook it: nothing else a
\* build, a clean or a reset leaves behind becomes nobody's.
OwnedIsNamed == \A p \in Paths : disk[p] = "putup" => p \in Recorded("generated") \cup untracked

\* After a full build that succeeded the tree holds no output of a rule that is gone.
NothingStale ==
    outcome = "complete" =>
        \A p \in Paths : disk[p] = "putup" => p \in Made(Dirs) \cup untracked

\* A build is refused for the sake of a file the user wrote, or of one whose maker
\* no record names; never for an output a record named.
RefusedForCause ==
    outcome = "shadowed" =>
        \E scope \in Scopes, p \in Paths : p \in Made(scope) /\ (disk[p] = "user" \/ p \in untracked)

\* Whose a file is, is known, and acted upon: what putup left in the tree is named
\* by the record, no output of a rule that is gone outlives a full build, and no
\* build is refused over an output a record named (serialize_graph_nodes,
\* merge_out_of_scope_commands, remove_stale_outputs, reject_shadowed_sources).
FilesAreOwned == OwnedIsNamed /\ NothingStale /\ RefusedForCause

\* No build, clean or distclean takes a file of the user that no rule can make;
\* nor one that a rule makes, if no record can be read or the record calls it a
\* source or a ghost (reject_shadowed_sources, remove_generated_files).
Claimed == UNION {r.outs : r \in Rules}
Guarded(p) ==
    p \notin Claimed \/ record.kind # "known" \/ p \in Recorded("source") \cup Recorded("ghost")
KeepsSources == User \/ \A p \in Paths : disk[p] = "user" /\ Guarded(p) => disk'[p] = "user"
SourcesSurvive == [][KeepsSources]_vars

\* The same whatever the record says (REQ-PROTECT-RECORD-INDEPENDENT).
KeepsUserFiles == User \/ \A p \in Paths : disk[p] = "user" => disk'[p] = "user"
UserFilesSurvive == [][KeepsUserFiles]_vars
=============================================================================
