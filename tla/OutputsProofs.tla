--------------------------- MODULE OutputsProofs ---------------------------
(***************************************************************************)
(* Whose a file is, proved for every set of paths, directories, rules and  *)
(* scopes, and every history of edits, builds, failures, lost records,     *)
(* cleans and resets.                                                      *)
(***************************************************************************)
EXTENDS Outputs, TLAPS

(***************************************************************************)
(* The inductive invariant.  A file of putup is named, with the command    *)
(* that made it, or waits to be; a build knows what is stale until it is   *)
(* gone, and writes over nothing the record calls a source.                *)
(***************************************************************************)
TypeOK ==
    /\ disk \in [Paths -> {"none", "user", "putup"}]
    /\ branch \in [Rules -> {"absent", "off", "on"}]
    /\ tupfile \in [Dirs -> {"good", "bad", "none"}]
    /\ record \in [kind : Kinds, type : [Paths -> Types], cmds : SUBSET Rules]
    /\ run \in [phase : {"idle", "stale", "run"}, scope : SUBSET Dirs, stale : SUBSET Paths, todo : SUBSET Rules]
    /\ untracked \subseteq Paths

RecordRight ==
    /\ record.kind # "known" => record.cmds = {} /\ \A p \in Paths : record.type[p] = "none"
    /\ Recorded("generated") \subseteq Claimed

NamedOrPending == \A p \in Paths : disk[p] = "putup" => p \in Named(record) \cup untracked

RunRight ==
    /\ run # Idle =>
        /\ run.scope \in Scopes
        /\ outcome \in {"none", "failed"}
        /\ \A p \in Made(run.scope) : disk[p] = "user" => ~Guarded(p)
    /\ run.phase = "stale" =>
        /\ run.stale \subseteq Stale(run.scope)
        /\ \A p \in Stale(run.scope) : disk[p] # "none" => p \in run.stale
    /\ run.phase = "run" =>
        /\ run.todo \subseteq RulesIn(run.scope, "on")
        /\ \A p \in Stale(run.scope) : disk[p] = "none"

OInv == TypeOK /\ RecordRight /\ NamedOrPending /\ RunRight /\ NothingStale /\ RefusedForCause
-----------------------------------------------------------------------------
(***************************************************************************)
(* What a record says, and what becomes of it.                             *)
(***************************************************************************)
\* A parsed rule's outputs are somebody's.
LEMMA MadeIsClaimed ==
    ASSUME NEW scope
    PROVE  Made(scope) \subseteq Claimed
BY DEF Made, RulesIn, Claimed

\* What a build deletes as stale the record calls generated.
LEMMA StaleIsGenerated ==
    ASSUME NEW scope
    PROVE  Stale(scope) \subseteq Recorded("generated")
BY DEF Stale, OutputsOf

\* An output the record names is stale or made again, unless the build knows nothing
\* of the directory of its rule.
LEMMA StaleOrMade ==
    ASSUME NEW scope, NEW r \in record.cmds, NEW p \in Paths,
           record.type[p] = "generated", p \in r.outs, Authoritative(scope, r.dir)
    PROVE  p \in Stale(scope) \cup Made(scope)
BY DEF Stale, OutputsOf, Recorded

\* What is saved has the shape of a record.
LEMMA SavedIsRecord ==
    ASSUME TypeOK, NEW scope
    PROVE  Saved(scope) \in [kind : Kinds, type : [Paths -> Types], cmds : SUBSET Rules]
<1>1. \A p \in Paths : NodeType(scope, p) \in Types
  BY DEF NodeType, Types
<1>2. \A p \in Paths : record.type[p] \in Types
  BY DEF TypeOK
<1>3. \A p \in Paths : SavedType(scope, p) \in Types
  BY <1>1, <1>2 DEF SavedType, Types
<1>4. RulesIn(scope, "on") \cup Merged(scope) \subseteq Rules
  BY DEF RulesIn, Merged, TypeOK
<1> QED
  BY <1>3, <1>4 DEF Saved, Kinds

\* It names what was made.
LEMMA MadeIsNamed ==
    ASSUME NEW scope, NEW p \in Paths, p \in Made(scope)
    PROVE  p \in Named(Saved(scope))
<1>1. NodeType(scope, p) = "generated"
  BY DEF NodeType
<1>2. SavedType(scope, p) = "generated"
  BY <1>1 DEF SavedType
<1>3. PICK r \in RulesIn(scope, "on") : p \in r.outs
  BY DEF Made
<1> QED
  BY <1>2, <1>3 DEF Named, Saved

\* It calls generated what was made, or what the last record did.
LEMMA SavedIsClaimed ==
    ASSUME RecordRight, NEW scope, NEW p \in Paths, SavedType(scope, p) = "generated"
    PROVE  p \in Made(scope) \cup Recorded("generated")
<1>1. CASE NodeType(scope, p) = "generated"
  <2>1. p \in Made(scope)
    BY <1>1 DEF NodeType
  <2> QED
    BY <2>1
<1>2. CASE NodeType(scope, p) = "ghost" /\ p \in PriorGenerated(scope)
  BY <1>2 DEF PriorGenerated
<1>3. CASE NodeType(scope, p) = "none"
  <2>1. record.type[p] = "generated"
    BY <1>3 DEF SavedType
  <2> QED
    BY <2>1 DEF Recorded
<1> QED
  BY <1>1, <1>2, <1>3 DEF SavedType

\* A file a record named is named by the next one, or forsaken, once what is stale is gone.
LEMMA NamedOrForsaken ==
    ASSUME TypeOK, RecordRight, NEW scope \in Scopes, \A p \in Stale(scope) : disk[p] = "none",
           NEW p \in Paths, disk[p] = "putup", p \in Named(record), p \notin Forsaken(scope)
    PROVE  p \in Named(Saved(scope))
<1> SUFFICES ASSUME p \notin Named(Saved(scope))
             PROVE  FALSE
  OBVIOUS
<1>1. PICK r \in record.cmds : p \in r.outs /\ record.type[p] = "generated"
  BY DEF Named
<1>2. p \notin Made(scope)
  BY MadeIsNamed
<1>3. p \notin Stale(scope)
  OBVIOUS
<1>4. ~Authoritative(scope, r.dir)
  BY <1>1, <1>2, <1>3, StaleOrMade
<1>5. r \in Rules /\ r.dir \in Dirs
  BY OutputsAssumption DEF TypeOK
<1>6. r.dir \notin scope
  <2>1. r.dir \in scope => tupfile[r.dir] = "bad"
    BY <1>4, <1>5 DEF Authoritative, Parsed, Available, TypeOK
  <2> QED
    BY <1>1, <2>1 DEF Forsaken
<1>7. DirOf[p] \notin scope /\ ~Joined(scope, r)
  BY <1>1, <1>6 DEF Forsaken
<1>8. r \in Merged(scope)
  BY <1>4, <1>7 DEF Merged
<1>9. p \in PriorGenerated(scope)
  <2>1. record.kind # "none"
    BY <1>1 DEF RecordRight
  <2> QED
    BY <1>1, <1>7, <2>1 DEF PriorGenerated, Recorded
<1>10. NodeType(scope, p) \in {"ghost", "none"}
  BY <1>2, <1>9 DEF NodeType
<1>11. SavedType(scope, p) = "generated"
  <2>1. CASE NodeType(scope, p) = "ghost"
    BY <1>9, <2>1 DEF SavedType
  <2>2. CASE NodeType(scope, p) = "none"
    BY <1>1, <1>8, <2>2 DEF SavedType
  <2> QED
    BY <1>10, <2>1, <2>2
<1> QED
  BY <1>1, <1>8, <1>11 DEF Named, Saved

\* Nothing is forsaken where every Tupfile is read and every rule of a scope writes there.
LEMMA NothingIsForsaken ==
    ASSUME TypeOK, NEW scope \in Scopes,
           \A d \in scope : tupfile[d] # "bad",
           \A r \in Rules, p \in Paths : p \in r.outs => (DirOf[p] \in scope <=> r.dir \in scope)
    PROVE  Forsaken(scope) = {}
<1> SUFFICES ASSUME NEW p \in Forsaken(scope)
             PROVE  FALSE
  OBVIOUS
<1> PICK r \in record.cmds : /\ p \in r.outs
                           /\ \/ r.dir \in scope /\ tupfile[r.dir] = "bad"
                              \/ r.dir \notin scope /\ (DirOf[p] \in scope \/ Joined(scope, r))
  BY DEF Forsaken
<1>0. p \in Paths /\ r \in Rules /\ r.dir \notin scope /\ Joined(scope, r)
  BY DEF Forsaken, Named, TypeOK
<1>1. PICK x \in OutputsOf(r) : x \in Made(scope)
  BY <1>0 DEF Joined
<1>2. PICK q \in RulesIn(scope, "on") : x \in q.outs
  BY <1>1 DEF Made
<1>3. q \in Rules /\ q.dir \in scope
  BY DEF RulesIn, Parsed
<1>4. r \in Rules /\ x \in r.outs /\ x \in Paths
  BY <1>0, OutputsAssumption DEF OutputsOf
<1> QED
  BY <1>0, <1>2, <1>3, <1>4
-----------------------------------------------------------------------------
(***************************************************************************)
(* What the steps keep.                                                    *)
(***************************************************************************)
\* What a build has read stays while it runs.
LEMMA SameView ==
    ASSUME UNCHANGED <<project, record>>, NEW scope, NEW state
    PROVE  /\ Parsed(scope)' = Parsed(scope)
           /\ RulesIn(scope, state)' = RulesIn(scope, state)
           /\ Made(scope)' = Made(scope)
           /\ Stale(scope)' = Stale(scope)
<1>1. branch' = branch /\ tupfile' = tupfile /\ record' = record
  BY DEF project
<1>2. Parsed(scope)' = Parsed(scope) /\ Available' = Available
  BY <1>1 DEF Parsed, Available
<1>3. \A st : RulesIn(scope, st)' = RulesIn(scope, st)
  BY <1>1 DEF RulesIn, Parsed
<1>4. Made(scope)' = Made(scope)
  BY <1>1 DEF Made, RulesIn, Parsed
<1>5. Stale(scope)' = Stale(scope)
  BY <1>1 DEF Stale, OutputsOf, Recorded, Authoritative, Parsed, Available, Made, RulesIn
<1> QED
  BY <1>2, <1>3, <1>4, <1>5

\* Without a build under way nothing is asked of one.
LEMMA AtRest ==
    ASSUME run' = Idle
    PROVE  RunRight'
BY DEF RunRight, Idle

\* A verdict is asked for only where it is given.
LEMMA NoVerdict ==
    ASSUME outcome' \notin {"complete", "shadowed"}
    PROVE  NothingStale' /\ RefusedForCause'
BY DEF NothingStale, RefusedForCause

\* The record speaks for the same files.
LEMMA SameRecord ==
    ASSUME RecordRight, record' = record
    PROVE  RecordRight' /\ Named(record)' = Named(record) /\ Recorded("generated")' = Recorded("generated")
BY DEF RecordRight, Named, Recorded

\* A build that ends with nothing done leaves all as it was.
LEMMA FailureKeeps ==
    ASSUME OInv, NEW how, how \notin {"complete", "shadowed"}, Fails(how)
    PROVE  OInv'
<1>1. TypeOK' /\ NamedOrPending'
  BY DEF OInv, TypeOK, NamedOrPending, Named, Fails, Idle, project
<1>2. RecordRight'
  BY SameRecord DEF OInv, Fails
<1> QED
  BY <1>1, <1>2, AtRest, NoVerdict DEF OInv, Fails

LEMMA FirstRight ==
    ASSUME Init
    PROVE  OInv
<1>1. TypeOK
  BY DEF Init, TypeOK, NoRecord, Idle, Kinds, Types
<1>2. RecordRight /\ NamedOrPending
  BY DEF Init, RecordRight, NamedOrPending, NoRecord, Recorded
<1>3. RunRight
  BY DEF Init, RunRight, Idle
<1>4. NothingStale /\ RefusedForCause
  BY DEF Init, NothingStale, RefusedForCause
<1> QED
  BY <1>1, <1>2, <1>3, <1>4 DEF OInv

\* What the user does between two commands keeps the invariant.
LEMMA UserKeeps ==
    ASSUME OInv, User
    PROVE  OInv'
<1>1. run = Idle /\ run' = Idle /\ outcome' = "none"
  BY DEF User, EditRule, EditTupfile, WriteFile, DeleteFile, LoseRecord
<1>2. RunRight' /\ NothingStale' /\ RefusedForCause'
  BY <1>1, AtRest, NoVerdict
<1>3. ASSUME EditRule \/ EditTupfile PROVE TypeOK' /\ RecordRight' /\ NamedOrPending'
  <2>1. UNCHANGED <<disk, record, run, untracked>>
    BY <1>3 DEF EditRule, EditTupfile
  <2>2. branch' \in [Rules -> {"absent", "off", "on"}] /\ tupfile' \in [Dirs -> {"good", "bad", "none"}]
    BY <1>3 DEF EditRule, EditTupfile, OInv, TypeOK
  <2> QED
    BY <2>1, <2>2, SameRecord DEF OInv, TypeOK, NamedOrPending
<1>4. ASSUME WriteFile \/ DeleteFile PROVE TypeOK' /\ RecordRight' /\ NamedOrPending'
  <2>1. UNCHANGED <<branch, tupfile, record, run>>
    BY <1>4 DEF WriteFile, DeleteFile, project
  <2>2. /\ disk' \in [Paths -> {"none", "user", "putup"}]
        /\ untracked' \subseteq Paths
        /\ \A p \in Paths : disk'[p] = "putup" => disk[p] = "putup" /\ (p \in untracked => p \in untracked')
    BY <1>4 DEF WriteFile, DeleteFile, OInv, TypeOK
  <2> QED
    BY <2>1, <2>2, SameRecord DEF OInv, TypeOK, NamedOrPending
<1>5. ASSUME LoseRecord PROVE TypeOK' /\ RecordRight' /\ NamedOrPending'
  <2>1. record' = [kind |-> "lost", type |-> [p \in Paths |-> "none"], cmds |-> {}]
    BY <1>5 DEF LoseRecord, NoRecord
  <2>2. TypeOK'
    <3>1. record' \in [kind : Kinds, type : [Paths -> Types], cmds : SUBSET Rules]
      BY <2>1 DEF Kinds, Types
    <3>2. UNCHANGED <<disk, branch, tupfile, run>> /\ untracked' \subseteq Paths
      BY <1>5 DEF LoseRecord, OInv, TypeOK, project
    <3> QED
      BY <3>1, <3>2 DEF OInv, TypeOK
  <2>3. RecordRight'
    BY <2>1 DEF RecordRight, Recorded
  <2>4. NamedOrPending'
    BY <1>5 DEF LoseRecord, NamedOrPending, OInv, TypeOK
  <2> QED
    BY <2>2, <2>3, <2>4
<1> QED
  BY <1>2, <1>3, <1>4, <1>5 DEF User, OInv

\* A build that starts knows what is stale, and makes nothing over a file the
\* record calls a source; one that is refused names its cause.
LEMMA StartKeeps ==
    ASSUME OInv, Start
    PROVE  OInv'
<1> PICK scope \in Scopes :
          IF Shadowed(scope) # {} THEN Fails("shadowed")
          ELSE IF Unresolved(scope) # {} THEN Fails("unresolved")
          ELSE /\ run' = [phase |-> "stale", scope |-> scope, todo |-> {},
                          stale |-> {p \in Stale(scope) : disk[p] # "none"}]
               /\ outcome' = "none"
               /\ UNCHANGED <<disk, project, record, untracked>>
  BY DEF Start
<1>1. CASE Shadowed(scope) # {}
  <2>1. Fails("shadowed")
    BY <1>1
  <2>2. TypeOK' /\ NamedOrPending'
    BY <2>1 DEF OInv, TypeOK, NamedOrPending, Named, Fails, Idle, project
  <2>3. RecordRight' /\ RunRight'
    BY <2>1, SameRecord, AtRest DEF OInv, Fails
  <2>4. NothingStale'
    BY <2>1 DEF NothingStale, Fails
  <2>5. RefusedForCause'
    <3>1. PICK p \in Made(scope) :
              disk[p] # "none" /\ (record.kind = "known" => p \in Recorded("source") \cup Recorded("ghost"))
      BY <1>1 DEF Shadowed
    <3>2. p \in Paths
      BY OutputsAssumption DEF Made, RulesIn
    <3>3. disk[p] = "user" \/ p \in untracked
      BY <3>1, <3>2 DEF OInv, TypeOK, NamedOrPending, RecordRight, Named, Recorded
    <3>4. Made(scope)' = Made(scope)
      BY <2>1, SameView DEF Fails
    <3>5. p \in Made(scope)' /\ (disk'[p] = "user" \/ p \in untracked')
      BY <2>1, <3>3, <3>4 DEF Fails
    <3> QED
      BY <3>2, <3>5 DEF RefusedForCause
  <2> QED
    BY <2>2, <2>3, <2>4, <2>5 DEF OInv
<1>2. CASE Shadowed(scope) = {} /\ Unresolved(scope) # {}
  BY <1>2, FailureKeeps
<1>3. CASE Shadowed(scope) = {} /\ Unresolved(scope) = {}
  <2>1. /\ run' = [phase |-> "stale", scope |-> scope, todo |-> {},
                   stale |-> {p \in Stale(scope) : disk[p] # "none"}]
        /\ outcome' = "none"
        /\ UNCHANGED <<disk, project, record, untracked>>
    BY <1>3
  <2>2. Stale(scope) \subseteq Paths /\ scope \subseteq Dirs
    BY StaleIsGenerated, OutputsAssumption DEF Recorded
  <2>3. TypeOK' /\ NamedOrPending'
    BY <2>1, <2>2 DEF OInv, TypeOK, NamedOrPending, Named, project
  <2>4. RecordRight'
    BY <2>1, SameRecord DEF OInv
  <2>5. Made(scope)' = Made(scope) /\ Stale(scope)' = Stale(scope)
    BY <2>1, SameView
  <2>6. \A p \in Made(scope) : disk[p] = "user" => ~Guarded(p)
    BY <1>3, MadeIsClaimed DEF Shadowed, Guarded
  <2>7. RunRight'
    BY <2>1, <2>5, <2>6 DEF RunRight, Guarded, Recorded
  <2> QED
    BY <2>1, <2>3, <2>4, <2>7, NoVerdict DEF OInv
<1> QED
  BY <1>1, <1>2, <1>3

\* A stale file goes, and is remembered as gone.
LEMMA RemoveStaleKeeps ==
    ASSUME OInv, RemoveStale
    PROVE  OInv'
<1>1. CASE Fails("undeletable")
  BY <1>1, FailureKeeps
<1>2. CASE /\ \E p \in run.stale : /\ disk' = [disk EXCEPT ![p] = "none"]
                                  /\ run' = [run EXCEPT !.stale = @ \ {p}]
                                  /\ untracked' = untracked \ {p}
           /\ UNCHANGED <<project, record, outcome>>
  <2> PICK scope : scope = run.scope
    OBVIOUS
  <2>0. run.phase = "stale" /\ run # Idle
    BY DEF RemoveStale, Idle
  <2>1. PICK p \in run.stale : /\ disk' = [disk EXCEPT ![p] = "none"]
                               /\ run' = [run EXCEPT !.stale = @ \ {p}]
                               /\ untracked' = untracked \ {p}
    BY <1>2
  <2>2. TypeOK' /\ NamedOrPending'
    BY <1>2, <2>1 DEF OInv, TypeOK, NamedOrPending, Named, project
  <2>3. RecordRight'
    BY <1>2, SameRecord DEF OInv
  <2>4. Made(scope)' = Made(scope) /\ Stale(scope)' = Stale(scope)
    BY <1>2, SameView
  <2>5. run'.scope = scope /\ run'.phase = "stale" /\ run'.stale = run.stale \ {p}
    BY <2>0, <2>1 DEF OInv, TypeOK
  <2>6. Stale(scope) \subseteq Paths /\ Made(scope) \subseteq Paths
    BY StaleIsGenerated, OutputsAssumption DEF Recorded, Made, RulesIn
  <2>7. /\ scope \in Scopes
        /\ outcome' \in {"none", "failed"}
        /\ \A x \in Made(scope) : disk'[x] = "user" => ~Guarded(x)
        /\ run'.stale \subseteq Stale(scope)
        /\ \A x \in Stale(scope) : disk'[x] # "none" => x \in run'.stale
    BY <1>2, <2>0, <2>1, <2>5, <2>6 DEF OInv, RunRight, TypeOK
  <2>8. RunRight'
    BY <1>2, <2>4, <2>5, <2>7 DEF RunRight, Guarded, Recorded
  <2> QED
    BY <2>2, <2>3, <2>7, <2>8, NoVerdict DEF OInv
<1> QED
  BY <1>1, <1>2 DEF RemoveStale

\* With nothing to run and nothing retired, all that is left in the tree is made.
LEMMA SelectKeeps ==
    ASSUME OInv, Select
    PROVE  OInv'
<1> PICK scope : scope = run.scope
  OBVIOUS
<1> run.phase = "stale" /\ run.stale = {}
  BY DEF Select
<1>0. run.phase = "stale" /\ run.stale = {} /\ run # Idle
  BY DEF Idle
<1>1. \A p \in Stale(scope) : disk[p] = "none"
  BY <1>0 DEF OInv, RunRight
<1>2. CASE Leave
  <2>1. UNCHANGED <<disk, branch, tupfile, record, untracked>> /\ run' = Idle /\ outcome' = Done
    BY <1>2 DEF Leave, project
  <2>2. TypeOK' /\ NamedOrPending'
    BY <2>1 DEF OInv, TypeOK, NamedOrPending, Named, Idle
  <2>3. RecordRight' /\ RunRight'
    BY <2>1, SameRecord, AtRest DEF OInv
  <2>4. RefusedForCause'
    BY <2>1 DEF RefusedForCause, Done
  <2>5. NothingStale'
    <3> SUFFICES ASSUME Done = "complete", NEW p \in Paths, disk[p] = "putup", p \notin untracked
                 PROVE  p \in Made(Dirs)
      <4>1. Made(Dirs)' = Made(Dirs)
        BY <2>1, SameView DEF project
      <4> QED
        BY <2>1, <4>1 DEF NothingStale
    <3>1. Parsed(Dirs) = Available /\ scope = Dirs
      BY DEF Done
    <3>2. PICK r \in record.cmds : p \in r.outs /\ record.type[p] = "generated"
      BY DEF OInv, NamedOrPending, Named
    <3>3. Authoritative(Dirs, r.dir)
      BY <3>1, OutputsAssumption DEF OInv, TypeOK, Authoritative, Available
    <3>4. p \in Stale(Dirs) \cup Made(Dirs)
      BY <3>2, <3>3, StaleOrMade
    <3> QED
      BY <1>1, <3>1, <3>4
  <2> QED
    BY <2>2, <2>3, <2>4, <2>5 DEF OInv
<1>3. CASE /\ \E also \in SUBSET RulesIn(run.scope, "on") :
                 run' = [run EXCEPT !.phase = "run", !.todo = New(run.scope) \cup also]
           /\ UNCHANGED <<disk, project, record, outcome, untracked>>
  <2>1. PICK also \in SUBSET RulesIn(scope, "on") :
                 run' = [run EXCEPT !.phase = "run", !.todo = New(scope) \cup also]
    BY <1>3
  <2>2. /\ run' = [run EXCEPT !.phase = "run", !.todo = run'.todo]
        /\ run'.scope = scope /\ run'.phase = "run" /\ run'.todo \subseteq RulesIn(scope, "on")
    BY <2>1 DEF OInv, TypeOK, New
  <2>3. TypeOK' /\ NamedOrPending'
    BY <1>3, <2>2 DEF OInv, TypeOK, NamedOrPending, Named, project, RulesIn
  <2>4. RecordRight'
    BY <1>3, SameRecord DEF OInv
  <2>5. Made(scope)' = Made(scope) /\ Stale(scope)' = Stale(scope) /\ RulesIn(scope, "on")' = RulesIn(scope, "on")
    BY <1>3, SameView
  <2>6. /\ scope \in Scopes /\ outcome' \in {"none", "failed"}
        /\ \A x \in Made(scope) : disk[x] = "user" => ~Guarded(x)
    BY <1>0, <1>3 DEF OInv, RunRight
  <2>7. RunRight'
    BY <1>1, <1>3, <2>2, <2>5, <2>6 DEF RunRight, Guarded, Recorded
  <2> QED
    BY <2>3, <2>4, <2>6, <2>7, NoVerdict DEF OInv
<1> QED
  BY <1>2, <1>3 DEF Select

\* What a command writes is putup's, and not yet recorded.
LEMMA RunCommandKeeps ==
    ASSUME OInv, RunCommand
    PROVE  OInv'
<1> PICK scope : scope = run.scope
  OBVIOUS
<1> PICK r \in run.todo :
        \/ Writes(r.outs) /\ run' = [run EXCEPT !.todo = @ \ {r}] /\ UNCHANGED outcome
        \/ /\ \E some \in SUBSET r.outs : Writes(some)
           /\ run' = [run EXCEPT !.todo = {}] /\ outcome' = "failed"
  BY DEF RunCommand
<1>1. PICK paths \in SUBSET r.outs :
          /\ Writes(paths)
          /\ \/ run' = [run EXCEPT !.todo = @ \ {r}] /\ UNCHANGED outcome
             \/ run' = [run EXCEPT !.todo = {}] /\ outcome' = "failed"
  OBVIOUS
<1>2. run.phase = "run" /\ run # Idle /\ UNCHANGED <<project, record>>
  BY DEF RunCommand, Idle
<1>3. /\ run'.scope = scope /\ run'.phase = "run" /\ run'.todo \subseteq run.todo
      /\ run' \in [phase : {"idle", "stale", "run"}, scope : SUBSET Dirs, stale : SUBSET Paths, todo : SUBSET Rules]
  BY <1>1, <1>2 DEF OInv, TypeOK
<1>4. r \in RulesIn(scope, "on") /\ r.outs \subseteq Made(scope) /\ Made(scope) \subseteq Paths
  BY <1>2, OutputsAssumption DEF OInv, RunRight, Made, RulesIn
<1>5. disk' = [p \in Paths |-> IF p \in paths THEN "putup" ELSE disk[p]] /\ untracked' = untracked \cup paths
  BY <1>1 DEF Writes
<1>6. TypeOK' /\ NamedOrPending'
  BY <1>1, <1>2, <1>3, <1>4, <1>5 DEF OInv, TypeOK, NamedOrPending, Named, project
<1>7. RecordRight'
  BY <1>2, SameRecord DEF OInv
<1>8. Made(scope)' = Made(scope) /\ Stale(scope)' = Stale(scope) /\ RulesIn(scope, "on")' = RulesIn(scope, "on")
  BY <1>2, SameView
<1>9. Stale(scope) \subseteq Paths \ Made(scope)
  BY StaleIsGenerated DEF Stale, Recorded
<1>10. /\ scope \in Scopes /\ outcome' \in {"none", "failed"}
       /\ \A x \in Made(scope) : disk'[x] = "user" => ~Guarded(x)
       /\ \A x \in Stale(scope) : disk'[x] = "none"
       /\ run'.todo \subseteq RulesIn(scope, "on")
  BY <1>1, <1>2, <1>3, <1>4, <1>5, <1>9 DEF OInv, RunRight
<1>11. RunRight'
  BY <1>2, <1>3, <1>8, <1>10 DEF RunRight, Guarded, Recorded
<1> QED
  BY <1>6, <1>7, <1>10, <1>11, NoVerdict DEF OInv

\* A full build that read every Tupfile carries no command over.
LEMMA FullBuildDecides ==
    ASSUME TypeOK, Parsed(Dirs) = Available
    PROVE  (\A r \in record.cmds : Authoritative(Dirs, r.dir)) /\ Merged(Dirs) = {}
<1>1. \A r \in record.cmds : Authoritative(Dirs, r.dir)
  BY OutputsAssumption DEF TypeOK, Authoritative, Available
<1> QED
  BY <1>1 DEF Merged

\* The new record names what the old one did, or forsakes it.
LEMMA SaveKeeps ==
    ASSUME OInv, Save
    PROVE  OInv'
<1> PICK scope : scope = run.scope
  OBVIOUS
<1> PICK saved : saved = Saved(scope)
  OBVIOUS
<1>1. run.phase = "run" /\ run # Idle /\ run' = Idle /\ UNCHANGED <<disk, branch, tupfile>>
  BY DEF Save, Idle, project
<1>2. scope \in Scopes /\ \A p \in Stale(scope) : disk[p] = "none"
  BY <1>1 DEF OInv, RunRight
<1>3. CASE outcome' = "unsaved" /\ UNCHANGED <<record, untracked>>
  <2>1. Fails("unsaved")
    BY <1>1, <1>3 DEF Fails, project
  <2> QED
    BY <2>1, FailureKeeps
<1>4. CASE /\ record' = Saved(run.scope)
           /\ untracked' = (untracked \ Named(Saved(run.scope))) \cup Forsaken(run.scope)
           /\ outcome' = IF outcome = "failed" THEN "failed" ELSE Done
  <2>1. record' = saved /\ untracked' = (untracked \ Named(saved)) \cup Forsaken(scope)
    BY <1>4
  <2>2. TypeOK'
    <3>1. saved \in [kind : Kinds, type : [Paths -> Types], cmds : SUBSET Rules]
      BY SavedIsRecord DEF OInv
    <3>2. Forsaken(scope) \subseteq Paths
      BY DEF Forsaken, Named
    <3> QED
      BY <1>1, <2>1, <3>1, <3>2 DEF OInv, TypeOK, Idle
  <2>3. RecordRight'
    <3>1. saved.kind = "known" /\ \A p \in Paths : saved.type[p] = SavedType(scope, p)
      BY DEF Saved
    <3>2. \A p \in Paths : SavedType(scope, p) = "generated" => p \in Claimed
      BY SavedIsClaimed, MadeIsClaimed DEF OInv, RecordRight
    <3> QED
      BY <2>1, <3>1, <3>2 DEF RecordRight, Recorded
  <2>4. NamedOrPending'
    <3>1. \A p \in Paths : disk[p] = "putup" => p \in Named(saved) \cup untracked'
      BY <1>2, <2>1, NamedOrForsaken DEF OInv, NamedOrPending
    <3> QED
      BY <1>1, <2>1, <3>1 DEF NamedOrPending, Named
  <2>5. RefusedForCause'
    BY <1>1, <1>4 DEF RefusedForCause, OInv, RunRight, Done
  <2>6. NothingStale'
    <3> SUFFICES ASSUME Done = "complete", NEW p \in Paths, disk[p] = "putup", p \notin untracked'
                 PROVE  p \in Made(Dirs)
      <4>1. Made(Dirs)' = Made(Dirs)
        BY <1>1 DEF Made, RulesIn, Parsed
      <4> QED
        BY <1>1, <1>4, <4>1 DEF NothingStale
    <3>1. Parsed(Dirs) = Available /\ scope = Dirs
      BY DEF Done
    <3>2. p \in Named(saved)
      BY <2>1, <2>4, <1>1 DEF NamedOrPending, Named
    <3>3. PICK r \in RulesIn(Dirs, "on") \cup Merged(Dirs) : p \in r.outs
      BY <3>1, <3>2 DEF Named, Saved
    <3>4. Merged(Dirs) = {}
      BY <3>1, FullBuildDecides DEF OInv
    <3> QED
      BY <3>3, <3>4 DEF Made
  <2> QED
    BY <1>1, <2>2, <2>3, <2>4, <2>5, <2>6, AtRest DEF OInv
<1> QED
  BY <1>3, <1>4 DEF Save

\* What is removed is not there; a file of putup that stays keeps what speaks for it.
LEMMA RemovalKeeps ==
    ASSUME OInv, NEW left \in SUBSET Recorded("generated"), Removed(left),
           untracked' = {p \in untracked : disk'[p] # "none"},
           UNCHANGED project, run' = Idle,
           \/ record' = record
           \/ record' = NoRecord /\ \A p \in Recorded("generated") : disk'[p] = "none",
           outcome' \notin {"complete", "shadowed"}
    PROVE  OInv'
<1>1. disk' = [p \in Paths |-> IF p \in Recorded("generated") \ left THEN "none" ELSE disk[p]]
  BY DEF Removed
<1>2. NoRecord \in [kind : Kinds, type : [Paths -> Types], cmds : SUBSET Rules]
  BY DEF NoRecord, Kinds, Types
<1>3. TypeOK'
  BY <1>1, <1>2 DEF OInv, TypeOK, project, Idle
<1>4. RecordRight'
  <2>1. CASE record' = record
    BY <2>1, SameRecord DEF OInv
  <2>2. CASE record' = NoRecord
    BY <2>2 DEF RecordRight, Recorded, NoRecord
  <2> QED
    BY <2>1, <2>2
<1>5. NamedOrPending'
  <2> SUFFICES ASSUME NEW p \in Paths, disk'[p] = "putup"
               PROVE  p \in Named(record)' \cup untracked'
    BY DEF NamedOrPending
  <2>1. disk[p] = "putup"
    BY <1>1
  <2>2. p \in Named(record) \/ p \in untracked'
    BY <2>1 DEF OInv, NamedOrPending
  <2>3. p \in Named(record) => p \in Recorded("generated")
    BY DEF Named, Recorded
  <2> QED
    BY <2>2, <2>3 DEF Named
<1> QED
  BY <1>3, <1>4, <1>5, AtRest, NoVerdict DEF OInv

LEMMA CleanKeeps ==
    ASSUME OInv, Clean \/ Distclean
    PROVE  OInv'
<1>1. run = Idle
  BY DEF Clean, Distclean
<1>2. CASE record.kind = "lost"
  <2>1. Fails("unreadable")
    BY <1>2 DEF Clean, Distclean
  <2> QED
    BY <2>1, FailureKeeps
<1>3. CASE Clean /\ record.kind # "lost"
  BY <1>1, <1>3, RemovalKeeps DEF Clean
<1>4. CASE Distclean /\ record.kind # "lost"
  <2>1. PICK left \in SUBSET Recorded("generated") : Removed(left)
    BY <1>4 DEF Distclean
  <2>2. /\ untracked' = {p \in untracked : disk'[p] # "none"}
        /\ UNCHANGED <<project, run>>
        /\ record' = IF Survivors = {} THEN NoRecord ELSE record
        /\ outcome' = IF Survivors = {} THEN "reset" ELSE "incomplete"
    BY <1>4 DEF Distclean
  <2>3. Survivors = {} => \A p \in Recorded("generated") : disk'[p] = "none"
    BY DEF Survivors
  <2> QED
    BY <1>1, <2>1, <2>2, <2>3, RemovalKeeps
<1> QED
  BY <1>2, <1>3, <1>4

LEMMA StepKeeps ==
    ASSUME OInv, [Next]_vars
    PROVE  OInv'
<1>1. CASE UNCHANGED vars
  BY <1>1 DEF vars, OInv, TypeOK, RecordRight, NamedOrPending, RunRight, NothingStale, RefusedForCause,
      Recorded, Named, Made, RulesIn, Parsed, Stale, OutputsOf, Authoritative, Available, Guarded
<1>2. CASE Crash
  BY <1>2, FailureKeeps DEF Crash
<1> QED
  BY <1>1, <1>2, UserKeeps, StartKeeps, RemoveStaleKeeps, SelectKeeps, RunCommandKeeps, SaveKeeps, CleanKeeps
     DEF Next, Putup

\* Every file of putup is named or pending, and a build knows what is stale
\* (remove_stale_outputs, build_index).
THEOREM Kept == Spec => []OInv
<1>1. Init => OInv
  BY FirstRight
<1>2. OInv /\ [Next]_vars => OInv'
  BY StepKeeps
<1> QED
  BY <1>1, <1>2, PTL DEF Spec

\* The variables have their types.
THEOREM TypeCorrect == Spec => []TypeOK
<1>1. OInv => TypeOK
  BY DEF OInv
<1> QED
  BY <1>1, Kept, PTL
-----------------------------------------------------------------------------
(***************************************************************************)
(* The properties.                                                         *)
(***************************************************************************)
\* What putup leaves in the tree the record names as generated unless a build forsook
\* it, no output of a rule that is gone outlives a full build, and no build is refused
\* over an output a record named (merge_out_of_scope_commands, remove_stale_outputs,
\* reject_shadowed_sources).
THEOREM EveryFileHasAnOwner == Spec => []FilesAreOwned
<1>1. OInv => FilesAreOwned
  BY DEF OInv, FilesAreOwned, OwnedIsNamed, NamedOrPending, Named, Recorded
<1> QED
  BY <1>1, Kept, PTL

\* A command's writes, the stale files and what clean removes pass by the files of
\* the user that the record guards.
LEMMA StepKeepsSources ==
    ASSUME OInv, [Next]_vars
    PROVE  [KeepsSources]_vars
<1> SUFFICES ASSUME Next, ~User, NEW p \in Paths, disk[p] = "user", Guarded(p)
             PROVE  disk'[p] = "user"
  BY DEF KeepsSources
<1>1. p \notin Recorded("generated")
  BY DEF Guarded, OInv, RecordRight, Recorded
<1>2. disk \in [Paths -> {"none", "user", "putup"}]
  BY DEF OInv, TypeOK
<1>3. ASSUME disk' = disk PROVE disk'[p] = "user"
  BY <1>3
<1>4. CASE RemoveStale
  <2>1. run.stale \subseteq Recorded("generated")
    BY <1>4, StaleIsGenerated DEF RemoveStale, OInv, RunRight
  <2> QED
    BY <1>1, <1>2, <1>4, <2>1 DEF RemoveStale, Fails
<1>5. CASE RunCommand
  <2>1. p \notin Made(run.scope)
    BY <1>5 DEF RunCommand, OInv, RunRight, Idle
  <2>2. \A r \in run.todo : p \notin r.outs
    BY <1>5, <2>1 DEF RunCommand, OInv, RunRight, Made
  <2>3. PICK paths : Writes(paths) /\ p \notin paths
    BY <1>5, <2>2 DEF RunCommand
  <2> QED
    BY <1>2, <2>3 DEF Writes
<1>6. CASE Clean \/ Distclean
  <2>1. disk' = disk \/ \E left \in SUBSET Recorded("generated") : Removed(left)
    BY <1>6 DEF Clean, Distclean, Fails
  <2> QED
    BY <1>1, <1>2, <2>1 DEF Removed
<1>7. CASE Start \/ Select \/ Save \/ Crash
  BY <1>7 DEF Start, Select, Save, Crash, Fails, Leave
<1> QED
  BY <1>4, <1>5, <1>6, <1>7 DEF Next, Putup

\* No build, clean or distclean takes a file of the user that no rule makes, or that
\* the record calls a source or a ghost, or that lies there when no record can be
\* read (reject_shadowed_sources, remove_generated_files).
THEOREM NoSourceIsTaken == Spec => SourcesSurvive
<1>1. OInv /\ [Next]_vars => [KeepsSources]_vars
  BY StepKeepsSources
<1> QED
  BY <1>1, Kept, PTL DEF Spec, SourcesSurvive

\* Where every Tupfile parses and no rule writes across the border of a scope, no
\* build takes a file's name from the record (serialize_graph_nodes,
\* merge_out_of_scope_commands).
THEOREM TidyProjectsForsakeNothing ==
    ASSUME ~Refusals,
           \A scope \in Scopes, r \in Rules, p \in Paths :
                p \in r.outs => (DirOf[p] \in scope <=> r.dir \in scope)
    PROVE  Spec => [](\A scope \in Scopes : Forsaken(scope) = {})
<1> DEFINE Readable == \A d \in Dirs : tupfile[d] # "bad"
<1>1. Init => Readable
  BY DEF Init
<1>2. Readable /\ [Next]_vars => Readable'
  <2> SUFFICES ASSUME Readable, [Next]_vars
               PROVE  Readable'
    OBVIOUS
  <2>1. CASE EditTupfile
    BY <2>1 DEF EditTupfile
  <2>2. CASE tupfile' = tupfile
    BY <2>2
  <2> QED
    BY <2>1, <2>2 DEF Next, Putup, User, vars, project, EditRule, WriteFile, DeleteFile, LoseRecord,
       Start, RemoveStale, Select, RunCommand, Save, Crash, Clean, Distclean, Fails, Leave
<1>3. TypeOK /\ Readable => \A scope \in Scopes : Forsaken(scope) = {}
  BY NothingIsForsaken, OutputsAssumption
<1> QED
  BY <1>1, <1>2, <1>3, TypeCorrect, PTL DEF Spec
=============================================================================
