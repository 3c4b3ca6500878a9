----------------------------- MODULE CliProofs -----------------------------
(***************************************************************************)
(* What a command line comes to, proved for every value of the constants:  *)
(* the stat cache is right in both directions, the driver runs its handler *)
(* once for each build directory as often as it is named and tells what    *)
(* became of it, and the build directories are those the command means.    *)
(***************************************************************************)
EXTENDS StatCache, Variants, TLAPS, WellFoundedInduction

CONSTANTS Trees, Commands, SourceNames, IniName, TupfileName, ConfigName, PupName
VARIABLES tree, command, answer
Cmd == INSTANCE Targets
-----------------------------------------------------------------------------
(***************************************************************************)
(* The stat cache, whatever the threshold of racy_clean, however far ahead *)
(* a file is dated, and wherever the edits and touches fall.               *)
(***************************************************************************)
Phases == {"idle", "stat", "before", "judge", "run", "hash", "save"}
File == [text : Nat, mtime : Nat]

TypeOK ==
    /\ clock \in Nat \ {0}
    /\ file \in File /\ file.text # NoHash
    /\ seen \in Nat
    /\ entry \in [hash : Nat, mtime : Nat, saved : Nat]
    /\ build \in [phase : Phases, start : Nat, found : File, before : Nat, hash : Nat, rested : BOOLEAN]
    /\ quiet \in BOOLEAN

\* No text is known before it is written, and no build began in the future.
Past ==
    /\ entry.hash <= file.text
    /\ build.before <= file.text
    /\ build.hash <= file.text
    /\ build.start <= clock

\* The record: the text it names is one the command read, and a time stands in it
\* only for that text, and lies before every build that reads it.
RecordTrue ==
    /\ entry.hash = file.text => seen = file.text
    /\ entry.mtime # NoTime =>
        /\ entry.mtime < clock
        /\ build.phase \in {"stat", "before", "judge"} => entry.mtime < build.start
        /\ entry.mtime = file.mtime => entry.hash = file.text

\* What the build found stays true of the file it found, which may be gone by now.
FoundTrue ==
    build.phase \in {"before", "judge"} =>
        /\ entry.hash <= build.found.text /\ build.found.text <= file.text
        /\ entry.hash = build.found.text => seen = build.found.text
        /\ entry.mtime # NoTime /\ entry.mtime = build.found.mtime => entry.hash = build.found.text
        /\ file.mtime < build.start => file.text = build.found.text
        /\ build.phase = "judge" /\ build.found.mtime < build.start => build.before = NoHash

\* What the build has in hand: a file dated before the start, or still with the
\* text it had before the commands ran, is the file the command read.
InHand ==
    /\ build.phase = "hash" =>
        /\ file.mtime < build.start => seen = file.text
        /\ build.before = file.text => seen = file.text
    /\ build.phase = "save" =>
        /\ build.hash # NoHash
        /\ file.mtime < build.start => seen = file.text /\ build.hash = file.text
        /\ build.before = build.hash /\ build.hash = file.text => seen = file.text

\* Nobody wrote to the file since it was found.
AtRest ==
    quiet =>
        /\ build.phase \in {"idle", "stat"} => entry.hash = file.text
        /\ build.phase \in {"before", "judge"} =>
            /\ build.found = file
            /\ build.rested => entry.hash = file.text
        /\ build.phase \in {"judge", "run", "hash", "save"} =>
               build.before = IF file.mtime >= build.start THEN file.text ELSE NoHash
        /\ build.phase = "save" => build.hash = file.text

IInv == TypeOK /\ Past /\ RecordTrue /\ FoundTrue /\ InHand /\ AtRest

USE DEF NoHash, NoTime

\* A build that looks finds the file unchanged only when the record names the text
\* it found, and always when it names the text that is there: the time spares the
\* hashing and never decides otherwise.
LEMMA VerdictByText ==
    ASSUME IInv, build.phase = "judge", NEW trusting \in BOOLEAN
    PROVE  /\ Unchanged(trusting) => seen = build.found.text
           /\ Unchanged(trusting) /\ build.before = file.text => seen = file.text
           /\ entry.hash = file.text => Unchanged(trusting)
           /\ quiet /\ Unchanged(trusting) => entry.hash = file.text
<1>1. file.text # NoHash BY DEF IInv, TypeOK
<1>2. Current => /\ entry.hash = build.found.text
                 /\ build.before = NoHash
    BY DEF IInv, TypeOK, RecordTrue, FoundTrue, Current
<1>3. entry.hash = file.text => entry.hash = build.found.text /\ seen = file.text
    BY DEF IInv, TypeOK, File, RecordTrue, FoundTrue
<1>4. entry.hash = build.found.text => seen = build.found.text
    BY DEF IInv, FoundTrue
<1>5. quiet => build.found = file BY DEF IInv, AtRest
<1>6. Unchanged(trusting) => Current \/ entry.hash = file.text BY DEF Unchanged
<1>7. entry.hash = file.text => Unchanged(trusting) BY <1>1 DEF Unchanged
<1>8. QED BY <1>1, <1>2, <1>3, <1>4, <1>5, <1>6, <1>7

\* The file is written or touched: its stamp lies at or after the clock, hence
\* after every time in the record and not before the start of the build.
LEMMA WriteKeeps ==
    ASSUME IInv, NEW t \in Stamps, file'.mtime = t, file' \in File, ~quiet',
           UNCHANGED <<clock, seen, entry, build>>, quiet' \in BOOLEAN,
           file'.text = file.text \/ file'.text = file.text + 1
    PROVE  IInv'
<1>1. t \in Nat /\ t >= clock BY StatCacheAssumption DEF Stamps, IInv, TypeOK
<1>2. TypeOK' BY DEF IInv, TypeOK, File
<1>3. Past' BY DEF IInv, TypeOK, File, Past
<1>4. RecordTrue' BY <1>1 DEF IInv, TypeOK, File, Past, RecordTrue
<1>5. FoundTrue' BY <1>1 DEF IInv, TypeOK, File, Past, FoundTrue
<1>6. InHand' BY <1>1 DEF IInv, TypeOK, File, Past, InHand
<1>7. AtRest' BY DEF AtRest
<1>8. QED BY <1>2, <1>3, <1>4, <1>5, <1>6, <1>7 DEF IInv

LEMMA EditKeeps == ASSUME IInv, Edit PROVE IInv'
<1>1. PICK t \in Stamps : file' = [text |-> file.text + 1, mtime |-> t]
    BY DEF Edit
<1>2. t \in Nat BY StatCacheAssumption DEF Stamps, IInv, TypeOK
<1>3. file' \in File /\ file'.mtime = t /\ file'.text = file.text + 1
    BY <1>1, <1>2 DEF IInv, TypeOK, File
<1>4. QED BY <1>3, WriteKeeps DEF Edit

LEMMA TouchKeeps == ASSUME IInv, Touch PROVE IInv'
<1>1. PICK t \in Stamps : file' = [file EXCEPT !.mtime = t]
    BY DEF Touch
<1>2. t \in Nat BY StatCacheAssumption DEF Stamps, IInv, TypeOK
<1>3. file' \in File /\ file'.mtime = t /\ file'.text = file.text
    BY <1>1, <1>2 DEF IInv, TypeOK, File
<1>4. QED BY <1>3, WriteKeeps DEF Touch

LEMMA StartKeeps == ASSUME IInv, Start PROVE IInv'
<1>1. /\ build'.phase = "stat" /\ build'.start = clock
      /\ build'.before = NoHash /\ build'.hash = NoHash
      /\ UNCHANGED <<clock, file, seen, entry, quiet>>
    BY DEF Start, NoBuild
<1>2. TypeOK' BY DEF Start, NoBuild, NoFile, IInv, TypeOK, File, Phases
<1>3. Past' BY <1>1 DEF IInv, TypeOK, File, Past
<1>4. RecordTrue' BY <1>1 DEF IInv, RecordTrue
<1>5. FoundTrue' /\ InHand' BY <1>1 DEF FoundTrue, InHand
<1>6. AtRest' BY <1>1 DEF Start, IInv, AtRest
<1>7. QED BY <1>2, <1>3, <1>4, <1>5, <1>6 DEF IInv

LEMMA StatKeeps == ASSUME IInv, Stat PROVE IInv'
<1>1. /\ build'.phase = "before" /\ build'.start = build.start
      /\ build'.found = file /\ build'.rested = quiet
      /\ build'.before = build.before /\ build'.hash = build.hash
      /\ UNCHANGED <<clock, file, seen, entry>>
    BY DEF Stat, IInv, TypeOK
<1>2. TypeOK' BY DEF Stat, IInv, TypeOK, Phases
<1>3. Past' BY <1>1 DEF IInv, Past
<1>4. RecordTrue' BY <1>1 DEF Stat, IInv, RecordTrue
<1>5. FoundTrue' BY <1>1 DEF IInv, TypeOK, File, Past, RecordTrue, FoundTrue
<1>6. InHand' BY <1>1 DEF InHand
<1>7. AtRest' BY <1>1 DEF Stat, IInv, AtRest
<1>8. QED BY <1>2, <1>3, <1>4, <1>5, <1>6, <1>7 DEF IInv

LEMMA HashBeforeKeeps == ASSUME IInv, HashBeforeCommands PROVE IInv'
<1>1. /\ build'.phase = "judge" /\ build'.start = build.start
      /\ build'.found = build.found /\ build'.rested = build.rested
      /\ build'.before = IF build.found.mtime >= build.start THEN file.text ELSE NoHash
      /\ build'.hash = build.hash
      /\ UNCHANGED <<clock, file, seen, entry, quiet>>
    BY DEF HashBeforeCommands, IInv, TypeOK
<1>2. TypeOK' BY DEF HashBeforeCommands, IInv, TypeOK, File, Phases
<1>3. Past' BY <1>1 DEF IInv, TypeOK, File, Past
<1>4. RecordTrue' BY <1>1 DEF HashBeforeCommands, IInv, RecordTrue
<1>5. FoundTrue' BY <1>1 DEF HashBeforeCommands, IInv, TypeOK, File, FoundTrue
<1>6. InHand' BY <1>1 DEF InHand
<1>7. AtRest' BY <1>1 DEF HashBeforeCommands, IInv, AtRest
<1>8. QED BY <1>2, <1>3, <1>4, <1>5, <1>6, <1>7 DEF IInv

\* A build that ends leaves the file, the record and the command as they are.
LEMMA EndKeeps ==
    ASSUME IInv, build' = NoBuild, UNCHANGED <<clock, file, seen, entry>>,
           quiet' \in BOOLEAN, quiet' => entry.hash = file.text
    PROVE  IInv'
<1>1. build'.phase = "idle" /\ build'.start = 0 /\ build'.before = NoHash /\ build'.hash = NoHash
    BY DEF NoBuild
<1>2. TypeOK' BY DEF NoBuild, NoFile, IInv, TypeOK, File, Phases
<1>3. Past' BY <1>1 DEF IInv, TypeOK, File, Past
<1>4. RecordTrue' BY <1>1 DEF IInv, RecordTrue
<1>5. FoundTrue' /\ InHand' /\ AtRest' BY <1>1 DEF FoundTrue, InHand, AtRest
<1>6. QED BY <1>2, <1>3, <1>4, <1>5 DEF IInv

LEMMA JudgeKeeps == ASSUME IInv, Judge PROVE IInv'
<1>0. PICK trusting \in BOOLEAN : \E phase \in After(Unchanged(trusting)) :
        build' = IF phase = "idle" THEN NoBuild ELSE [build EXCEPT !.phase = phase]
    BY DEF Judge
<1>1. PICK phase \in After(Unchanged(trusting)) :
        build' = IF phase = "idle" THEN NoBuild ELSE [build EXCEPT !.phase = phase]
    BY <1>0
<1>2. /\ build.phase = "judge" /\ UNCHANGED <<clock, file, seen, entry, quiet>>
    BY DEF Judge
<1>3. phase \in {"run", "hash", "idle"} /\ (phase # "run" => Unchanged(trusting))
    BY <1>1 DEF After
<1>4. CASE phase = "idle"
    <2>1. quiet => entry.hash = file.text BY <1>2, <1>3, <1>4, VerdictByText
    <2>2. QED BY <1>1, <1>2, <1>4, <2>1, EndKeeps DEF IInv, TypeOK
<1>5. CASE phase # "idle"
    <2>1. /\ build'.phase = phase /\ build'.start = build.start
          /\ build'.before = build.before /\ build'.hash = build.hash
        BY <1>1, <1>5 DEF IInv, TypeOK
    <2>2. TypeOK' BY <1>1, <1>2, <1>3, <1>5 DEF IInv, TypeOK, Phases
    <2>3. Past' BY <1>2, <2>1 DEF IInv, Past
    <2>4. RecordTrue' BY <1>2, <1>3, <1>5, <2>1 DEF IInv, RecordTrue
    <2>5. FoundTrue' BY <1>3, <1>5, <2>1 DEF FoundTrue
    <2>6. phase = "hash" => /\ seen = build.found.text
                            /\ build.before = file.text => seen = file.text
        BY <1>2, <1>3, VerdictByText
    <2>7. file.mtime < build.start => file.text = build.found.text
        BY <1>2 DEF IInv, FoundTrue
    <2>8. InHand' BY <1>2, <1>3, <1>5, <2>1, <2>6, <2>7 DEF InHand
    <2>9. AtRest' BY <1>2, <1>3, <1>5, <2>1 DEF IInv, AtRest
    <2>10. QED BY <2>2, <2>3, <2>4, <2>5, <2>8, <2>9 DEF IInv
<1>6. QED BY <1>4, <1>5

LEMMA RunKeeps == ASSUME IInv, Run PROVE IInv'
<1>1. /\ build'.phase = "hash" /\ build'.start = build.start
      /\ build'.before = build.before /\ build'.hash = build.hash
      /\ seen' = file.text /\ UNCHANGED <<clock, file, entry, quiet>>
    BY DEF Run, IInv, TypeOK
<1>2. TypeOK' BY DEF Run, IInv, TypeOK, File, Phases
<1>3. Past' BY <1>1 DEF IInv, Past
<1>4. RecordTrue' BY <1>1 DEF IInv, RecordTrue
<1>5. FoundTrue' /\ InHand' BY <1>1 DEF FoundTrue, InHand
<1>6. AtRest' BY <1>1 DEF Run, IInv, AtRest
<1>7. QED BY <1>2, <1>3, <1>4, <1>5, <1>6 DEF IInv

LEMMA HashKeeps == ASSUME IInv, HashFile PROVE IInv'
<1>1. /\ build'.phase = "save" /\ build'.start = build.start
      /\ build'.before = build.before /\ build'.hash = file.text
      /\ UNCHANGED <<clock, file, seen, entry, quiet>>
    BY DEF HashFile, IInv, TypeOK
<1>2. TypeOK' BY DEF HashFile, IInv, TypeOK, File, Phases
<1>3. Past' BY <1>1 DEF IInv, TypeOK, File, Past
<1>4. RecordTrue' BY <1>1 DEF IInv, RecordTrue
<1>5. FoundTrue' BY <1>1 DEF FoundTrue
<1>6. InHand' BY <1>1 DEF HashFile, IInv, TypeOK, InHand
<1>7. AtRest' BY <1>1 DEF HashFile, IInv, AtRest
<1>8. QED BY <1>2, <1>3, <1>4, <1>5, <1>6, <1>7 DEF IInv

\* What is recorded of the file is what the command read of it, and a time is
\* recorded only of a file that was not written to since the build began.
LEMMA SaveKeeps == ASSUME IInv, StatAndSave PROVE IInv'
<1> DEFINE content == RecordedContent(build.hash, file.mtime)
<1>1. /\ build.phase = "save" /\ build' = NoBuild
      /\ entry' = [hash |-> content.hash, mtime |-> content.mtime, saved |-> clock]
      /\ UNCHANGED <<clock, file, seen, quiet>>
    BY DEF StatAndSave
<1>2. /\ content.hash \in {build.hash, NoHash}
      /\ content.mtime \in {file.mtime, NoTime}
      /\ content.mtime # NoTime => file.mtime < build.start /\ content.mtime = file.mtime
                                   /\ content.hash = build.hash
      /\ content.hash # NoHash => content.hash = build.hash
                                  /\ (file.mtime < build.start \/ build.before = build.hash)
      /\ file.mtime < build.start \/ build.before = build.hash => content.hash = build.hash
    BY DEF RecordedContent
<1> HIDE DEF content
<1>3. content.hash \in Nat /\ content.mtime \in Nat /\ content.hash <= file.text
    BY <1>2 DEF IInv, TypeOK, File, Past
<1>4. content.hash = file.text => seen = file.text
    BY <1>1, <1>2 DEF IInv, TypeOK, InHand
<1>5. content.mtime # NoTime => content.mtime < clock /\ content.hash = file.text
    BY <1>1, <1>2 DEF IInv, TypeOK, File, Past, InHand
<1>6. quiet => content.hash = file.text
    BY <1>1, <1>2 DEF IInv, TypeOK, File, AtRest
<1>7. /\ entry'.hash = content.hash /\ entry'.mtime = content.mtime
      /\ build'.phase = "idle" /\ build'.start = 0 /\ build'.before = NoHash /\ build'.hash = NoHash
    BY <1>1 DEF NoBuild
<1>8. TypeOK' BY <1>1, <1>3 DEF NoBuild, NoFile, IInv, TypeOK, File, Phases
<1>9. Past' BY <1>1, <1>3, <1>7 DEF IInv, TypeOK, File, Past
<1>10. RecordTrue' BY <1>1, <1>4, <1>5, <1>7 DEF RecordTrue
<1>11. FoundTrue' /\ InHand' BY <1>7 DEF FoundTrue, InHand
<1>12. AtRest' BY <1>1, <1>6, <1>7 DEF AtRest
<1>13. QED BY <1>8, <1>9, <1>10, <1>11, <1>12 DEF IInv

LEMMA TickKeeps == ASSUME IInv, Tick PROVE IInv'
<1>1. clock' = clock + 1 /\ UNCHANGED <<file, seen, entry, build, quiet>> BY DEF Tick
<1>2. TypeOK' /\ Past' BY <1>1 DEF IInv, TypeOK, Past
<1>3. RecordTrue' BY <1>1 DEF IInv, TypeOK, RecordTrue
<1>4. FoundTrue' /\ InHand' /\ AtRest' BY <1>1 DEF IInv, FoundTrue, InHand, AtRest
<1>5. QED BY <1>2, <1>3, <1>4 DEF IInv

\* Only the time of the record moves, and nothing that is true depends on it.
LEMMA CarryKeeps == ASSUME IInv, Carry PROVE IInv'
<1>1. /\ entry'.hash = entry.hash /\ entry'.mtime = entry.mtime
      /\ UNCHANGED <<clock, file, seen, build, quiet>>
    BY DEF Carry, IInv, TypeOK
<1>2. TypeOK' BY DEF Carry, IInv, TypeOK
<1>3. Past' /\ RecordTrue' BY <1>1 DEF IInv, Past, RecordTrue
<1>4. FoundTrue' /\ InHand' /\ AtRest' BY <1>1 DEF IInv, FoundTrue, InHand, AtRest
<1>5. QED BY <1>2, <1>3, <1>4 DEF IInv

\* The invariant: the record names only what was read, a time in it vouches for
\* that text, and a build under way has in hand what it will record.
THEOREM Kept == CacheSpec => []IInv
<1>1. CacheInit => IInv
    <2> SUFFICES ASSUME CacheInit PROVE IInv
        OBVIOUS
    <2>1. TypeOK
        <3>1. clock \in Nat \ {0} /\ file.text # NoHash /\ file \in File /\ seen \in Nat
            BY DEF CacheInit, File
        <3>2. entry \in [hash : Nat, mtime : Nat, saved : Nat]
            BY DEF CacheInit
        <3>3. build = NoBuild /\ quiet \in BOOLEAN BY DEF CacheInit
        <3>4. build \in [phase : Phases, start : Nat, found : File, before : Nat, hash : Nat, rested : BOOLEAN]
            BY <3>3 DEF NoBuild, NoFile, File, Phases
        <3>5. QED BY <3>1, <3>2, <3>3, <3>4 DEF TypeOK
    <2>2. Past BY DEF CacheInit, Past, NoBuild
    <2>3. RecordTrue BY DEF CacheInit, RecordTrue
    <2>4. FoundTrue /\ InHand /\ AtRest BY DEF CacheInit, FoundTrue, InHand, AtRest, NoBuild
    <2>5. QED BY <2>1, <2>2, <2>3, <2>4 DEF IInv
<1>2. IInv /\ [CacheNext]_cache => IInv'
    <2> SUFFICES ASSUME IInv, [CacheNext]_cache PROVE IInv'
        OBVIOUS
    <2>1. CASE CutShort
        BY <2>1, EndKeeps DEF CutShort
    <2>2. CASE UNCHANGED cache
        BY <2>2 DEF cache, IInv, TypeOK, Past, RecordTrue, FoundTrue, InHand, AtRest
    <2>3. QED
        BY <2>1, <2>2, TickKeeps, EditKeeps, TouchKeeps, StartKeeps, StatKeeps, HashBeforeKeeps,
           JudgeKeeps, RunKeeps, HashKeeps, SaveKeeps, CarryKeeps DEF CacheNext
<1>3. QED BY <1>1, <1>2, PTL DEF CacheSpec

\* No change is missed, and no file at rest has its command run again: the verdicts
\* of the scan, by the time or by the hash, are right in both directions whatever is
\* written while a build examines, reads and records (find_changed_files_with_implicit,
\* recorded_content).
THEOREM ScanIsRight == CacheSpec => []VerdictsAreRight
<1>1. IInv => VerdictsAreRight
    <2> SUFFICES ASSUME IInv, build.phase = "judge", NEW trusting \in BOOLEAN
                 PROVE  /\ Unchanged(trusting) => seen = build.found.text
                        /\ build.rested /\ quiet => Unchanged(trusting)
        BY DEF VerdictsAreRight, NoChangeMissed, NothingRunsTwice
    <2>1. build.rested /\ quiet => entry.hash = file.text BY DEF IInv, AtRest
    <2>2. QED BY <2>1, VerdictByText
<1>2. QED BY <1>1, Kept, PTL

-----------------------------------------------------------------------------
(***************************************************************************)
(* The driver and its tasks.  Turns says how far the driver is with each   *)
(* place of the command, Gate what a task, its request and the files of    *)
(* its build directory have to do with each other, and Opens what all that *)
(* work in one build directory have made of the file at its root; they     *)
(* hold whichever tasks have run in the meantime, in whatever directories, *)
(* and whichever of them was killed.                                       *)
(***************************************************************************)

Scopes == UNION {[D -> Configs] : D \in SUBSET Dirs}
Task ==
    [at : {"idle", "started", "load", "rules", "create", "made", "parse", "done"}, runs : Nat, killed : BOOLEAN,
     rc : {0, 1}, scoped : Scopes, todo : SUBSET Dirs,
     wrong : BOOLEAN, before : Configuration]
Driver ==
    [at : {"resting", "forking", "inline", "reaping", "exited"}, next : Nat \ {0}, forked : Nat,
     failed : Nat, exit : {0, 1}, asked : Nat]
Asking == IF request = None THEN {} ELSE 1..Len(Chosen)
VTypeOK ==
    /\ conf \in [Variants -> [Dirs -> Configuration]]
    /\ request \in Requests \cup {None} /\ (request = None <=> driver.at = "resting")
    /\ driver \in Driver
    /\ task \in [Asking -> Task]

Idle(k) == task[k].at = "idle" /\ task[k].runs = 0 /\ ~task[k].killed /\ task[k].rc = 0
Begun(k) == task[k].at # "idle" /\ task[k].runs = 1
Done(k) == Begun(k) /\ task[k].at = "done"
Told(S) == driver.failed = 0 <=> \A k \in S : Failure(k) = 0

Turns ==
    request # None =>
        LET n == Len(Chosen)
            at == driver.at
            next == driver.next
            forked == driver.forked
        IN  /\ at # "exited" => driver.exit = 0
            /\ forked <= n /\ next <= n + 1
            /\ \A k \in 1..forked : Begun(k)
            /\ at = "forking" => /\ next = forked + 1 /\ driver.failed = 0
                                 /\ \A k \in next..n : Idle(k)
            /\ at = "inline" => /\ forked < next
                                /\ \A k \in (forked + 1)..(next - 1) : Done(k)
                                /\ next <= n => Idle(next) \/ Begun(next)
                                /\ \A k \in (next + 1)..n : Idle(k)
                                /\ Told((forked + 1)..(next - 1))
            /\ at = "reaping" => /\ next <= forked + 1
                                 /\ \A k \in (1..(next - 1)) \cup ((forked + 1)..n) : Done(k)
                                 /\ Told((1..(next - 1)) \cup ((forked + 1)..n))
            /\ at = "exited" => /\ \A k \in 1..n : Done(k)
                                /\ driver.exit = 0 <=> \A k \in 1..n : Failure(k) = 0

\* What a task, its request and the files of its build directory have to do with each other.
Gate(t, r, files) ==
    /\ t.killed => t.at = "done"
    /\ t.at # "done" => t.rc = 0
    /\ t.at \in {"load", "rules", "create", "made"} => r.kind = "configure"
    /\ t.at = "parse" => r.kind = "build"
    /\ t.at \in {"rules", "create", "made"} => <<>> \in DOMAIN t.scoped
    /\ t.at \in {"create", "made"} => ~r.dry /\ t.todo = {} /\ ~t.wrong
    /\ t.at \in {"idle", "started", "load"} => DOMAIN t.scoped = {} /\ t.todo = {}
    /\ r.kind = "configure" => t.todo \subseteq r.rules
    /\ r.kind = "build" =>
          /\ DOMAIN t.scoped # {} \/ t.at = "parse" => files[<<>>] # None
          /\ \A d \in DOMAIN t.scoped : t.scoped[d] = FindConfigForDir(files, d, r.defines)

\* What the tasks of a build directory have made of the file at its root.
Won(t) == t.at = "done" /\ ~t.killed /\ t.rc = 0
Ran(t) ==
    /\ t.at \in {"made", "done"} /\ t.rc = 0 /\ ~t.wrong
    /\ t.todo = {} /\ <<>> \in DOMAIN t.scoped
Lost(t, r) == r.install # None /\ t.at = "done" /\ t.rc = 1 /\ DOMAIN t.scoped = {}
LeftToIt(t, r) == t.before = None /\ r.install = None /\ (r.dry \/ <<>> \notin r.rules)
Opens(k) ==
    request.kind = "configure" =>
        /\ (task[k].at = "made" \/ Won(task[k])) /\ ~request.dry =>
               Armed(Chosen[k]) \/ \E l \in Places(Chosen[k]) : Lost(task[l], request)
        /\ LeftToIt(task[k], request) /\ Armed(Chosen[k]) =>
               ~request.dry /\ \E l \in Places(Chosen[k]) : Ran(task[l])
Gates ==
    request # None => \A k \in DOMAIN task : Gate(task[k], request, conf[Chosen[k]]) /\ Opens(k)
\* Before the first command.
Rest == request = None => driver.forked = 0
VInv == VTypeOK /\ Turns /\ Gates /\ Rest
-----------------------------------------------------------------------------
(* The merge of the files above a directory, from the innermost on. *)

LEMMA LeastNumber ==
    ASSUME NEW T \in SUBSET Nat, T # {}
    PROVE  \E n \in T : \A m \in T : n <= m
<1>1. PICK n \in T : \A m \in T : ~(<<m, n>> \in OpToRel(<, Nat))
    BY NatLessThanWellFounded, WFMin
<1>2. \A m \in T : m \in Nat /\ n \in Nat /\ (m < n => <<m, n>> \in OpToRel(<, Nat))
    BY Zenon DEF OpToRel
<1>3. \A m \in T : ~(m < n) BY <1>1, <1>2, Zenon
<1>4. QED BY <1>3

LEMMA MergeType ==
    ASSUME VariantsAssumption, NEW f \in Configs, NEW g \in Configuration
    PROVE  /\ Unset \in Configs
           /\ Merge(f, g) \in Configs
           /\ \A x \in Vars : Merge(f, g)[x] =
                  IF g \notin {None, Broken} /\ g[x] # None THEN g[x] ELSE f[x]
<1>1. Unset \in Configs BY DEF Unset, Configs
<1>2. \A h \in Configs : Over(f, h) \in Configs BY DEF Over, Configs
<1>3. Parsed(g) \in Configs \/ g = None BY <1>1 DEF Parsed, Configuration
<1>4. Merge(f, g) \in Configs BY <1>2, <1>3 DEF Merge
<1>5. ASSUME NEW x \in Vars
      PROVE  Merge(f, g)[x] = IF g \notin {None, Broken} /\ g[x] # None THEN g[x] ELSE f[x]
    <2>1. Unset[x] = None BY DEF Unset
    <2>2. \A h : Over(f, h)[x] = IF h[x] # None THEN h[x] ELSE f[x] BY DEF Over
    <2>3. CASE g = None BY <2>3 DEF Merge
    <2>4. CASE g = Broken BY <2>4, <2>1, <2>2 DEF Merge, Parsed, VariantsAssumption
    <2>5. CASE g \notin {None, Broken} BY <2>5, <2>2 DEF Merge, Parsed
    <2>6. QED BY <2>3, <2>4, <2>5
<1>6. QED BY <1>1, <1>4, <1>5

\* The files of a directory and of those above it, and what they merge to.
MergesOf(scope, n) ==
    {f \in [1..n -> Configs] :
        \A k \in 1..n : f[k] = Merge(IF k = 1 THEN Unset ELSE f[k - 1], scope[k])}

LEMMA MergesExist ==
    ASSUME VariantsAssumption, NEW N \in Nat \ {0}, NEW scope \in [1..N -> Configuration]
    PROVE  \A n \in 1..N : MergesOf(scope, n) # {}
<1> DEFINE T == {n \in 1..N : MergesOf(scope, n) = {}}
<1> SUFFICES ASSUME T # {} PROVE FALSE OBVIOUS
<1>1. PICK n \in T : \A m \in T : n <= m
    <2>1. T \in SUBSET Nat OBVIOUS
    <2> HIDE DEF T
    <2>2. QED BY <2>1, LeastNumber
<1>2. n \in 1..N /\ scope[n] \in Configuration OBVIOUS
<1>3. Unset \in Configs BY MergeType, <1>2 DEF Unset, Configs
<1>4. CASE n = 1
    <2> DEFINE g == [k \in 1..1 |-> Merge(Unset, scope[1])]
    <2>1. Merge(Unset, scope[1]) \in Configs BY <1>2, <1>3, <1>4, MergeType
    <2>2. g \in [1..1 -> Configs] BY <2>1
    <2>3. \A k \in 1..1 : k = 1 /\ g[k] = Merge(Unset, scope[1]) OBVIOUS
    <2> HIDE DEF g
    <2>4. g \in MergesOf(scope, 1) BY <2>2, <2>3 DEF MergesOf
    <2>5. QED BY <2>4, <1>1, <1>4
<1>5. CASE n # 1
    <2>1. n - 1 \in 1..N /\ n - 1 \notin T BY <1>1, <1>2, <1>5
    <2>2. PICK f \in MergesOf(scope, n - 1) : TRUE BY <2>1
    <2>3. /\ f \in [1..(n - 1) -> Configs]
          /\ \A k \in 1..(n - 1) : f[k] = Merge(IF k = 1 THEN Unset ELSE f[k - 1], scope[k])
        BY <2>2 DEF MergesOf
    <2> DEFINE g == [k \in 1..n |-> IF k = n THEN Merge(f[n - 1], scope[n]) ELSE f[k]]
    <2>4. f[n - 1] \in Configs BY <2>1, <2>3
    <2>5. Merge(f[n - 1], scope[n]) \in Configs BY <2>4, <1>2, MergeType
    <2>6. \A k \in 1..n : k # n => k \in 1..(n - 1) BY <1>2
    <2>7. g \in [1..n -> Configs] BY <2>3, <2>5, <2>6
    <2>8. ASSUME NEW k \in 1..n
          PROVE  g[k] = Merge(IF k = 1 THEN Unset ELSE g[k - 1], scope[k])
        <3>1. CASE k = n
            <4>1. n - 1 \in 1..n /\ n - 1 # n BY <1>2, <1>5
            <4>2. g[n - 1] = f[n - 1] BY <4>1
            <4>3. g[n] = Merge(f[n - 1], scope[n]) BY <1>2
            <4>4. QED BY <3>1, <4>2, <4>3, <1>5
        <3>2. CASE k # n
            <4>1. k \in 1..(n - 1) BY <3>2, <2>6
            <4>2. g[k] = f[k] BY <3>2
            <4>3. k # 1 => k - 1 \in 1..n /\ k - 1 # n /\ g[k - 1] = f[k - 1] BY <4>1, <1>2
            <4>4. QED BY <4>1, <4>2, <4>3, <2>3
        <3>3. QED BY <3>1, <3>2
    <2> HIDE DEF g
    <2>9. g \in MergesOf(scope, n) BY <2>7, <2>8 DEF MergesOf
    <2>10. QED BY <2>9, <1>1
<1>6. QED BY <1>4, <1>5

Merging(scope, f, n) ==
    \A k \in 1..n : f[k] = Merge(IF k = 1 THEN Unset ELSE f[k - 1], scope[k])
LEMMA MergesOne ==
    ASSUME NEW N \in Nat \ {0}, NEW scope, NEW f, NEW g, Merging(scope, f, N), Merging(scope, g, N)
    PROVE  \A k \in 1..N : f[k] = g[k]
<1> DEFINE T == {k \in 1..N : f[k] # g[k]}
<1> SUFFICES ASSUME T # {} PROVE FALSE OBVIOUS
<1>1. PICK k \in T : \A m \in T : k <= m
    <2>1. T \in SUBSET Nat OBVIOUS
    <2> HIDE DEF T
    <2>2. QED BY <2>1, LeastNumber
<1>2. k \in 1..N /\ (k # 1 => k - 1 \in 1..N /\ k - 1 \notin T) BY <1>1
<1>3. k # 1 => f[k - 1] = g[k - 1] BY <1>2
<1>4. f[k] = g[k] BY <1>2, <1>3 DEF Merging
<1>5. QED BY <1>1, <1>4

\* The definition of Merged picks the one there is.
LEMMA MergedIs ==
    ASSUME VariantsAssumption, VTypeOK, NEW v \in Variants, NEW d \in Dirs
    PROVE  \E f \in MergesOf([k \in Levels(d) |-> conf[v][Above(d, k)]], Len(d) + 1) :
               Merged(conf[v], d) = f[Len(d) + 1]
<1> DEFINE N == Len(d) + 1
           scope == [k \in Levels(d) |-> conf[v][Above(d, k)]]
           Eqn(f) == f = [k \in Levels(d) |->
                            Merge(IF k = 1 THEN Unset ELSE f[k - 1], conf[v][Above(d, k)])]
<1>1. N \in Nat \ {0} /\ Levels(d) = 1..N BY DEF VariantsAssumption, Levels
<1>2. scope \in [1..N -> Configuration]
    <2>1. \A k \in Levels(d) : Above(d, k) \in Dirs BY DEF VariantsAssumption
    <2>2. \A k \in Levels(d) : conf[v][Above(d, k)] \in Configuration BY <2>1 DEF VTypeOK
    <2>3. QED BY <1>1, <2>2
<1>3. PICK h \in MergesOf(scope, N) : TRUE
    <2>1. N \in 1..N BY <1>1
    <2> HIDE DEF N, scope
    <2>2. QED BY <1>1, <1>2, <2>1, MergesExist
<1>4. /\ h \in [1..N -> Configs]
      /\ \A k \in 1..N : h[k] = Merge(IF k = 1 THEN Unset ELSE h[k - 1], scope[k])
    <2> HIDE DEF N, scope
    <2>1. QED BY <1>3 DEF MergesOf
<1>5. Eqn(h)
    <2>1. \A k \in 1..N : scope[k] = conf[v][Above(d, k)] BY <1>1
    <2>2. \A k \in 1..N : h[k] = Merge(IF k = 1 THEN Unset ELSE h[k - 1], conf[v][Above(d, k)])
        BY <1>4, <2>1
    <2> HIDE DEF N, scope
    <2>3. h = [k \in 1..N |-> h[k]] BY <1>4
    <2>4. h = [k \in 1..N |->
                    Merge(IF k = 1 THEN Unset ELSE h[k - 1], conf[v][Above(d, k)])]
        BY <2>2, <2>3
    <2>5. QED BY <2>4, <1>1
<1>6. PICK g : g = CHOOSE f : Eqn(f) OBVIOUS
<1>7. Eqn(g) BY <1>5, <1>6
<1>8. Merged(conf[v], d) = g[N] BY <1>6 DEF Merged
<1>9. DOMAIN g = 1..N /\ \A k \in 1..N : g[k] = Merge(IF k = 1 THEN Unset ELSE g[k - 1], scope[k])
    <2>1. \A k \in 1..N : scope[k] = conf[v][Above(d, k)] BY <1>1
    <2> HIDE DEF N, scope
    <2>2. DOMAIN g = 1..N BY <1>1, <1>7
    <2>3. \A k \in 1..N : g[k] = Merge(IF k = 1 THEN Unset ELSE g[k - 1], conf[v][Above(d, k)])
        BY <1>1, <1>7
    <2>4. QED BY <2>1, <2>2, <2>3
<1>10. g[N] = h[N]
    <2> HIDE DEF N, scope
    <2>1. DOMAIN h = 1..N /\ N \in 1..N BY <1>1, <1>4
    <2>2. Merging(scope, g, N) /\ Merging(scope, h, N) BY <1>4, <1>9 DEF Merging
    <2>3. \A k \in 1..N : g[k] = h[k] BY <1>1, <2>2, MergesOne
    <2>4. QED BY <2>1, <2>3
<1>11. QED BY <1>3, <1>8, <1>10

\* A merge says of a variable what the last scope that sets it says.
SetsIt(scope, k, x) == scope[k] \notin {None, Broken} /\ scope[k][x] # None
Says(scope, f, k, x) ==
    \/ /\ \A j \in 1..k : ~SetsIt(scope, j, x)
       /\ f[k][x] = None
    \/ \E j \in 1..k : /\ SetsIt(scope, j, x) /\ \A i \in (j + 1)..k : ~SetsIt(scope, i, x)
                       /\ f[k][x] = scope[j][x]
LEMMA MergeSays ==
    ASSUME VariantsAssumption, NEW N \in Nat \ {0}, NEW scope \in [1..N -> Configuration],
           NEW f \in MergesOf(scope, N), NEW x \in Vars
    PROVE  \A k \in 1..N : Says(scope, f, k, x)
<1> DEFINE S == {k \in 1..N : ~Says(scope, f, k, x)}
<1> SUFFICES ASSUME S # {} PROVE FALSE OBVIOUS
<1>1. PICK k \in S : \A m \in S : k <= m
    <2>1. S \in SUBSET Nat OBVIOUS
    <2> HIDE DEF S
    <2>2. QED BY <2>1, LeastNumber
<1>2. k \in 1..N /\ k \in Int /\ ~Says(scope, f, k, x) /\ scope[k] \in Configuration OBVIOUS
<1>3. f \in [1..N -> Configs] /\ f[k] = Merge(IF k = 1 THEN Unset ELSE f[k - 1], scope[k])
    BY <1>2 DEF MergesOf
<1>4. Unset \in Configs /\ Unset[x] = None BY <1>2, MergeType DEF Unset, Configs
<1> DEFINE below == IF k = 1 THEN Unset ELSE f[k - 1]
<1>5. below \in Configs
    <2>1. k # 1 => k - 1 \in 1..N BY <1>2
    <2>2. QED BY <2>1, <1>3, <1>4
<1>6. f[k][x] = IF SetsIt(scope, k, x) THEN scope[k][x] ELSE below[x]
    <2>1. f[k] = Merge(below, scope[k]) BY <1>3
    <2> HIDE DEF below
    <2>2. Merge(below, scope[k])[x] =
              IF scope[k] \notin {None, Broken} /\ scope[k][x] # None THEN scope[k][x] ELSE below[x]
        BY <1>2, <1>5, MergeType
    <2>3. QED BY <2>1, <2>2 DEF SetsIt
<1>7. CASE SetsIt(scope, k, x)
    <2>1. k \in 1..k /\ (k + 1)..k = {} BY <1>2
    <2>2. QED BY <2>1, <1>6, <1>7, <1>2 DEF Says
<1>8. CASE ~SetsIt(scope, k, x) /\ k = 1
    <2>1. \A j \in 1..k : j = k BY <1>8
    <2>2. QED BY <2>1, <1>8, <1>6, <1>4, <1>2 DEF Says
<1>9. CASE ~SetsIt(scope, k, x) /\ k # 1
    <2>1. k - 1 \in 1..N /\ k - 1 \notin S BY <1>1, <1>2, <1>9
    <2>2. Says(scope, f, k - 1, x) BY <2>1
    <2>3. f[k][x] = f[k - 1][x] BY <1>6, <1>9
    <2>4. \A j \in 1..k : j = k \/ j \in 1..(k - 1) BY <1>2
    <2>5. CASE (\A j \in 1..(k - 1) : ~SetsIt(scope, j, x)) /\ f[k - 1][x] = None
        <3>1. \A j \in 1..k : ~SetsIt(scope, j, x) BY <2>4, <2>5, <1>9
        <3>2. QED BY <3>1, <2>3, <2>5, <1>2 DEF Says
    <2>6. ASSUME NEW j \in 1..(k - 1), SetsIt(scope, j, x), f[k - 1][x] = scope[j][x],
                 \A i \in (j + 1)..(k - 1) : ~SetsIt(scope, i, x)
          PROVE  FALSE
        <3>1. j \in 1..k BY <1>2
        <3>2. \A i \in (j + 1)..k : i = k \/ i \in (j + 1)..(k - 1) BY <1>2
        <3>3. \A i \in (j + 1)..k : ~SetsIt(scope, i, x) BY <3>2, <2>6, <1>9
        <3>4. QED BY <3>1, <3>3, <2>3, <2>6, <1>2 DEF Says
    <2>7. QED BY <2>2, <2>5, <2>6 DEF Says
<1>10. QED BY <1>7, <1>8, <1>9


LEMMA FoundType ==
    ASSUME VariantsAssumption, VTypeOK, request # None, NEW v \in Variants, NEW d \in Dirs
    PROVE  FindConfigForDir(conf[v], d, request.defines) \in Configs
<1>1. PICK f \in MergesOf([k \in Levels(d) |-> conf[v][Above(d, k)]], Len(d) + 1) :
          Merged(conf[v], d) = f[Len(d) + 1]
    BY MergedIs
<1>2. Len(d) + 1 \in 1..(Len(d) + 1) BY DEF VariantsAssumption
<1>3. Merged(conf[v], d) \in Configs BY <1>1, <1>2 DEF MergesOf
<1>4. request.defines \in Configs BY DEF VTypeOK, VariantsAssumption, Request
<1>5. Unset \in Configs BY DEF Unset, Configs
<1>6. Over(Merged(conf[v], d), request.defines) \in Configs BY <1>3, <1>4 DEF Over, Configs
<1>7. QED BY <1>5, <1>6 DEF FindConfigForDir

\* What a task reads for a directory is what the property says of it.
LEMMA FoundIsReference ==
    ASSUME VariantsAssumption, VTypeOK, request # None, NEW v \in Variants, Armed(v), NEW d \in Dirs
    PROVE  \A x \in Vars : FindConfigForDir(conf[v], d, request.defines)[x] = Reference(v, d, x)
<1> DEFINE N == Len(d) + 1
           scope == [k \in Levels(d) |-> conf[v][Above(d, k)]]
<1>1. Len(d) \in Nat /\ N \in Nat \ {0} /\ Levels(d) = 1..N BY DEF VariantsAssumption, Levels
<1>2. scope \in [1..N -> Configuration]
    <2>1. \A k \in Levels(d) : Above(d, k) \in Dirs BY DEF VariantsAssumption
    <2>2. \A k \in Levels(d) : conf[v][Above(d, k)] \in Configuration BY <2>1 DEF VTypeOK
    <2>3. QED BY <1>1, <2>2
<1>3. PICK f \in MergesOf(scope, N) : Merged(conf[v], d) = f[N] BY MergedIs
<1>4. f \in [1..N -> Configs] /\ N \in 1..N
    <2> HIDE DEF N, scope
    <2>1. QED BY <1>1, <1>3 DEF MergesOf
<1>5. FindConfigForDir(conf[v], d, request.defines) = Over(f[N], request.defines)
    <2>1. N \in Levels(d) BY <1>1
    <2>2. Above(d, N) = <<>> BY <1>1 DEF Above, VariantsAssumption
    <2>3. conf[v][Above(d, N)] # None BY <2>2 DEF Armed
    <2>4. QED BY <1>3, <2>1, <2>3 DEF FindConfigForDir
<1>6. ASSUME NEW x \in Vars
      PROVE  FindConfigForDir(conf[v], d, request.defines)[x] = Reference(v, d, x)
    <2>1. Says(scope, f, N, x)
        <3> HIDE DEF N, scope
        <3>1. QED BY <1>1, <1>2, <1>3, <1>4, MergeSays
    <2>2. \A k \in 0..Len(d) : N - k \in 1..N /\ scope[N - k] = conf[v][SubSeq(d, 1, k)]
        <3>1. \A k \in 0..Len(d) : N - k \in 1..N /\ (Len(d) + 1) - (N - k) = k BY <1>1
        <3>2. \A k \in 0..Len(d) : N - k \in Levels(d) BY <3>1, <1>1
        <3>3. QED BY <3>1, <3>2 DEF Above
    <2>3. \A k : k \in Setters(v, d, x) <=> k \in 0..Len(d) /\ SetsIt(scope, N - k, x)
        BY <2>2 DEF SetsIt, Setters
    <2>4. f[N][x] = IF Setters(v, d, x) = {} THEN None
                    ELSE conf[v][SubSeq(d, 1, CHOOSE k \in Setters(v, d, x) :
                                                    \A l \in Setters(v, d, x) : k <= l)][x]
        <3>1. CASE (\A j \in 1..N : ~SetsIt(scope, j, x)) /\ f[N][x] = None
            <4>1. Setters(v, d, x) = {} BY <2>2, <2>3, <3>1
            <4>2. QED BY <3>1, <4>1
        <3>2. ASSUME NEW j \in 1..N, SetsIt(scope, j, x), f[N][x] = scope[j][x],
                     \A i \in (j + 1)..N : ~SetsIt(scope, i, x)
              PROVE  /\ Setters(v, d, x) # {}
                     /\ f[N][x] = conf[v][SubSeq(d, 1, CHOOSE k \in Setters(v, d, x) :
                                                    \A l \in Setters(v, d, x) : k <= l)][x]
            <4>1. N - j \in 0..Len(d) /\ N - (N - j) = j BY <1>1
            <4>2. N - j \in Setters(v, d, x) BY <4>1, <2>3, <3>2
            <4>3. ASSUME NEW l \in Setters(v, d, x) PROVE N - j <= l
                <5>1. l \in 0..Len(d) /\ SetsIt(scope, N - l, x) BY <2>3
                <5>2. N - l \notin (j + 1)..N BY <5>1, <3>2
                <5>3. QED BY <5>1, <5>2, <1>1
            <4> DEFINE c == CHOOSE k \in Setters(v, d, x) : \A l \in Setters(v, d, x) : k <= l
            <4>4. c \in Setters(v, d, x) /\ \A l \in Setters(v, d, x) : c <= l BY <4>2, <4>3
            <4>5. c \in 0..Len(d) BY <4>4, <2>3
            <4> HIDE DEF c
            <4>6. c <= N - j /\ N - j <= c BY <4>2, <4>3, <4>4
            <4>7. c = N - j BY <4>5, <4>6, <4>1, <1>1
            <4>8. scope[j] = conf[v][SubSeq(d, 1, c)] BY <4>7, <4>1, <2>2
            <4>9. f[N][x] = conf[v][SubSeq(d, 1, c)][x] BY <4>8, <3>2
            <4>10. QED BY <4>2, <4>9 DEF c
        <3>3. QED BY <2>1, <3>1, <3>2 DEF Says
    <2>5. Over(f[N], request.defines)[x] =
              IF request.defines[x] # None THEN request.defines[x] ELSE f[N][x]
        BY DEF Over
    <2>6. QED BY <1>5, <2>4, <2>5 DEF Reference
<1>7. QED BY <1>6

-----------------------------------------------------------------------------
(* Each place of the command has one turn. *)

LEMMA ChosenAre ==
    ASSUME VariantsAssumption, VTypeOK, request # None
    PROVE  /\ request \in Request /\ Len(Chosen) \in Nat /\ Chosen \in Seq(Variants)
           /\ \A k \in 1..Len(Chosen) : Chosen[k] \in Variants
           /\ DOMAIN task = 1..Len(Chosen) /\ task \in [1..Len(Chosen) -> Task]
<1>1. request \in Requests BY DEF VTypeOK
<1>2. request \in Request BY <1>1 DEF VariantsAssumption
<1>3. Chosen \in Seq(Variants) BY <1>2 DEF Request, Chosen
<1>4. task \in [1..Len(Chosen) -> Task] BY DEF VTypeOK, Asking
<1>5. QED BY <1>2, <1>3, <1>4

LEMMA ToldMore ==
    ASSUME VTypeOK, NEW S, NEW m, Told(S),
           driver' = [driver EXCEPT !.next = m, !.failed = @ + Failure(driver.next)],
           UNCHANGED <<task, request>>
    PROVE  driver'.failed = 0 <=> \A k \in S \cup {driver.next} : Failure(k)' = 0
<1>1. driver'.failed = driver.failed + Failure(driver.next) BY DEF VTypeOK, Driver
<1>2. Failure(driver.next) \in {0, 1} BY DEF Failure
<1>3. \A k : Failure(k)' = Failure(k) BY DEF Failure, Chosen
<1>4. driver.failed \in Nat BY DEF VTypeOK, Driver
<1>5. driver'.failed = 0 <=> driver.failed = 0 /\ Failure(driver.next) = 0
    BY <1>1, <1>2, <1>4
<1>6. driver'.failed = 0 <=> \A k \in S \cup {driver.next} : Failure(k) = 0
    BY <1>5 DEF Told
<1>7. QED BY <1>3, <1>6

\* A task that runs may do anything but stop being the one that was begun.
LEMMA RunningKeepsTurns ==
    ASSUME VariantsAssumption, VTypeOK, Turns, request # None, NEW i \in DOMAIN task, Running(i),
           NEW new, new.at # "idle", new.runs = task[i].runs, Become(i, new), UNCHANGED <<request, driver>>
    PROVE  Turns'
<1>1. task' = [task EXCEPT ![i] = new] BY DEF Become
<1>2. task'[i] = new /\ \A k \in DOMAIN task : k # i => task'[k] = task[k] BY <1>1
<1>3. Chosen' = Chosen /\ request' # None BY DEF Chosen
<1>4. ~Idle(i) /\ ~Done(i) BY DEF Running, Idle, Done
<1> DEFINE n == Len(Chosen)
<1>5. DOMAIN task = 1..n /\ n \in Nat /\ driver.forked \in Nat /\ driver.next \in Nat \ {0}
    BY ChosenAre DEF VTypeOK, Driver
<1> HIDE DEF n
<1>6. ASSUME NEW k \in 1..n
      PROVE  /\ Idle(k) => Idle(k)'
             /\ Begun(k) => Begun(k)'
             /\ Done(k) => Done(k)' /\ Failure(k)' = Failure(k)
    <2>1. CASE k = i BY <2>1, <1>2, <1>4 DEF Begun
    <2>2. CASE k # i
        <3>1. task'[k] = task[k] BY <2>2, <1>2, <1>5
        <3>2. QED BY <3>1 DEF Idle, Begun, Done, Failure
    <2>3. QED BY <2>1, <2>2
<1>7. /\ driver.at # "exited" => driver.exit = 0
      /\ driver.forked <= n /\ driver.next <= n + 1
      /\ \A k \in 1..driver.forked : Begun(k)
    BY DEF Turns, n
<1>8. \A k \in 1..driver.forked : Begun(k)'
    <2>1. \A k \in 1..driver.forked : k \in 1..n BY <1>5, <1>7
    <2>2. QED BY <2>1, <1>6, <1>7
<1>9. CASE driver.at = "forking"
    <2>1. /\ driver.next = driver.forked + 1 /\ driver.failed = 0
          /\ \A k \in driver.next..n : Idle(k)
        BY <1>9 DEF Turns, n
    <2>2. \A k \in driver.next..n : k \in 1..n BY <1>5
    <2>3. \A k \in driver.next..n : Idle(k)' BY <2>1, <2>2, <1>6
    <2>4. QED BY <2>1, <2>3, <1>3, <1>7, <1>8, <1>9 DEF Turns, n
<1>10. CASE driver.at = "inline"
    <2> DEFINE S == (driver.forked + 1)..(driver.next - 1)
    <2>1. /\ driver.forked < driver.next
          /\ \A k \in S : Done(k)
          /\ driver.next <= n => Idle(driver.next) \/ Begun(driver.next)
          /\ \A k \in (driver.next + 1)..n : Idle(k)
          /\ Told(S)
        BY <1>10 DEF Turns, n
    <2>2. S \in SUBSET (1..n) BY <1>5, <1>7
    <2>3. S' = S OBVIOUS
    <2> HIDE DEF S
    <2>4. \A k \in S : Done(k)' /\ Failure(k)' = Failure(k) BY <2>1, <2>2, <1>6
    <2>5. Told(S)' BY <2>1, <2>3, <2>4 DEF Told
    <2>6. driver.next <= n => driver.next \in 1..n BY <1>5
    <2>7. driver.next <= n => Idle(driver.next)' \/ Begun(driver.next)' BY <2>1, <2>6, <1>6
    <2>8. \A k \in (driver.next + 1)..n : k \in 1..n BY <1>5
    <2>9. \A k \in (driver.next + 1)..n : Idle(k)' BY <2>1, <2>8, <1>6
    <2>10. QED BY <2>1, <2>3, <2>4, <2>5, <2>7, <2>9, <1>3, <1>7, <1>8, <1>10 DEF Turns, n, S
<1>11. CASE driver.at = "reaping"
    <2> DEFINE S == (1..(driver.next - 1)) \cup ((driver.forked + 1)..n)
    <2>1. /\ driver.next <= driver.forked + 1
          /\ \A k \in S : Done(k)
          /\ Told(S)
        BY <1>11 DEF Turns, n
    <2>2. S \in SUBSET (1..n) BY <2>1, <1>5, <1>7
    <2>3. S' = S BY <1>3 DEF n
    <2> HIDE DEF S
    <2>4. \A k \in S : Done(k)' /\ Failure(k)' = Failure(k) BY <2>1, <2>2, <1>6
    <2>5. Told(S)' BY <2>1, <2>3, <2>4 DEF Told
    <2>6. QED BY <2>1, <2>3, <2>4, <2>5, <1>3, <1>7, <1>8, <1>11 DEF Turns, n, S
<1>12. CASE driver.at = "exited" BY <1>4, <1>5, <1>12 DEF Turns, n
<1>13. QED BY <1>9, <1>10, <1>11, <1>12 DEF VTypeOK, Driver

LEMMA AskTurns ==
    ASSUME VariantsAssumption, VTypeOK, Ask
    PROVE  Turns'
<1>1. PICK r \in Requests :
          /\ request' = r
          /\ driver' = [Resting EXCEPT !.at = IF Len(r.variants) = 1 THEN "inline" ELSE "forking",
                                       !.asked = driver.asked + 1]
          /\ task' = [k \in 1..Len(r.variants) |-> [Fresh EXCEPT !.before = conf[r.variants[k]][<<>>]]]
    BY DEF Ask
<1>2. /\ driver'.at \in {"inline", "forking"} /\ driver'.next = 1 /\ driver'.forked = 0
      /\ driver'.failed = 0 /\ driver'.exit = 0
    BY <1>1 DEF Resting
<1>3. Chosen' = r.variants /\ Len(r.variants) \in Nat
    <2>1. r.variants \in Seq(Variants) BY DEF VariantsAssumption, Request
    <2>2. QED BY <1>1, <2>1 DEF Chosen
<1>4. \A k \in 1..Len(r.variants) : Idle(k)' BY <1>1 DEF Idle, Fresh
<1>5. driver'.failed = 0 <=> \A k \in 1..0 : Failure(k)' = 0 BY <1>2
<1>6. Told(1..0)' BY <1>5 DEF Told
<1>7. CASE driver'.at = "inline"
    <2>1. (driver.forked + 1)'..(driver.next - 1)' = 1..0 BY <1>2
    <2>2. QED BY <1>2, <1>3, <1>4, <1>6, <1>7, <2>1 DEF Turns
<1>8. CASE driver'.at = "forking" BY <1>2, <1>3, <1>4, <1>8 DEF Turns
<1>9. QED BY <1>2, <1>7, <1>8

\* A task that is begun.
LEMMA StartingSays ==
    ASSUME VariantsAssumption, VTypeOK, request # None, driver.next <= Len(Chosen),
           Idle(driver.next), Starting(driver.next)
    PROVE  /\ driver.next \in DOMAIN task /\ DOMAIN task' = DOMAIN task
           /\ task'[driver.next] = [task[driver.next] EXCEPT !.at = "started", !.runs = 1]
           /\ task'[driver.next].at # "idle" /\ task'[driver.next].runs = 1
           /\ \A k \in 1..Len(Chosen) : k # driver.next => task'[k] = task[k]
<1>1. PICK i : i = driver.next OBVIOUS
<1>2. DOMAIN task = 1..Len(Chosen) /\ i \in DOMAIN task /\ task[i] \in Task
    BY <1>1, ChosenAre DEF VTypeOK, Driver
<1>3. task[i].runs = 0 BY <1>1 DEF Idle
<1>4. task' = [task EXCEPT ![i] = [task[i] EXCEPT !.at = "started", !.runs = @ + 1]]
    BY <1>1 DEF Starting, Become
<1>5. task'[i] = [task[i] EXCEPT !.at = "started", !.runs = 1] BY <1>2, <1>3, <1>4
<1>6. task'[i].at = "started" /\ task'[i].runs = 1 BY <1>2, <1>5 DEF Task
<1>7. QED BY <1>1, <1>2, <1>4, <1>5, <1>6

LEMMA ForkTurns ==
    ASSUME VariantsAssumption, VTypeOK, Turns, request # None, Fork
    PROVE  Turns'
<1> DEFINE n == Len(Chosen)
<1>1. /\ driver.at = "forking" /\ driver.next <= n /\ request' = request /\ Chosen' = Chosen
      /\ driver.next \in Nat \ {0} /\ driver.forked \in Nat /\ n \in Nat
    BY ChosenAre DEF Fork, VTypeOK, Driver, Chosen
<1>2. /\ driver.exit = 0 /\ driver.failed = 0 /\ driver.next = driver.forked + 1
      /\ \A k \in driver.next..n : Idle(k)
      /\ \A k \in 1..driver.forked : Begun(k)
    BY <1>1 DEF Turns
<1>3. CASE Starting(driver.next) /\ driver' = [driver EXCEPT !.next = @ + 1, !.forked = @ + 1]
    <2>1. /\ driver'.next = driver.next + 1 /\ driver'.forked = driver.next
          /\ driver'.at = "forking" /\ driver'.exit = 0 /\ driver'.failed = 0
        BY <1>1, <1>2, <1>3 DEF VTypeOK, Driver
    <2>2. PICK i : i = driver.next OBVIOUS
    <2>3. i \in i..n /\ Idle(driver.next) BY <1>1, <1>2, <2>2
    <2>4. /\ task'[i].at # "idle" /\ task'[i].runs = 1
          /\ \A k \in 1..n : k # i => task'[k] = task[k]
        BY <1>1, <1>3, <2>2, <2>3, StartingSays
    <2> HIDE DEF n
    <2>5. \A k \in (i + 1)..n : k \in 1..n /\ k \in i..n /\ k # i BY <1>1, <2>2
    <2>6. \A k \in (i + 1)..n : Idle(k)' BY <1>2, <2>2, <2>4, <2>5 DEF Idle
    <2>7. \A k \in 1..i : k \in 1..n /\ (k = i \/ k \in 1..driver.forked) BY <1>1, <1>2, <2>2
    <2>8. \A k \in 1..i : Begun(k)' BY <1>2, <2>4, <2>7 DEF Begun
    <2>9. driver'.next = driver'.forked + 1 /\ driver'.forked <= n /\ driver'.next <= n + 1
        BY <1>1, <2>1
    <2>10. QED BY <1>1, <2>1, <2>2, <2>6, <2>8, <2>9 DEF Turns, n
<1>4. CASE driver' = [driver EXCEPT !.at = "inline"] /\ UNCHANGED task
    <2>1. /\ driver'.next = driver.next /\ driver'.forked = driver.forked
          /\ driver'.at = "inline" /\ driver'.exit = 0 /\ driver'.failed = 0
        BY <1>1, <1>2, <1>4 DEF VTypeOK, Driver
    <2> HIDE DEF n
    <2>2. /\ \A k \in driver.next..n : Idle(k)'
          /\ \A k \in 1..driver.forked : Begun(k)'
        BY <1>1, <1>2, <1>4 DEF Idle, Begun
    <2>3. (driver.forked + 1)..(driver.next - 1) = {} BY <1>1, <1>2
    <2>4. Told((driver.forked + 1)..(driver.next - 1))' BY <2>1, <2>3 DEF Told
    <2>5. \A k \in (driver.next + 1)..n : k \in driver.next..n BY <1>1
    <2>6. driver.next \in driver.next..n /\ driver.forked < driver.next /\ driver.forked <= n BY <1>1, <1>2
    <2>7. QED BY <1>1, <1>2, <2>1, <2>2, <2>3, <2>4, <2>5, <2>6 DEF Turns, n
<1>5. QED BY <1>3, <1>4 DEF Fork

LEMMA BeginTurns ==
    ASSUME VariantsAssumption, VTypeOK, Turns, request # None, Begin
    PROVE  Turns'
<1> DEFINE n == Len(Chosen)
<1>1. /\ driver.at = "inline" /\ driver.next <= n /\ request' = request /\ Chosen' = Chosen
      /\ driver' = driver /\ Starting(driver.next)
      /\ driver.next \in Nat \ {0} /\ driver.forked \in Nat /\ n \in Nat
    BY ChosenAre DEF Begin, VTypeOK, Driver, Chosen
<1>2. /\ driver.exit = 0 /\ driver.forked < driver.next /\ driver.forked <= n
      /\ \A k \in (driver.forked + 1)..(driver.next - 1) : Done(k)
      /\ Idle(driver.next) \/ Begun(driver.next)
      /\ \A k \in (driver.next + 1)..n : Idle(k)
      /\ Told((driver.forked + 1)..(driver.next - 1))
      /\ \A k \in 1..driver.forked : Begun(k)
    BY <1>1 DEF Turns
<1>3. Idle(driver.next) BY <1>2 DEF Begin, Begun
<1>4. /\ task'[driver.next].at # "idle" /\ task'[driver.next].runs = 1
      /\ \A k \in 1..n : k # driver.next => task'[k] = task[k]
    BY <1>1, <1>3, StartingSays
<1> HIDE DEF n
<1> DEFINE S == (driver.forked + 1)..(driver.next - 1)
<1>5. \A k \in S : k \in 1..n /\ k # driver.next BY <1>1, <1>2
<1>6. S' = S BY <1>1 DEF S
<1> HIDE DEF S
<1>7. /\ \A k \in S : Done(k)'
      /\ \A k \in S : Failure(k)' = Failure(k)
    BY <1>1, <1>2, <1>4, <1>5 DEF Done, Begun, Failure, S
<1>8. Told(S)' BY <1>1, <1>2, <1>6, <1>7 DEF Told, S
<1>9. \A k \in (driver.next + 1)..n : k \in 1..n /\ k # driver.next BY <1>1
<1>10. \A k \in (driver.next + 1)..n : Idle(k)' BY <1>1, <1>2, <1>4, <1>9 DEF Idle
<1>11. \A k \in 1..driver.forked : k \in 1..n /\ k # driver.next BY <1>1, <1>2
<1>12. \A k \in 1..driver.forked : Begun(k)' BY <1>1, <1>2, <1>4, <1>11 DEF Begun
<1>13. Begun(driver.next)' BY <1>1, <1>4 DEF Begun
<1>14. QED BY <1>1, <1>2, <1>6, <1>7, <1>8, <1>10, <1>12, <1>13 DEF Turns, n, S

LEMMA FinishTurns ==
    ASSUME VariantsAssumption, VTypeOK, Turns, request # None, Finish
    PROVE  Turns'
<1> DEFINE n == Len(Chosen)
<1>1. /\ driver.at = "inline" /\ driver.next <= n /\ request' = request /\ Chosen' = Chosen
      /\ task' = task /\ task[driver.next].at = "done"
      /\ driver' = [driver EXCEPT !.next = @ + 1, !.failed = @ + Failure(driver.next)]
      /\ driver.next \in Nat \ {0} /\ driver.forked \in Nat /\ n \in Nat
    BY ChosenAre DEF Finish, VTypeOK, Driver, Chosen
<1>2. /\ driver.exit = 0 /\ driver.forked < driver.next /\ driver.forked <= n
      /\ \A k \in (driver.forked + 1)..(driver.next - 1) : Done(k)
      /\ Idle(driver.next) \/ Begun(driver.next)
      /\ \A k \in (driver.next + 1)..n : Idle(k)
      /\ Told((driver.forked + 1)..(driver.next - 1))
      /\ \A k \in 1..driver.forked : Begun(k)
    BY <1>1 DEF Turns
<1>3. Done(driver.next) BY <1>1, <1>2 DEF Done, Idle
<1> DEFINE S == (driver.forked + 1)..(driver.next - 1)
<1>4. /\ driver'.next = driver.next + 1 /\ driver'.forked = driver.forked
      /\ driver'.at = "inline" /\ driver'.exit = 0
    BY <1>1, <1>2 DEF VTypeOK, Driver
<1>5. driver'.failed = 0 <=> \A k \in S \cup {driver.next} : Failure(k)' = 0
    <2>1. Told(S) BY <1>2
    <2> HIDE DEF S
    <2>2. QED BY <1>1, <2>1, ToldMore
<1> HIDE DEF n
<1>6. (driver'.forked + 1)..(driver'.next - 1) = S \cup {driver.next} BY <1>1, <1>2, <1>4
<1>7. \A k \in S \cup {driver.next} : Done(k)' BY <1>1, <1>2, <1>3 DEF Done, Begun
<1> HIDE DEF S
<1>8. Told((driver.forked + 1)..(driver.next - 1))' BY <1>5, <1>6 DEF Told
<1>9. driver'.next <= n => driver'.next \in (driver.next + 1)..n BY <1>1, <1>4
<1>10. driver'.next <= n => Idle(driver.next)' BY <1>1, <1>2, <1>9 DEF Idle
<1>11. \A k \in (driver'.next + 1)..n : k \in (driver.next + 1)..n BY <1>1, <1>4
<1>12. \A k \in (driver'.next + 1)..n : Idle(k)'
    BY <1>1, <1>2, <1>4, <1>11 DEF Idle
<1>13. \A k \in 1..driver.forked : Begun(k)' BY <1>1, <1>2 DEF Begun
<1>14. driver'.next <= n + 1 /\ driver'.forked < driver'.next BY <1>1, <1>2, <1>4
<1>15. QED BY <1>1, <1>2, <1>4, <1>6, <1>7, <1>8, <1>10, <1>12, <1>13, <1>14 DEF Turns, n

LEMMA TurnTurns ==
    ASSUME VariantsAssumption, VTypeOK, Turns, request # None, Turn
    PROVE  Turns'
<1> DEFINE n == Len(Chosen)
<1>1. /\ driver.at \in {"forking", "inline"} /\ driver.next > n /\ request' = request /\ Chosen' = Chosen
      /\ task' = task /\ driver' = [driver EXCEPT !.at = "reaping", !.next = 1]
      /\ driver.next \in Nat \ {0} /\ driver.forked \in Nat /\ n \in Nat
    BY ChosenAre DEF Turn, VTypeOK, Driver, Chosen
<1>2. /\ driver.exit = 0 /\ driver.forked <= n /\ driver.next <= n + 1
      /\ \A k \in 1..driver.forked : Begun(k)
    BY <1>1 DEF Turns
<1>3. driver.next = n + 1 BY <1>1, <1>2
<1>4. /\ driver'.next = 1 /\ driver'.forked = driver.forked /\ driver'.failed = driver.failed
      /\ driver'.at = "reaping" /\ driver'.exit = 0
    BY <1>1, <1>2 DEF VTypeOK, Driver
<1> DEFINE S == (driver.forked + 1)..n
<1>5. (\A k \in S : Done(k)) /\ Told(S)
    <2>1. CASE driver.at = "forking"
        <3>1. driver.next = driver.forked + 1 /\ driver.failed = 0 BY <2>1, <1>1 DEF Turns
        <3>2. S = {} BY <3>1, <1>1, <1>3
        <3> HIDE DEF S
        <3>3. QED BY <3>1, <3>2 DEF Told
    <2>2. CASE driver.at = "inline"
        <3>1. /\ \A k \in (driver.forked + 1)..(driver.next - 1) : Done(k)
              /\ Told((driver.forked + 1)..(driver.next - 1))
            BY <2>2, <1>1 DEF Turns
        <3>2. driver.next - 1 = n BY <1>1, <1>3
        <3>3. QED BY <3>1, <3>2
    <2>3. QED BY <1>1, <2>1, <2>2
<1> HIDE DEF n
<1>6. ((1..(driver.next - 1)) \cup ((driver.forked + 1)..Len(Chosen)))' = S BY <1>1, <1>4 DEF n
<1> HIDE DEF S
<1>7. \A k \in S : Done(k)' BY <1>1, <1>5 DEF Done, Begun
<1>8. Told((1..(driver.next - 1)) \cup ((driver.forked + 1)..Len(Chosen)))'
    BY <1>1, <1>4, <1>5, <1>6 DEF Told, Failure
<1>9. \A k \in 1..driver.forked : Begun(k)' BY <1>1, <1>2 DEF Begun
<1>10. driver'.next <= driver'.forked + 1 /\ driver'.next <= n + 1 BY <1>1, <1>4
<1>11. QED BY <1>1, <1>2, <1>4, <1>6, <1>7, <1>8, <1>9, <1>10 DEF Turns, n

LEMMA ReapTurns ==
    ASSUME VariantsAssumption, VTypeOK, Turns, request # None, Reap
    PROVE  Turns'
<1> DEFINE n == Len(Chosen)
<1>1. /\ driver.at = "reaping" /\ request' = request /\ Chosen' = Chosen /\ task' = task
      /\ driver.next \in Nat \ {0} /\ driver.forked \in Nat /\ n \in Nat /\ driver.failed \in Nat
    BY ChosenAre DEF Reap, VTypeOK, Driver, Chosen
<1> DEFINE S == (1..(driver.next - 1)) \cup ((driver.forked + 1)..n)
<1>2. /\ driver.exit = 0 /\ driver.forked <= n /\ driver.next <= driver.forked + 1
      /\ \A k \in 1..driver.forked : Begun(k)
      /\ \A k \in S : Done(k)
      /\ Told(S)
    BY <1>1 DEF Turns
<1> HIDE DEF n
<1>3. \A k \in 1..driver.forked : Begun(k)' BY <1>1, <1>2 DEF Begun
<1>4. CASE driver.next <= driver.forked
    <2>1. /\ task[driver.next].at = "done"
          /\ driver' = [driver EXCEPT !.next = @ + 1, !.failed = @ + Failure(driver.next)]
        BY <1>4 DEF Reap
    <2>2. /\ driver'.next = driver.next + 1 /\ driver'.forked = driver.forked
          /\ driver'.at = "reaping" /\ driver'.exit = 0
        BY <2>1, <1>1, <1>2 DEF VTypeOK, Driver
    <2>3. Done(driver.next) BY <2>1, <1>1, <1>2, <1>4 DEF Done
    <2>4. driver'.failed = 0 <=> \A k \in S \cup {driver.next} : Failure(k)' = 0
        <3>1. Told(S) BY <1>2
        <3> HIDE DEF S
        <3>2. QED BY <1>1, <2>1, <3>1, ToldMore
    <2>5. ((1..(driver.next - 1)) \cup ((driver.forked + 1)..Len(Chosen)))' = S \cup {driver.next}
        BY <1>1, <2>2 DEF n
    <2>6. \A k \in S \cup {driver.next} : Done(k)' BY <1>1, <1>2, <2>3 DEF Done, Begun
    <2> HIDE DEF S
    <2>7. Told((1..(driver.next - 1)) \cup ((driver.forked + 1)..Len(Chosen)))'
        BY <2>4, <2>5 DEF Told
    <2>8. driver'.next <= driver'.forked + 1 /\ driver'.next <= n + 1 BY <1>1, <1>2, <1>4, <2>2
    <2>9. QED BY <1>1, <1>2, <1>3, <2>2, <2>5, <2>6, <2>7, <2>8 DEF Turns, n
<1>5. CASE ~(driver.next <= driver.forked)
    <2>1. driver' = [driver EXCEPT !.at = "exited", !.exit = IF driver.failed > 0 THEN 1 ELSE 0]
        BY <1>5 DEF Reap
    <2>2. /\ driver'.next = driver.next /\ driver'.forked = driver.forked /\ driver'.at = "exited"
          /\ driver'.exit = 0 <=> driver.failed = 0
        BY <2>1, <1>1 DEF VTypeOK, Driver
    <2>3. S = 1..n BY <1>1, <1>2, <1>5
    <2> HIDE DEF S
    <2>4. \A k \in 1..n : Done(k)' BY <1>1, <1>2, <2>3 DEF Done, Begun
    <2>5. driver'.exit = 0 <=> \A k \in 1..n : Failure(k)' = 0
        BY <1>1, <1>2, <2>2, <2>3 DEF Told, Failure
    <2>6. driver'.next <= n + 1 /\ driver'.forked <= n BY <1>1, <1>2, <2>2
    <2>7. QED BY <1>1, <1>3, <2>2, <2>4, <2>5, <2>6 DEF Turns, n
<1>6. QED BY <1>4, <1>5

-----------------------------------------------------------------------------
(* What each step leaves. *)

\* What every handler relies on.
LEMMA TaskSays ==
    ASSUME VariantsAssumption, VTypeOK, Gates, request # None, NEW k \in DOMAIN task
    PROVE  /\ task[k] \in Task /\ Chosen[k] \in Variants /\ conf[Chosen[k]] \in [Dirs -> Configuration]
           /\ request \in Request /\ <<>> \in Dirs /\ None \notin Configs
           /\ Gate(task[k], request, conf[Chosen[k]]) /\ Opens(k)
BY ChosenAre DEF VTypeOK, VariantsAssumption, Gates

LEMMA AskedSays ==
    ASSUME VariantsAssumption, VTypeOK, request # None, NEW k \in DOMAIN task, NEW d \in Dirs
    PROVE  /\ Asked(k, d) \in Scopes /\ DOMAIN Asked(k, d) = DOMAIN task[k].scoped \cup {d}
           /\ \A e \in DOMAIN Asked(k, d) : Asked(k, d)[e] =
                  IF e \in DOMAIN task[k].scoped THEN task[k].scoped[e]
                  ELSE FindConfigForDir(conf[Chosen[k]], e, request.defines)
<1> DEFINE s == task[k].scoped
           D == DOMAIN s \cup {d}
<1>1. s \in Scopes /\ Chosen[k] \in Variants BY ChosenAre DEF Task
<1>2. PICK E \in SUBSET Dirs : s \in [E -> Configs] BY <1>1 DEF Scopes
<1>3. D \in SUBSET Dirs /\ DOMAIN s = E BY <1>2
<1>4. \A e \in D : Scoped(k, e) \in Configs
    <2>1. \A e \in D : FindConfigForDir(conf[Chosen[k]], e, request.defines) \in Configs
        BY <1>1, <1>3, FoundType
    <2>2. QED BY <2>1, <1>2 DEF Scoped
<1>5. Asked(k, d) = [e \in D |-> Scoped(k, e)] BY DEF Asked
<1> HIDE DEF D
<1>6. Asked(k, d) \in [D -> Configs] BY <1>4, <1>5
<1>7. Asked(k, d) \in Scopes BY <1>3, <1>6 DEF Scopes
<1>8. QED BY <1>5, <1>7 DEF Scoped, D

\* How a step of a task takes it from old to new, and the file at the root of its
\* build directory from was to is.
Opening(old, new, r, was, is) ==
    /\ new.before = old.before
    /\ old.at = "made" => Ran(new)
    /\ r.kind = "configure" =>
          /\ (new.at = "made" \/ Won(new)) /\ ~r.dry => is # None \/ old.at = "made"
          /\ was # None /\ is = None => Lost(new, r)
          /\ was = None /\ is # None => r.install # None \/ (~r.dry /\ (<<>> \in r.rules \/ Ran(new)))

\* A step of a task that runs, and what it leaves.
Moves(k) ==
    /\ Running(k) /\ UNCHANGED <<request, driver>>
    /\ conf' \in [Variants -> [Dirs -> Configuration]]
    /\ \A w \in Variants : w # Chosen[k] => conf'[w] = conf[w]
    /\ request.kind = "build" => conf' = conf
    /\ \E new \in Task :
          /\ Become(k, new) /\ new.at # "idle" /\ new.runs = task[k].runs
          /\ Gate(new, request, conf'[Chosen[k]])
          /\ Opening(task[k], new, request, conf[Chosen[k]][<<>>], conf'[Chosen[k]][<<>>])

LEMMA ConfBecomes ==
    ASSUME VariantsAssumption, VTypeOK, NEW v \in Variants, NEW d \in Dirs, NEW c \in Configuration,
           conf' = [conf EXCEPT ![v][d] = c]
    PROVE  /\ conf' \in [Variants -> [Dirs -> Configuration]]
           /\ \A w \in Variants : w # v => conf'[w] = conf[w]
           /\ conf'[v] = [conf[v] EXCEPT ![d] = c]
           /\ conf'[v][d] = c /\ \A e \in Dirs : e # d => conf'[v][e] = conf[v][e]
<1>1. conf' = [conf EXCEPT ![v] = [conf[v] EXCEPT ![d] = c]] OBVIOUS
<1>2. conf \in [Variants -> [Dirs -> Configuration]] BY DEF VTypeOK
<1>3. [conf[v] EXCEPT ![d] = c] \in [Dirs -> Configuration] BY <1>2
<1>4. QED BY <1>1, <1>2, <1>3

\* A handler that leaves the files alone, and comes to no success and to no root file.
LEMMA QuietMoves ==
    ASSUME VariantsAssumption, VTypeOK, request # None, NEW k \in DOMAIN task, Running(k),
           UNCHANGED <<conf, request, driver>>,
           NEW new \in Task, Become(k, new), new.at # "idle", new.runs = task[k].runs,
           new.before = task[k].before, Gate(new, request, conf[Chosen[k]]),
           task[k].at = "made" => Ran(new),
           request.kind = "configure" /\ (new.at = "made" \/ Won(new)) /\ ~request.dry =>
               conf[Chosen[k]][<<>>] # None \/ task[k].at = "made"
    PROVE  Moves(k)
<1>1. Opening(task[k], new, request, conf[Chosen[k]][<<>>], conf'[Chosen[k]][<<>>]) BY DEF Opening
<1>2. QED BY <1>1 DEF Moves, VTypeOK

LEMMA InstallMoves ==
    ASSUME VariantsAssumption, VTypeOK, Gates, request # None, NEW k \in DOMAIN task, Install(k)
    PROVE  Moves(k)
<1>1. /\ task[k] \in Task /\ Chosen[k] \in Variants /\ conf[Chosen[k]] \in [Dirs -> Configuration]
      /\ request \in Request /\ <<>> \in Dirs /\ None \notin Configs
      /\ Gate(task[k], request, conf[Chosen[k]])
    BY TaskSays
<1>2. /\ task[k].at = "started" /\ request.kind = "configure" /\ UNCHANGED <<request, driver>>
    BY DEF Install, Still
<1>3. /\ DOMAIN task[k].scoped = {} /\ task[k].todo = {} /\ Running(k) /\ task[k].rc = 0 /\ ~task[k].killed
    BY <1>1, <1>2 DEF Gate, Running, Task
<1> DEFINE loading == [task[k] EXCEPT !.at = "load"]
           failing == [task[k] EXCEPT !.at = "done", !.rc = 1]
<1>4. /\ loading \in Task /\ loading.at = "load" /\ loading.runs = task[k].runs /\ loading.killed = task[k].killed
      /\ loading.scoped = task[k].scoped /\ loading.todo = task[k].todo
      /\ loading.before = task[k].before /\ loading.rc = task[k].rc
    BY <1>1 DEF Task
<1>5. /\ failing \in Task /\ failing.at = "done" /\ failing.rc = 1 /\ failing.runs = task[k].runs
      /\ failing.scoped = task[k].scoped /\ failing.todo = task[k].todo
      /\ failing.before = task[k].before
    BY <1>1 DEF Task
<1> HIDE DEF loading, failing
<1>6. \A files : Gate(loading, request, files) /\ Gate(failing, request, files)
    BY <1>1, <1>2, <1>3, <1>4, <1>5 DEF Gate, Request
<1>7. ~Won(failing) /\ ~Won(loading) BY <1>4, <1>5 DEF Won
<1>8. CASE Become(k, loading) /\ UNCHANGED conf
    BY <1>2, <1>3, <1>4, <1>6, <1>7, <1>8, QuietMoves
<1>9. CASE Become(k, failing) /\ UNCHANGED conf
    BY <1>2, <1>3, <1>5, <1>6, <1>7, <1>9, QuietMoves
<1>10. ASSUME NEW c \in Configuration, NEW new \in {loading, failing}, Become(k, new),
              request.install # None, conf' = [conf EXCEPT ![Chosen[k]][<<>>] = c],
              c = None => new = failing
       PROVE  Moves(k)
    <2>1. /\ conf' \in [Variants -> [Dirs -> Configuration]]
          /\ \A w \in Variants : w # Chosen[k] => conf'[w] = conf[w]
          /\ conf'[Chosen[k]][<<>>] = c
        <3>1. PICK d \in Dirs : d = <<>> BY <1>1
        <3>2. conf' = [conf EXCEPT ![Chosen[k]][d] = c] BY <3>1, <1>10
        <3>3. QED BY <1>1, <3>1, <3>2, ConfBecomes
    <2>2. c = None => Lost(new, request) BY <1>3, <1>5, <1>10 DEF Lost
    <2>3. /\ new \in Task /\ new.at # "idle" /\ new.runs = task[k].runs /\ new.before = task[k].before
          /\ ~Won(new) /\ new.at # "made" /\ Gate(new, request, conf'[Chosen[k]])
        BY <1>4, <1>5, <1>6, <1>7, <1>10
    <2>4. Opening(task[k], new, request, conf[Chosen[k]][<<>>], conf'[Chosen[k]][<<>>])
        BY <1>2, <1>10, <2>1, <2>2, <2>3 DEF Opening
    <2>5. QED BY <1>2, <1>3, <1>10, <2>1, <2>3, <2>4 DEF Moves
<1>11. None \in Configuration /\ request.install \in Configuration BY <1>1 DEF Request, Configuration
<1>12. QED BY <1>8, <1>9, <1>10, <1>11 DEF Install, GoOn, Quit, loading, failing

LEMMA LoadMoves ==
    ASSUME VariantsAssumption, VTypeOK, Gates, request # None, NEW k \in DOMAIN task, Load(k)
    PROVE  Moves(k)
<1>1. /\ task[k] \in Task /\ Chosen[k] \in Variants /\ conf[Chosen[k]] \in [Dirs -> Configuration]
      /\ request \in Request /\ <<>> \in Dirs /\ None \notin Configs
      /\ Gate(task[k], request, conf[Chosen[k]])
    BY TaskSays
<1>2. /\ task[k].at = "load" /\ UNCHANGED <<request, driver>> /\ conf' = conf
    BY DEF Load, Still
<1>3. Running(k) /\ request.kind = "configure" /\ task[k].rc = 0 /\ ~task[k].killed
      /\ task[k].todo \subseteq request.rules
    BY <1>1, <1>2 DEF Gate, Running, Task
<1> DEFINE failing == [task[k] EXCEPT !.at = "done", !.rc = 1]
           loaded == [task[k] EXCEPT !.at = "rules", !.scoped = Asked(k, <<>>), !.todo = request.rules]
<1>4. /\ failing \in Task /\ failing.at = "done" /\ failing.rc = 1 /\ failing.runs = task[k].runs
      /\ failing.scoped = task[k].scoped /\ failing.todo = task[k].todo
      /\ failing.before = task[k].before
    BY <1>1 DEF Task
<1>5. /\ Asked(k, <<>>) \in Scopes /\ <<>> \in DOMAIN Asked(k, <<>>)
    <2>1. PICK d \in Dirs : d = <<>> BY <1>1
    <2>2. Asked(k, d) \in Scopes /\ DOMAIN Asked(k, d) = DOMAIN task[k].scoped \cup {d} BY AskedSays
    <2>3. QED BY <2>1, <2>2
<1>6. request.rules \in SUBSET Dirs BY <1>1 DEF Request
<1>7. /\ loaded \in Task /\ loaded.at = "rules" /\ loaded.runs = task[k].runs /\ loaded.killed = task[k].killed
      /\ loaded.scoped = Asked(k, <<>>) /\ loaded.todo = request.rules
      /\ loaded.before = task[k].before /\ loaded.rc = task[k].rc
    BY <1>1, <1>5, <1>6 DEF Task
<1> HIDE DEF failing, loaded
<1>8. CASE Become(k, failing)
    <2>1. Gate(failing, request, conf[Chosen[k]]) /\ ~Won(failing) BY <1>1, <1>2, <1>3, <1>4 DEF Gate, Won
    <2>2. QED BY <1>2, <1>3, <1>4, <1>8, <2>1, QuietMoves
<1>9. CASE Become(k, loaded)
    <2>1. Gate(loaded, request, conf[Chosen[k]]) /\ ~Won(loaded) BY <1>1, <1>2, <1>3, <1>5, <1>7 DEF Gate, Won
    <2>2. QED BY <1>2, <1>3, <1>7, <1>9, <2>1, QuietMoves
<1>10. QED BY <1>8, <1>9 DEF Load, Quit, loaded, failing

LEMMA RunRuleMoves ==
    ASSUME VariantsAssumption, VTypeOK, Gates, request # None, NEW k \in DOMAIN task, RunRule(k)
    PROVE  Moves(k)
<1>1. /\ task[k] \in Task /\ Chosen[k] \in Variants /\ conf[Chosen[k]] \in [Dirs -> Configuration]
      /\ request \in Request /\ <<>> \in Dirs /\ None \notin Configs
      /\ Gate(task[k], request, conf[Chosen[k]])
    BY TaskSays
<1>2. /\ task[k].at = "rules" /\ UNCHANGED <<request, driver>>
    BY DEF RunRule, Still
<1>3. /\ Running(k) /\ request.kind = "configure" /\ <<>> \in DOMAIN task[k].scoped
      /\ task[k].todo \subseteq request.rules /\ task[k].todo \in SUBSET Dirs
      /\ task[k].rc = 0 /\ ~task[k].killed
    BY <1>1, <1>2 DEF Gate, Running, Task
<1>4. PICK d \in task[k].todo :
        \/ /\ ~request.dry
           /\ Become(k, [task[k] EXCEPT !.wrong = TRUE, !.todo = IF request.keepGoing THEN @ \ {d} ELSE {}])
           /\ UNCHANGED conf
        \/ /\ conf' = IF request.dry THEN conf ELSE [conf EXCEPT ![Chosen[k]][d] = task[k].scoped[<<>>]]
           /\ Become(k, [task[k] EXCEPT !.todo = @ \ {d}])
    BY DEF RunRule
<1> DEFINE wrong == [task[k] EXCEPT !.wrong = TRUE, !.todo = IF request.keepGoing THEN @ \ {d} ELSE {}]
           next == [task[k] EXCEPT !.todo = @ \ {d}]
<1>5. /\ wrong \in Task /\ wrong.at = "rules" /\ wrong.runs = task[k].runs /\ wrong.killed = task[k].killed
      /\ wrong.todo \subseteq task[k].todo /\ wrong.rc = task[k].rc
      /\ wrong.scoped = task[k].scoped /\ wrong.before = task[k].before
    BY <1>1, <1>2 DEF Task
<1>6. /\ next \in Task /\ next.at = "rules" /\ next.runs = task[k].runs /\ next.killed = task[k].killed
      /\ next.todo \subseteq task[k].todo /\ next.rc = task[k].rc
      /\ next.scoped = task[k].scoped /\ next.before = task[k].before
    BY <1>1, <1>2 DEF Task
<1> HIDE DEF wrong, next
<1>7. CASE Become(k, wrong) /\ UNCHANGED conf
    <2>1. Gate(wrong, request, conf[Chosen[k]]) /\ ~Won(wrong) BY <1>1, <1>2, <1>3, <1>5 DEF Gate, Won
    <2>2. QED BY <1>2, <1>3, <1>5, <1>7, <2>1, QuietMoves
<1>8. CASE Become(k, next) /\ request.dry /\ UNCHANGED conf
    <2>1. Gate(next, request, conf[Chosen[k]]) /\ ~Won(next) BY <1>1, <1>2, <1>3, <1>6 DEF Gate, Won
    <2>2. QED BY <1>2, <1>3, <1>6, <1>8, <2>1, QuietMoves
<1>9. CASE Become(k, next) /\ ~request.dry /\ conf' = [conf EXCEPT ![Chosen[k]][d] = task[k].scoped[<<>>]]
    <2>1. PICK c \in Configuration : c = task[k].scoped[<<>>] /\ c # None
        <3>1. PICK D \in SUBSET Dirs : task[k].scoped \in [D -> Configs] BY <1>1 DEF Task, Scopes
        <3>2. task[k].scoped[<<>>] \in Configs BY <3>1, <1>3
        <3>3. QED BY <3>2, <1>1 DEF Configuration
    <2>2. d \in Dirs /\ d \in request.rules BY <1>3
    <2>3. /\ conf' \in [Variants -> [Dirs -> Configuration]]
          /\ \A w \in Variants : w # Chosen[k] => conf'[w] = conf[w]
          /\ conf'[Chosen[k]][d] = c
          /\ \A e \in Dirs : e # d => conf'[Chosen[k]][e] = conf[Chosen[k]][e]
        <3>1. PICK v \in Variants : v = Chosen[k] BY <1>1
        <3>2. conf' = [conf EXCEPT ![v][d] = c] BY <1>9, <2>1, <3>1
        <3>3. d \in Dirs BY <2>2
        <3>4. /\ conf' \in [Variants -> [Dirs -> Configuration]]
              /\ \A w \in Variants : w # v => conf'[w] = conf[w]
              /\ conf'[v][d] = c /\ \A e \in Dirs : e # d => conf'[v][e] = conf[v][e]
            BY <3>2, <3>3, ConfBecomes
        <3>5. QED BY <3>1, <3>4
    <2>4. conf'[Chosen[k]][<<>>] = conf[Chosen[k]][<<>>] \/ (conf'[Chosen[k]][<<>>] # None /\ <<>> \in request.rules)
        BY <1>1, <2>1, <2>2, <2>3
    <2>5. Gate(next, request, conf'[Chosen[k]]) /\ ~Won(next)
        BY <1>1, <1>2, <1>3, <1>6 DEF Gate, Won
    <2>6. Opening(task[k], next, request, conf[Chosen[k]][<<>>], conf'[Chosen[k]][<<>>])
        BY <1>2, <1>6, <1>9, <2>4, <2>5 DEF Opening
    <2>7. QED BY <1>2, <1>3, <1>6, <1>9, <2>3, <2>5, <2>6 DEF Moves
<1>10. QED BY <1>4, <1>7, <1>8, <1>9 DEF wrong, next

LEMMA ConcludeMoves ==
    ASSUME VariantsAssumption, VTypeOK, Gates, request # None, NEW k \in DOMAIN task, Conclude(k)
    PROVE  Moves(k)
<1>1. /\ task[k] \in Task /\ Chosen[k] \in Variants /\ conf[Chosen[k]] \in [Dirs -> Configuration]
      /\ request \in Request /\ <<>> \in Dirs /\ None \notin Configs
      /\ Gate(task[k], request, conf[Chosen[k]])
    BY TaskSays
<1>2. /\ task[k].at = "rules" /\ task[k].todo = {} /\ UNCHANGED <<conf, request, driver>>
    BY DEF Conclude, Still
<1>3. /\ Running(k) /\ request.kind = "configure" /\ <<>> \in DOMAIN task[k].scoped
      /\ task[k].rc = 0 /\ ~task[k].killed
    BY <1>1, <1>2 DEF Gate, Running, Task
<1> DEFINE over(code) == [task[k] EXCEPT !.at = "done", !.rc = code]
           creating == [task[k] EXCEPT !.at = "create"]
<1>4. \A code \in {0, 1} :
          /\ over(code) \in Task /\ over(code).at = "done" /\ over(code).rc = code
          /\ over(code).runs = task[k].runs /\ over(code).killed = task[k].killed
          /\ over(code).scoped = task[k].scoped /\ over(code).todo = task[k].todo
          /\ over(code).before = task[k].before
    BY <1>1 DEF Task
<1>5. /\ creating \in Task /\ creating.at = "create" /\ creating.runs = task[k].runs
      /\ creating.killed = task[k].killed /\ creating.rc = task[k].rc /\ creating.wrong = task[k].wrong
      /\ creating.scoped = task[k].scoped /\ creating.todo = task[k].todo
      /\ creating.before = task[k].before
    BY <1>1 DEF Task
<1> HIDE DEF over, creating
<1>6. \A code \in {0, 1} : Gate(over(code), request, conf[Chosen[k]])
    BY <1>1, <1>2, <1>3, <1>4 DEF Gate
<1>7. CASE task[k].wrong /\ Become(k, over(1))
    <2>1. ~Won(over(1)) BY <1>4 DEF Won
    <2>2. QED BY <1>2, <1>3, <1>4, <1>6, <1>7, <2>1, QuietMoves
<1>8. CASE (conf[Chosen[k]][<<>>] # None \/ request.dry) /\ Become(k, over(0))
    BY <1>2, <1>3, <1>4, <1>6, <1>8, QuietMoves
<1>9. CASE ~task[k].wrong /\ ~request.dry /\ Become(k, creating)
    <2>1. Gate(creating, request, conf[Chosen[k]]) /\ ~Won(creating)
        BY <1>1, <1>2, <1>3, <1>5, <1>9 DEF Gate, Won
    <2>2. QED BY <1>2, <1>3, <1>5, <1>9, <2>1, QuietMoves
<1>10. QED BY <1>7, <1>8, <1>9 DEF Conclude, EnsureConfig, Quit, GoOn, over, creating

LEMMA CreateMoves ==
    ASSUME VariantsAssumption, VTypeOK, Gates, request # None, NEW k \in DOMAIN task, Create(k)
    PROVE  Moves(k)
<1>1. /\ task[k] \in Task /\ Chosen[k] \in Variants /\ conf[Chosen[k]] \in [Dirs -> Configuration]
      /\ request \in Request /\ <<>> \in Dirs /\ None \notin Configs
      /\ Gate(task[k], request, conf[Chosen[k]])
    BY TaskSays
<1>2. task[k].at = "create" /\ UNCHANGED <<request, driver>> BY DEF Create, Still
<1>3. /\ Running(k) /\ request.kind = "configure" /\ <<>> \in DOMAIN task[k].scoped
      /\ task[k].todo = {} /\ ~task[k].wrong /\ ~request.dry /\ task[k].rc = 0 /\ ~task[k].killed
    BY <1>1, <1>2 DEF Gate, Running, Task
<1> DEFINE failing == [task[k] EXCEPT !.at = "done", !.rc = 1]
           made == [task[k] EXCEPT !.at = "made"]
<1>4. /\ failing \in Task /\ failing.at = "done" /\ failing.rc = 1 /\ failing.runs = task[k].runs
      /\ failing.scoped = task[k].scoped /\ failing.todo = task[k].todo
      /\ failing.before = task[k].before
    BY <1>1 DEF Task
<1>5. /\ made \in Task /\ made.at = "made" /\ made.runs = task[k].runs
      /\ made.killed = task[k].killed /\ made.rc = task[k].rc /\ made.wrong = task[k].wrong
      /\ made.scoped = task[k].scoped /\ made.todo = task[k].todo /\ made.before = task[k].before
    BY <1>1 DEF Task
<1> HIDE DEF failing, made
<1>6. CASE Become(k, failing) /\ UNCHANGED conf
    <2>1. Gate(failing, request, conf[Chosen[k]]) /\ ~Won(failing)
        BY <1>1, <1>2, <1>3, <1>4 DEF Gate, Won
    <2>2. QED BY <1>2, <1>3, <1>4, <1>6, <2>1, QuietMoves
<1>7. CASE Become(k, made) /\ conf' = [conf EXCEPT ![Chosen[k]][<<>>] = Unset]
    <2>1. Unset \in Configs BY DEF Unset, Configs
    <2>2. Unset \in Configuration BY <2>1 DEF Configuration
    <2>3. /\ conf' \in [Variants -> [Dirs -> Configuration]]
          /\ \A w \in Variants : w # Chosen[k] => conf'[w] = conf[w]
          /\ conf'[Chosen[k]][<<>>] = Unset
        <3>1. PICK d \in Dirs : d = <<>> BY <1>1
        <3>2. conf' = [conf EXCEPT ![Chosen[k]][d] = Unset] BY <3>1, <1>7
        <3>3. QED BY <1>1, <3>1, <3>2, <2>2, ConfBecomes
    <2>4. conf'[Chosen[k]][<<>>] # None BY <1>1, <2>1, <2>3
    <2>5. Gate(made, request, conf'[Chosen[k]]) /\ Ran(made)
        BY <1>1, <1>2, <1>3, <1>5 DEF Gate, Ran
    <2>6. Opening(task[k], made, request, conf[Chosen[k]][<<>>], conf'[Chosen[k]][<<>>])
        BY <1>2, <1>3, <1>5, <2>4, <2>5 DEF Opening
    <2>7. QED BY <1>2, <1>3, <1>5, <1>7, <2>3, <2>5, <2>6 DEF Moves
<1>8. QED BY <1>6, <1>7 DEF Create, Quit, GoOn, failing, made

LEMMA LeaveMoves ==
    ASSUME VariantsAssumption, VTypeOK, Gates, request # None, NEW k \in DOMAIN task, Leave(k)
    PROVE  Moves(k)
<1>1. /\ task[k] \in Task /\ request \in Request /\ Gate(task[k], request, conf[Chosen[k]])
    BY TaskSays
<1>2. task[k].at = "made" /\ UNCHANGED <<conf, request, driver>> BY DEF Leave, Still
<1>3. /\ Running(k) /\ request.kind = "configure" /\ <<>> \in DOMAIN task[k].scoped
      /\ task[k].todo = {} /\ ~task[k].wrong
    BY <1>1, <1>2 DEF Gate, Running, Task
<1> DEFINE over == [task[k] EXCEPT !.at = "done", !.rc = 0]
<1>4. /\ over \in Task /\ over.at = "done" /\ over.rc = 0 /\ over.runs = task[k].runs
      /\ over.wrong = task[k].wrong /\ over.scoped = task[k].scoped /\ over.todo = task[k].todo
      /\ over.before = task[k].before
    BY <1>1 DEF Task
<1>5. Become(k, over) BY DEF Leave, Quit
<1> HIDE DEF over
<1>6. Gate(over, request, conf[Chosen[k]]) /\ Ran(over)
    BY <1>1, <1>2, <1>3, <1>4 DEF Gate, Ran
<1>7. QED BY <1>2, <1>3, <1>4, <1>5, <1>6, QuietMoves

LEMMA OpenMoves ==
    ASSUME VariantsAssumption, VTypeOK, Gates, request # None, NEW k \in DOMAIN task, Open(k)
    PROVE  Moves(k)
<1>1. /\ task[k] \in Task /\ Chosen[k] \in Variants /\ conf[Chosen[k]] \in [Dirs -> Configuration]
      /\ request \in Request /\ <<>> \in Dirs /\ None \notin Configs
      /\ Gate(task[k], request, conf[Chosen[k]])
    BY TaskSays
<1>2. /\ task[k].at = "started" /\ request.kind = "build" /\ UNCHANGED <<conf, request, driver>>
    BY DEF Open, Still
<1>3. DOMAIN task[k].scoped = {} /\ Running(k) /\ task[k].rc = 0 /\ ~task[k].killed
    BY <1>1, <1>2 DEF Gate, Running, Task
<1> DEFINE failing == [task[k] EXCEPT !.at = "done", !.rc = 1]
           opened == [task[k] EXCEPT !.at = "parse", !.todo = Dirs]
<1>4. /\ failing \in Task /\ failing.at = "done" /\ failing.rc = 1 /\ failing.runs = task[k].runs
      /\ failing.scoped = task[k].scoped /\ failing.before = task[k].before
    BY <1>1 DEF Task
<1>5. /\ opened \in Task /\ opened.at = "parse" /\ opened.runs = task[k].runs /\ opened.killed = task[k].killed
      /\ opened.scoped = task[k].scoped /\ opened.before = task[k].before /\ opened.rc = task[k].rc
    BY <1>1 DEF Task
<1> HIDE DEF failing, opened
<1>6. CASE Become(k, failing)
    <2>1. Gate(failing, request, conf[Chosen[k]]) BY <1>1, <1>2, <1>3, <1>4 DEF Gate
    <2>2. QED BY <1>2, <1>3, <1>4, <1>6, <2>1, QuietMoves
<1>7. CASE conf[Chosen[k]][<<>>] # None /\ Become(k, opened)
    <2>1. Gate(opened, request, conf[Chosen[k]]) BY <1>1, <1>2, <1>3, <1>5, <1>7 DEF Gate
    <2>2. QED BY <1>2, <1>3, <1>5, <1>7, <2>1, QuietMoves
<1>8. QED BY <1>6, <1>7 DEF Open, Quit, failing, opened

LEMMA ParseMoves ==
    ASSUME VariantsAssumption, VTypeOK, Gates, request # None, NEW k \in DOMAIN task, ParseDirectory(k)
    PROVE  Moves(k)
<1>1. /\ task[k] \in Task /\ Chosen[k] \in Variants /\ conf[Chosen[k]] \in [Dirs -> Configuration]
      /\ request \in Request /\ <<>> \in Dirs /\ None \notin Configs
      /\ Gate(task[k], request, conf[Chosen[k]])
    BY TaskSays
<1>2. /\ task[k].at = "parse" /\ UNCHANGED <<conf, request, driver>>
    BY DEF ParseDirectory, Still
<1>3. Running(k) /\ request.kind = "build" /\ task[k].rc = 0 /\ ~task[k].killed
    BY <1>1, <1>2 DEF Gate, Running, Task
<1>4. CASE task[k].todo = {} /\ Quit(k, 0)
    <2> DEFINE over == [task[k] EXCEPT !.at = "done", !.rc = 0]
    <2>1. /\ over \in Task /\ over.at = "done" /\ over.runs = task[k].runs
          /\ over.scoped = task[k].scoped /\ over.before = task[k].before
        BY <1>1 DEF Task
    <2>2. Become(k, over) BY <1>4 DEF Quit
    <2> HIDE DEF over
    <2>3. Gate(over, request, conf[Chosen[k]]) BY <1>1, <1>2, <1>3, <2>1 DEF Gate
    <2>4. QED BY <1>2, <1>3, <2>1, <2>2, <2>3, QuietMoves
<1>5. ASSUME NEW d \in task[k].todo,
             Become(k, [task[k] EXCEPT !.scoped = Asked(k, d), !.todo = @ \ {d}])
      PROVE  Moves(k)
    <2> DEFINE new == [task[k] EXCEPT !.scoped = Asked(k, d), !.todo = @ \ {d}]
    <2>1. d \in Dirs BY <1>1 DEF Task
    <2>2. /\ Asked(k, d) \in Scopes /\ DOMAIN Asked(k, d) = DOMAIN task[k].scoped \cup {d}
          /\ \A e \in DOMAIN Asked(k, d) : Asked(k, d)[e] =
                  IF e \in DOMAIN task[k].scoped THEN task[k].scoped[e]
                  ELSE FindConfigForDir(conf[Chosen[k]], e, request.defines)
        BY <2>1, AskedSays
    <2>3. /\ new \in Task /\ new.at = "parse" /\ new.runs = task[k].runs /\ new.killed = task[k].killed
          /\ new.scoped = Asked(k, d) /\ new.before = task[k].before /\ new.rc = task[k].rc
        BY <1>1, <1>2, <2>2 DEF Task
    <2> HIDE DEF new
    <2>4. Gate(new, request, conf[Chosen[k]]) BY <1>1, <1>2, <1>3, <2>2, <2>3 DEF Gate
    <2>5. Become(k, new) BY <1>5 DEF new
    <2>6. QED BY <1>2, <1>3, <2>3, <2>4, <2>5, QuietMoves
<1>6. QED BY <1>2, <1>4, <1>5 DEF ParseDirectory

LEMMA KilledMoves ==
    ASSUME VariantsAssumption, VTypeOK, Turns, Gates, request # None, Killed
    PROVE  \E k \in DOMAIN task : Moves(k)
<1>1. PICK k \in 1..driver.forked :
          Running(k) /\ Become(k, [task[k] EXCEPT !.at = "done", !.killed = TRUE])
    BY DEF Killed
<1>2. k \in DOMAIN task BY ChosenAre DEF Turns, VTypeOK, Driver
<1>3. /\ task[k] \in Task /\ request \in Request /\ Gate(task[k], request, conf[Chosen[k]])
    BY <1>2, TaskSays
<1>4. UNCHANGED <<conf, request, driver>> BY DEF Killed
<1> DEFINE dead == [task[k] EXCEPT !.at = "done", !.killed = TRUE]
<1>5. /\ dead \in Task /\ dead.at = "done" /\ dead.killed /\ dead.runs = task[k].runs /\ dead.rc = task[k].rc
      /\ dead.scoped = task[k].scoped /\ dead.todo = task[k].todo /\ dead.before = task[k].before
      /\ dead.wrong = task[k].wrong
    BY <1>3 DEF Task
<1>6. Become(k, dead) BY <1>1
<1> HIDE DEF dead
<1>7. Gate(dead, request, conf[Chosen[k]]) /\ ~Won(dead)
    BY <1>1, <1>3, <1>5 DEF Gate, Running, Won
<1>8. task[k].at = "made" => Ran(dead) BY <1>3, <1>5 DEF Gate, Ran
<1>9. QED BY <1>1, <1>2, <1>4, <1>5, <1>6, <1>7, <1>8, QuietMoves

LEMMA DriverBecomes ==
    ASSUME driver \in Driver, Fork \/ Finish \/ Turn \/ Reap
    PROVE  driver' \in Driver
<1>1. /\ driver.next + 1 \in Nat \ {0} /\ driver.forked + 1 \in Nat
      /\ \A v : driver.failed + Failure(v) \in Nat
    BY DEF Driver, Failure
<1>2. \A m \in Nat \ {0}, k \in Nat : [driver EXCEPT !.next = m, !.forked = k] \in Driver BY DEF Driver
<1>3. \A m \in Nat \ {0}, k \in Nat : [driver EXCEPT !.next = m, !.failed = k] \in Driver BY DEF Driver
<1>4. \A m \in Nat \ {0} : [driver EXCEPT !.at = "reaping", !.next = m] \in Driver BY DEF Driver
<1>5. \A e \in {0, 1} : [driver EXCEPT !.at = "exited", !.exit = e] \in Driver BY DEF Driver
<1>6. [driver EXCEPT !.at = "inline"] \in Driver BY DEF Driver
<1>7. CASE Fork
    <2>1. CASE driver' = [driver EXCEPT !.next = driver.next + 1, !.forked = driver.forked + 1]
        BY <2>1, <1>1, <1>2
    <2>2. QED BY <2>1, <1>6, <1>7 DEF Fork
<1>8. CASE driver' = [driver EXCEPT !.next = driver.next + 1, !.failed = driver.failed + Failure(driver.next)]
    BY <1>8, <1>1, <1>3
<1>9. CASE Finish BY <1>8, <1>9 DEF Finish
<1>10. CASE Turn
    <2>1. 1 \in Nat \ {0} OBVIOUS
    <2>2. QED BY <2>1, <1>4, <1>10 DEF Turn
<1>11. CASE Reap
    <2>1. (IF driver.failed > 0 THEN 1 ELSE 0) \in {0, 1} OBVIOUS
    <2>2. QED BY <2>1, <1>5, <1>8, <1>11 DEF Reap
<1>12. QED BY <1>7, <1>9, <1>10, <1>11

\* What the tasks of one build directory have made of its root file is still true when
\* one of them has moved.
LEMMA MovesOpen ==
    ASSUME VariantsAssumption, VTypeOK, Gates, request # None, NEW i \in DOMAIN task, Running(i),
           request' = request, NEW new,
           DOMAIN task' = DOMAIN task, task'[i] = new, \A k \in DOMAIN task : k # i => task'[k] = task[k],
           \A w \in Variants : w # Chosen[i] => conf'[w] = conf[w],
           Opening(task[i], new, request, conf[Chosen[i]][<<>>], conf'[Chosen[i]][<<>>]),
           NEW j \in DOMAIN task
    PROVE  Opens(j)'
<1>1. Chosen' = Chosen /\ \A w : Places(w)' = Places(w) BY DEF Chosen, Places
<1>2. SUFFICES ASSUME request.kind = "configure" PROVE Opens(j)'
    BY DEF Opens
<1>3. Opens(j) /\ Opens(i) /\ Chosen[j] \in Variants BY TaskSays
<1>4. task'[j].before = task[j].before BY DEF Opening
<1>5. \A l \in DOMAIN task : l # i => task'[l] = task[l] OBVIOUS
<1>6. ASSUME NEW l \in Places(Chosen[j]), Lost(task[l], request)
      PROVE  Lost(task'[l], request)
    <2>1. l \in DOMAIN task /\ l # i BY <1>6 DEF Places, Lost, Running
    <2>2. QED BY <2>1, <1>5, <1>6
<1>7. ASSUME NEW l \in Places(Chosen[j]), Ran(task[l])
      PROVE  Ran(task'[l])
    <2>1. CASE l = i BY <2>1, <1>7 DEF Ran, Running, Opening
    <2>2. CASE l # i BY <2>2, <1>5, <1>7 DEF Places
    <2>3. QED BY <2>1, <2>2
<1> DEFINE was == conf[Chosen[j]][<<>>]
           is == conf'[Chosen[j]][<<>>]
<1>8. was # None /\ is = None => \E l \in Places(Chosen[j]) : Lost(task'[l], request)
    <2>1. CASE Chosen[j] = Chosen[i]
        <3>1. i \in Places(Chosen[j]) BY <2>1 DEF Places
        <3>2. was # None /\ is = None => Lost(task'[i], request) BY <2>1, <1>2 DEF Opening
        <3>3. QED BY <3>1, <3>2
    <2>2. CASE Chosen[j] # Chosen[i] BY <2>2, <1>3
    <2>3. QED BY <2>1, <2>2
<1>9. was = None /\ is # None =>
          \/ request.install # None
          \/ ~request.dry /\ (<<>> \in request.rules \/ \E l \in Places(Chosen[j]) : Ran(task'[l]))
    <2>1. CASE Chosen[j] = Chosen[i]
        <3>1. i \in Places(Chosen[j]) BY <2>1 DEF Places
        <3>2. was = None /\ is # None =>
                  request.install # None \/ (~request.dry /\ (<<>> \in request.rules \/ Ran(task'[i])))
            BY <2>1, <1>2 DEF Opening
        <3>3. QED BY <3>1, <3>2
    <2>2. CASE Chosen[j] # Chosen[i] BY <2>2, <1>3
    <2>3. QED BY <2>1, <2>2
<1> HIDE DEF was, is
<1>10. (task[j].at = "made" \/ Won(task[j])) /\ ~request.dry =>
           was # None \/ \E l \in Places(Chosen[j]) : Lost(task[l], request)
    BY <1>2, <1>3 DEF Opens, Armed, was
<1>11. (task'[j].at = "made" \/ Won(task'[j])) /\ ~request.dry =>
           is # None \/ \E l \in Places(Chosen[j]) : Lost(task'[l], request)
    <2>1. SUFFICES ASSUME task'[j].at = "made" \/ Won(task'[j]), ~request.dry, is = None
                   PROVE  \E l \in Places(Chosen[j]) : Lost(task'[l], request)
        OBVIOUS
    <2>2. task[j].at = "made" \/ Won(task[j])
        <3>1. CASE j = i BY <3>1, <2>1, <1>2 DEF Opening, is
        <3>2. CASE j # i BY <3>2, <2>1, <1>5
        <3>3. QED BY <3>1, <3>2
    <2>3. QED BY <2>1, <2>2, <1>6, <1>8, <1>10
<1>12. LeftToIt(task'[j], request) /\ is # None =>
           ~request.dry /\ \E l \in Places(Chosen[j]) : Ran(task'[l])
    <2>1. SUFFICES ASSUME LeftToIt(task'[j], request), is # None
                   PROVE  ~request.dry /\ \E l \in Places(Chosen[j]) : Ran(task'[l])
        OBVIOUS
    <2>2. LeftToIt(task[j], request) BY <2>1, <1>4 DEF LeftToIt
    <2>3. CASE was = None BY <2>1, <2>3, <1>9 DEF LeftToIt
    <2>4. CASE was # None
        <3>1. ~request.dry /\ \E l \in Places(Chosen[j]) : Ran(task[l])
            BY <2>2, <2>4, <1>2, <1>3 DEF Opens, Armed, was
        <3>2. QED BY <3>1, <1>7
    <2>5. QED BY <2>3, <2>4
<1>13. QED BY <1>1, <1>11, <1>12 DEF Opens, Armed, is

LEMMA MovesKeep ==
    ASSUME VariantsAssumption, VInv, request # None, NEW i \in DOMAIN task, Moves(i)
    PROVE  VInv'
<1>1. PICK new \in Task :
          /\ Become(i, new) /\ new.at # "idle" /\ new.runs = task[i].runs
          /\ Gate(new, request, conf'[Chosen[i]])
          /\ Opening(task[i], new, request, conf[Chosen[i]][<<>>], conf'[Chosen[i]][<<>>])
    BY DEF Moves
<1>2. /\ VTypeOK /\ Turns /\ Gates /\ Running(i) /\ UNCHANGED <<request, driver>>
      /\ conf' \in [Variants -> [Dirs -> Configuration]]
      /\ \A w \in Variants : w # Chosen[i] => conf'[w] = conf[w]
      /\ request.kind = "build" => conf' = conf
    BY DEF Moves, VInv
<1>3. Turns' BY <1>1, <1>2, RunningKeepsTurns
<1>4. task' = [task EXCEPT ![i] = new] /\ task \in [Asking -> Task] BY <1>1, <1>2 DEF Become, VTypeOK
<1>5. /\ task' \in [Asking -> Task] /\ DOMAIN task' = DOMAIN task
      /\ task'[i] = new /\ \A k \in DOMAIN task : k # i => task'[k] = task[k]
    BY <1>4
<1>6. Chosen' = Chosen /\ Asking' = Asking BY <1>2 DEF Chosen, Asking
<1>7. VTypeOK' BY <1>2, <1>5, <1>6 DEF VTypeOK
<1>8. ASSUME NEW k \in DOMAIN task
      PROVE  Gate(task'[k], request, conf'[Chosen[k]])
    <2>1. CASE k = i BY <2>1, <1>1, <1>5
    <2>2. CASE k # i
        <3>1. task'[k] = task[k] /\ Gate(task[k], request, conf[Chosen[k]]) BY <2>2, <1>2, <1>5, TaskSays
        <3>2. QED BY <3>1, <1>2 DEF Gate
    <2>3. QED BY <2>1, <2>2
<1>9. \A k \in DOMAIN task : Opens(k)' BY <1>1, <1>2, <1>5, MovesOpen
<1>10. Gates' BY <1>2, <1>5, <1>6, <1>8, <1>9 DEF Gates
<1>11. QED BY <1>2, <1>3, <1>7, <1>10 DEF VInv, Rest

LEMMA HandleMoves ==
    ASSUME VariantsAssumption, VInv, NEW k \in DOMAIN task, Handle(k)
    PROVE  request # None /\ Moves(k)
<1>1. request # None BY DEF VInv, VTypeOK, Asking
<1>2. QED
    BY <1>1, InstallMoves, LoadMoves, RunRuleMoves, ConcludeMoves, CreateMoves, LeaveMoves, OpenMoves, ParseMoves
    DEF Handle, VInv

\* The tasks and their files stand, or one more task is begun.
LEMMA DriverKeeps ==
    ASSUME VariantsAssumption, VInv, request # None, Turns', driver' \in Driver, driver'.at # "resting",
           UNCHANGED <<conf, request>>,
           \/ UNCHANGED task
           \/ /\ driver.next <= Len(Chosen) /\ Idle(driver.next)
              /\ Starting(driver.next)
    PROVE  VInv'
<1>1. VTypeOK /\ Turns /\ Gates /\ Chosen' = Chosen /\ Asking' = Asking BY DEF VInv, Chosen, Asking
<1>2. CASE UNCHANGED task
    <2>1. VTypeOK' BY <1>1, <1>2 DEF VTypeOK
    <2>2. Gates' BY <1>1, <1>2 DEF Gates, Opens, Armed, Places
    <2>3. QED BY <2>1, <2>2 DEF VInv, Rest
<1>3. CASE driver.next <= Len(Chosen) /\ Idle(driver.next) /\ Starting(driver.next)
    <2>1. PICK i : i = driver.next OBVIOUS
    <2>2. /\ i \in DOMAIN task /\ DOMAIN task' = DOMAIN task /\ DOMAIN task = 1..Len(Chosen)
          /\ task'[i] = [task[i] EXCEPT !.at = "started", !.runs = 1]
          /\ \A k \in DOMAIN task : k # i => task'[k] = task[k]
        BY <1>1, <1>3, <2>1, StartingSays, ChosenAre
    <2>3. /\ task[i] \in Task /\ task[i].at = "idle" /\ task[i].rc = 0 /\ ~task[i].killed
          /\ Gate(task[i], request, conf[Chosen[i]]) /\ Opens(i)
        BY <1>1, <1>3, <2>1, <2>2, TaskSays DEF Idle
    <2> DEFINE new == [task[i] EXCEPT !.at = "started", !.runs = 1]
    <2>4. /\ new \in Task /\ new.at = "started" /\ new.killed = task[i].killed /\ new.rc = task[i].rc
          /\ new.scoped = task[i].scoped /\ new.todo = task[i].todo /\ new.before = task[i].before
        BY <2>3 DEF Task
    <2>5. task'[i] = new BY <2>2
    <2> HIDE DEF new
    <2>6. task' \in [Asking -> Task]
        <3>1. DOMAIN task' = Asking /\ task' = [k \in Asking |-> task'[k]]
            BY <1>1, <1>3 DEF Starting, Become, VTypeOK
        <3>2. \A k \in Asking : task'[k] \in Task BY <1>1, <2>2, <2>4, <2>5 DEF VTypeOK
        <3>3. QED BY <3>1, <3>2
    <2>7. VTypeOK' BY <1>1, <2>6 DEF VTypeOK
    <2>8. \A k \in DOMAIN task : k # i => Gate(task'[k], request, conf[Chosen[k]]) /\ Opens(k)
        BY <1>1, <2>2, TaskSays
    <2>9. Gate(task'[i], request, conf[Chosen[i]]) BY <2>3, <2>4, <2>5 DEF Gate
    <2>10. \A w : Places(w)' = Places(w) BY <1>1, <2>2 DEF Places
    <2>11. \A l \in DOMAIN task :
               /\ Lost(task[l], request) => Lost(task'[l], request)
               /\ Ran(task[l]) => Ran(task'[l])
               /\ task'[l].at = "made" \/ Won(task'[l]) => task[l].at = "made" \/ Won(task[l])
               /\ LeftToIt(task'[l], request) => LeftToIt(task[l], request)
        BY <2>2, <2>3, <2>4, <2>5 DEF Lost, Ran, Won, LeftToIt
    <2>12. ASSUME NEW k \in DOMAIN task PROVE Opens(k)'
        <3>1. Opens(k) BY <2>3, <2>8
        <3>2. \A l \in Places(Chosen[k]) : l \in DOMAIN task BY DEF Places
        <3>3. QED BY <3>1, <3>2, <1>1, <2>10, <2>11 DEF Opens, Armed
    <2>13. Gates' BY <1>1, <2>2, <2>8, <2>9, <2>12 DEF Gates
    <2>14. QED BY <2>7, <2>13 DEF VInv, Rest
<1>4. QED BY <1>2, <1>3

LEMMA AskKeeps ==
    ASSUME VariantsAssumption, VInv, Ask
    PROVE  VInv'
<1>1. VTypeOK BY DEF VInv
<1>2. Turns' BY <1>1, AskTurns
<1>3. PICK r \in Requests :
          /\ request' = r
          /\ driver' = [Resting EXCEPT !.at = IF Len(r.variants) = 1 THEN "inline" ELSE "forking",
                                       !.asked = driver.asked + 1]
          /\ task' = [k \in 1..Len(r.variants) |-> [Fresh EXCEPT !.before = conf[r.variants[k]][<<>>]]]
    BY DEF Ask
<1>4. conf' = conf BY DEF Ask
<1>5. driver' \in Driver /\ driver'.at # "resting"
    <2>1. driver.asked + 1 \in Nat BY <1>1 DEF VTypeOK, Driver
    <2>2. PICK a \in {"forking", "inline"} : driver' = [Resting EXCEPT !.at = a, !.asked = driver.asked + 1]
        BY <1>3
    <2>3. driver' = [at |-> a, next |-> 1, forked |-> 0, failed |-> 0, exit |-> 0,
                     asked |-> driver.asked + 1]
        BY <2>2 DEF Resting
    <2>4. QED BY <2>1, <2>3 DEF Driver
<1>6. r # None /\ r \in Request /\ <<>> \in Dirs BY DEF VariantsAssumption
<1>7. NotRead \in Scopes /\ DOMAIN NotRead = {}
    <2>1. NotRead \in [{} -> Configs] BY DEF NotRead
    <2>2. QED BY <2>1 DEF Scopes
<1>8. /\ Chosen' = r.variants /\ Asking' = 1..Len(r.variants) /\ DOMAIN task' = 1..Len(r.variants)
      /\ \A k \in 1..Len(r.variants) : r.variants[k] \in Variants
    BY <1>3, <1>6 DEF Chosen, Asking, Request
<1>9. ASSUME NEW k \in 1..Len(r.variants)
      PROVE  task'[k] \in Task /\ Gate(task'[k], r, conf[r.variants[k]]) /\ Opens(k)'
    <2>1. conf[r.variants[k]][<<>>] \in Configuration BY <1>1, <1>6, <1>8 DEF VTypeOK
    <2>2. task'[k] = [Fresh EXCEPT !.before = conf[r.variants[k]][<<>>]] BY <1>3
    <2>3. task'[k] = [at |-> "idle", runs |-> 0, killed |-> FALSE, rc |-> 0, scoped |-> NotRead,
                      todo |-> {}, wrong |-> FALSE, before |-> conf[r.variants[k]][<<>>]]
        BY <2>2 DEF Fresh
    <2>4. task'[k] \in Task BY <1>7, <2>1, <2>3 DEF Task
    <2>5. Gate(task'[k], r, conf[r.variants[k]]) BY <1>7, <2>3 DEF Gate
    <2>6. /\ task'[k].at = "idle" /\ ~Won(task'[k]) /\ task'[k].before = conf[r.variants[k]][<<>>]
        BY <2>3 DEF Won
    <2>7. Opens(k)' BY <1>3, <1>4, <1>8, <2>6 DEF Opens, LeftToIt, Armed
    <2>8. QED BY <2>4, <2>5, <2>7
<1>10. task' \in [Asking' -> Task] BY <1>3, <1>8, <1>9
<1>11. VTypeOK' BY <1>1, <1>3, <1>4, <1>5, <1>6, <1>10 DEF VTypeOK
<1>12. Gates' BY <1>3, <1>4, <1>8, <1>9 DEF Gates
<1>13. Rest' BY <1>3, <1>6 DEF Rest
<1>14. QED BY <1>2, <1>11, <1>12, <1>13 DEF VInv

LEMMA VInvInductive ==
    ASSUME VariantsAssumption, VInv, [Next]_vars
    PROVE  VInv'
<1>1. /\ VTypeOK /\ Turns /\ Gates /\ Rest
      /\ driver \in Driver /\ (request = None <=> driver.at = "resting")
    BY DEF VInv, VTypeOK
<1>2. CASE Ask BY <1>2, AskKeeps
<1>3. CASE Fork
    <2>1. request # None BY <1>1, <1>3 DEF Fork
    <2>2. Turns' BY <1>1, <1>3, <2>1, ForkTurns
    <2>3. driver' \in Driver /\ driver'.at # "resting"
        <3>1. driver' \in Driver BY <1>1, <1>3, DriverBecomes
        <3>2. QED BY <1>1, <1>3, <3>1 DEF Fork, Driver
    <2>4. Idle(driver.next)
        <3>1. driver.next \in driver.next..Len(Chosen) BY <1>1, <1>3, <2>1, ChosenAre DEF Fork, Driver
        <3>2. QED BY <1>1, <1>3, <2>1, <3>1 DEF Turns, Fork
    <2>5. QED BY <1>3, <2>1, <2>2, <2>3, <2>4, DriverKeeps DEF Fork
<1>4. CASE Begin
    <2>1. request # None BY <1>1, <1>4 DEF Begin
    <2>2. Turns' BY <1>1, <1>4, <2>1, BeginTurns
    <2>3. driver' \in Driver /\ driver'.at # "resting" BY <1>1, <1>4 DEF Begin
    <2>4. Idle(driver.next) BY <1>1, <1>4, <2>1 DEF Turns, Begin, Begun
    <2>5. QED BY <1>4, <2>1, <2>2, <2>3, <2>4, DriverKeeps DEF Begin
<1>5. CASE Finish
    <2>1. request # None BY <1>1, <1>5 DEF Finish
    <2>2. Turns' BY <1>1, <1>5, <2>1, FinishTurns
    <2>3. driver' \in Driver /\ driver'.at # "resting"
        <3>1. driver' \in Driver BY <1>1, <1>5, DriverBecomes
        <3>2. QED BY <1>1, <1>5, <3>1 DEF Finish, Driver
    <2>4. QED BY <1>5, <2>1, <2>2, <2>3, DriverKeeps DEF Finish
<1>6. CASE Turn
    <2>1. request # None BY <1>1, <1>6 DEF Turn
    <2>2. Turns' BY <1>1, <1>6, <2>1, TurnTurns
    <2>3. driver' \in Driver /\ driver'.at # "resting"
        <3>1. driver' \in Driver BY <1>1, <1>6, DriverBecomes
        <3>2. QED BY <1>1, <1>6, <3>1 DEF Turn, Driver
    <2>4. QED BY <1>6, <2>1, <2>2, <2>3, DriverKeeps DEF Turn
<1>7. CASE Reap
    <2>1. request # None BY <1>1, <1>7 DEF Reap
    <2>2. Turns' BY <1>1, <1>7, <2>1, ReapTurns
    <2>3. driver' \in Driver /\ driver'.at # "resting"
        <3>1. driver' \in Driver BY <1>1, <1>7, DriverBecomes
        <3>2. QED BY <1>1, <1>7, <3>1 DEF Reap, Driver
    <2>4. QED BY <1>7, <2>1, <2>2, <2>3, DriverKeeps DEF Reap
<1>8. CASE Killed
    <2>1. request # None BY <1>1, <1>8 DEF Killed, Rest
    <2>2. PICK k \in DOMAIN task : Moves(k) BY <1>1, <1>8, <2>1, KilledMoves
    <2>3. QED BY <2>1, <2>2, MovesKeep
<1>9. ASSUME NEW k \in DOMAIN task, Handle(k) PROVE VInv'
    BY <1>9, HandleMoves, MovesKeep
<1>10. CASE UNCHANGED vars
    <2>1. Turns' BY <1>1, <1>10 DEF Turns, vars, Told, Idle, Begun, Done, Chosen, Failure
    <2>2. VTypeOK' /\ Gates' /\ Rest' BY <1>1, <1>10 DEF VTypeOK, Asking, Gates, Rest, Opens, Armed, Places, Chosen, vars
    <2>3. QED BY <2>1, <2>2 DEF VInv
<1>11. QED BY <1>2, <1>3, <1>4, <1>5, <1>6, <1>7, <1>8, <1>9, <1>10 DEF Next

LEMMA VInvInitially ==
    ASSUME VariantsAssumption, Init
    PROVE  VInv
<1>1. request = None /\ driver = Resting /\ task = [k \in {} |-> Fresh] /\ conf \in Starts BY DEF Init
<1>2. driver \in Driver /\ driver.at = "resting" /\ driver.forked = 0 BY <1>1 DEF Resting, Driver
<1>3. conf \in [Variants -> [Dirs -> Configuration]] BY <1>1 DEF VariantsAssumption
<1>4. task \in [Asking -> Task] BY <1>1 DEF Asking
<1>5. VTypeOK BY <1>1, <1>2, <1>3, <1>4 DEF VTypeOK
<1>6. Rest BY <1>1, <1>2 DEF Rest
<1>7. QED BY <1>1, <1>5, <1>6 DEF VInv, Turns, Gates

\* The invariant of the driver and its tasks: whoever runs a task, child or parent,
\* each place of the command has its turn once, two places that name one build directory
\* included; what a build has read of its configuration is what the files of its directory
\* still say; and what a configure leaves at a directory's root is what the tasks that work
\* there, one or several at once, made of it.
THEOREM VariantsInvariant ==
    ASSUME VariantsAssumption
    PROVE  Spec => []VInv
<1>1. Init => VInv BY VInvInitially
<1>2. VInv /\ [Next]_vars => VInv' BY VInvInductive
<1>3. QED BY <1>1, <1>2, PTL DEF Spec

\* The handler runs once for each time the command names a build directory, the same
\* directory named twice included, however many forks fail and whichever child a signal
\* ends, and the command reports success exactly if every run succeeded
\* (run_parallel_tasks, for_each_variant).
THEOREM HandlersRunOnce ==
    ASSUME VariantsAssumption
    PROVE  Spec => []EachOnceAndTold
<1>1. VInv => EachOnceAndTold
    <2> SUFFICES ASSUME VInv, driver.at = "exited" PROVE EachOnceAndTold
        BY DEF EachOnceAndTold
    <2>1. VTypeOK /\ Turns /\ request # None BY DEF VInv, VTypeOK
    <2>2. /\ \A k \in 1..Len(Chosen) : Done(k)
          /\ driver.exit = 0 <=> \A k \in 1..Len(Chosen) : Failure(k) = 0
        BY <2>1 DEF Turns
    <2>3. DOMAIN Chosen = 1..Len(Chosen) BY <2>1, ChosenAre
    <2>4. \A k \in DOMAIN Chosen : task[k].runs = 1 /\ ~Running(k)
        BY <2>2, <2>3 DEF Done, Begun, Running
    <2>5. \A k \in 1..Len(Chosen) : Failure(k) = 0 <=> Succeeded(k)
        BY <2>2 DEF Failure, Succeeded, Done
    <2>6. driver.exit = 0 <=> \A k \in DOMAIN Chosen : Succeeded(k) BY <2>2, <2>3, <2>5
    <2>7. QED BY <2>4, <2>6 DEF EachOnceAndTold
<1>2. QED BY <1>1, VariantsInvariant, PTL

\* After a configure that succeeded a build directory has its tup.config, but for a second
\* run of it that failed to install one there; and where none was installed or made by a
\* rule there is one only if some run had no failure among its rules and was not dry
\* (ensure_config, the gate of build_context).
THEOREM ConfigureArms ==
    ASSUME VariantsAssumption
    PROVE  Spec => []ConfigureOpensTheGate
<1>1. VInv => ConfigureOpensTheGate
    <2> SUFFICES ASSUME VInv, request # None, request.kind = "configure", NEW k \in DOMAIN task
                 PROVE  /\ Succeeded(k) /\ ~request.dry =>
                               Armed(Chosen[k]) \/ \E l \in Places(Chosen[k]) : MayHaveDropped(l)
                        /\ LeftToIt(task[k], request) =>
                               (Armed(Chosen[k]) => ~request.dry /\ \E l \in Places(Chosen[k]) : RanItsRules(l))
        BY DEF ConfigureOpensTheGate, LeftToIt
    <2>1. Opens(k) BY DEF VInv, Gates
    <2>2. Succeeded(k) => Won(task[k]) BY DEF Succeeded, Won
    <2>3. \A l : /\ Lost(task[l], request) => MayHaveDropped(l)
                 /\ Ran(task[l]) => RanItsRules(l)
        BY DEF Lost, MayHaveDropped, Ran, RanItsRules
    <2>4. QED BY <2>1, <2>2, <2>3 DEF Opens
<1>2. QED BY <1>1, VariantsInvariant, PTL

\* What a build reads for a directory is what -D says, else the file nearest to the root
\* that sets the variable, whatever was parsed before and however deep the directory
\* (find_config_for_dir, apply_config_overrides, scoped_configs).
THEOREM RootIsHeard ==
    ASSUME VariantsAssumption
    PROVE  Spec => []RootHasTheLastWord
<1>1. VInv => RootHasTheLastWord
    <2> SUFFICES ASSUME VInv, request # None, request.kind = "build",
                        NEW k \in DOMAIN task, NEW d \in DOMAIN task[k].scoped, NEW x \in Vars
                 PROVE  task[k].scoped[d][x] = Reference(Chosen[k], d, x)
        BY DEF RootHasTheLastWord
    <2>1. /\ VTypeOK /\ Gate(task[k], request, conf[Chosen[k]])
          /\ task[k].scoped \in Scopes /\ Chosen[k] \in Variants
        BY TaskSays DEF VInv, Task
    <2>2. PICK D \in SUBSET Dirs : task[k].scoped \in [D -> Configs] BY <2>1 DEF Scopes
    <2>3. d \in Dirs /\ DOMAIN task[k].scoped # {} BY <2>2
    <2>4. Armed(Chosen[k]) /\ task[k].scoped[d] = FindConfigForDir(conf[Chosen[k]], d, request.defines)
        BY <2>1, <2>3 DEF Gate, Armed
    <2>5. QED BY <2>1, <2>3, <2>4, FoundIsReference
<1>2. QED BY <1>1, VariantsInvariant, PTL

-----------------------------------------------------------------------------
(***************************************************************************)
(* From the words of a command line to the build directories.              *)
(***************************************************************************)

LEMMA ShortestIs ==
    ASSUME NEW S \in SUBSET Cmd!Paths, S # {}
    PROVE  Cmd!Shortest(S) \in S /\ \A q \in S : Len(Cmd!Shortest(S)) <= Len(q)
<1> DEFINE T == {Len(p) : p \in S}
<1>1. \A p \in S : Len(p) \in Nat BY DEF Cmd!Paths
<1>0. T \in SUBSET Nat /\ T # {} BY <1>1
<1>2. PICK n \in T : \A m \in T : n <= m
    <2> HIDE DEF T
    <2>1. QED BY <1>0, LeastNumber
<1>3. PICK p \in S : n = Len(p) OBVIOUS
<1>4. \A q \in S : Len(p) <= Len(q) BY <1>2, <1>3
<1>6. QED BY <1>4 DEF Cmd!Shortest

\* The directories above those above a path are above it.
LEMMA UpwardSays ==
    ASSUME NEW p \in Cmd!Paths
    PROVE  /\ p \in Cmd!Upward(p)
           /\ \A q \in Cmd!Upward(p) : /\ q \in Cmd!Paths /\ Len(q) <= Len(p) /\ (Len(q) = Len(p) => q = p)
                                   /\ \A r \in Cmd!Upward(q) : r \in Cmd!Upward(p) /\ Len(r) <= Len(q)
           /\ \A q \in Cmd!Upward(p) : q # <<>> =>
                  \A r \in Cmd!Upward(Cmd!Parent(q)) : r \in Cmd!Upward(p) /\ Len(r) < Len(q)
<1>1. Len(p) \in 0..Len(p) /\ SubSeq(p, 1, Len(p)) = p BY DEF Cmd!Paths
<1>2. p \in Cmd!Upward(p) BY <1>1 DEF Cmd!Upward
<1>3. ASSUME NEW q \in Cmd!Upward(p)
      PROVE  /\ q \in Cmd!Paths /\ Len(q) <= Len(p) /\ (Len(q) = Len(p) => q = p)
             /\ \A r \in Cmd!Upward(q) : r \in Cmd!Upward(p) /\ Len(r) <= Len(q)
             /\ q # <<>> => \A r \in Cmd!Upward(Cmd!Parent(q)) : r \in Cmd!Upward(p) /\ Len(r) < Len(q)
    <2>1. PICK k \in 0..Len(p) : q = SubSeq(p, 1, k) BY DEF Cmd!Upward
    <2>2. q \in Cmd!Paths /\ Len(q) = k BY <2>1 DEF Cmd!Paths
    <2>3. Len(q) = Len(p) => q = p BY <2>1, <2>2, <1>1
    <2>4. \A l \in 0..k : SubSeq(q, 1, l) = SubSeq(p, 1, l) /\ l \in 0..Len(p) /\ Len(SubSeq(p, 1, l)) = l
        BY <2>1 DEF Cmd!Paths
    <2>5. \A r \in Cmd!Upward(q) : r \in Cmd!Upward(p) /\ Len(r) <= Len(q)
        BY <2>2, <2>4 DEF Cmd!Upward
    <2>6. ASSUME q # <<>>, NEW r \in Cmd!Upward(Cmd!Parent(q)) PROVE r \in Cmd!Upward(p) /\ Len(r) < Len(q)
        <3>1. k # 0 BY <2>2, <2>6 DEF Cmd!Paths
        <3>2. Cmd!Parent(q) = SubSeq(q, 1, k - 1) BY <2>2, <2>6 DEF Cmd!Parent, Cmd!Front
        <3>3. k - 1 \in 0..k BY <2>1, <3>1
        <3>4. Cmd!Parent(q) = SubSeq(p, 1, k - 1) /\ Len(Cmd!Parent(q)) = k - 1 /\ Cmd!Parent(q) \in Cmd!Paths
            BY <2>4, <3>2, <3>3 DEF Cmd!Paths
        <3>5. PICK l \in 0..(k - 1) : r = SubSeq(Cmd!Parent(q), 1, l) BY <3>4 DEF Cmd!Upward
        <3>6. r = SubSeq(p, 1, l) /\ l \in 0..Len(p) /\ Len(r) = l BY <3>4, <3>5, <2>1 DEF Cmd!Paths
        <3>7. QED BY <2>2, <3>5, <3>6 DEF Cmd!Upward
    <2>7. QED BY <2>1, <2>2, <2>3, <2>5, <2>6
<1>4. QED BY <1>2, <1>3

TargetsInv ==
    /\ tree \in Trees /\ command \in Commands /\ command.cwd \in tree.dirs
    /\ answer = None \/ answer = Cmd!ForEachVariant(tree, command)

LEMMA AnswerStands ==
    ASSUME Cmd!TargetsAssumption
    PROVE  Cmd!Spec => []TargetsInv
<1>1. Cmd!Init => TargetsInv BY DEF Cmd!Init, TargetsInv
<1>2. TargetsInv /\ [Cmd!Next]_(Cmd!vars) => TargetsInv' BY DEF TargetsInv, Cmd!Next, Cmd!Resolve, Cmd!vars
<1>3. QED BY <1>1, <1>2, PTL DEF Cmd!Spec

\* A layout that is found has the roots of its parts.
LEMMA LayoutSays ==
    ASSUME NEW t, NEW c, NEW l, l = Cmd!DiscoverLayout(t, c), ~Cmd!IsRefused(l)
    PROVE  /\ l.source = Cmd!SourceRoot(t, c) /\ l.source # None
           /\ l.output = Cmd!OutputRoot(t, c, l.source)
BY DEF Cmd!DiscoverLayout, Cmd!Refused, Cmd!IsRefused

\* Without targets and -B the current directory alone decides.
LEMMA PlainChoice ==
    ASSUME Cmd!TargetsAssumption, TargetsInv, Cmd!Answered, command.targets = {}, command.builds = {}
    PROVE  LET root == Cmd!SourceRoot(tree, command)
               enclosing == Cmd!Enclosing(tree, command.cwd, root)
           IN  answer.layouts = IF enclosing # None THEN {Cmd!DiscoverLayout(tree, [command EXCEPT !.build = enclosing])}
                                ELSE {Cmd!DiscoverLayout(tree, command)}
<1> DEFINE layout == Cmd!DiscoverLayout(tree, [command EXCEPT !.build = None])
           parsed == Cmd!ParseTargets(tree, layout.source, {})
           chosen == Cmd!Chosen(tree, command, layout.source, parsed)
<1>1. command \in Cmd!CommandLine BY DEF TargetsInv, Cmd!TargetsAssumption
<1>2. [command EXCEPT !.build = None] = command BY <1>1 DEF Cmd!CommandLine
<1>3. answer = Cmd!ForEachVariant(tree, command) BY DEF Cmd!Answered, TargetsInv
<1>4. ~Cmd!IsRefused(layout) /\ ~Cmd!IsRefused(parsed) /\ ~Cmd!IsRefused(chosen)
      /\ answer.layouts = Cmd!Handed(tree, command, chosen.dirs)
    BY <1>3 DEF Cmd!Answered, Cmd!ForEachVariant, Cmd!Refused, Cmd!IsRefused
<1>5. layout.source = Cmd!SourceRoot(tree, command) BY <1>2, <1>4, LayoutSays
<1>6. parsed.variants = {}
    <2> DEFINE valid == Cmd!Validated(tree, layout.source, {})
    <2>1. {Cmd!Resolved(tree, layout.source, target) : target \in {}} = {} OBVIOUS
    <2>2. UNION {Cmd!Resolved(tree, layout.source, target) : target \in {}} = {} OBVIOUS
    <2>3. Cmd!IsRefused(valid) \/ valid.parsed = {} BY <2>2 DEF Cmd!Validated, Cmd!IsRefused, Cmd!Refused
    <2> HIDE DEF valid
    <2>4. parsed = IF Cmd!IsRefused(valid) THEN Cmd!Refused
                   ELSE LET kept == {r \in valid.parsed : r.variant = None \/ r.what # <<>>}
                        IN  [variants |-> {r.variant : r \in Cmd!WithVariants(valid.parsed)},
                             scopes |-> {r.what : r \in {x \in kept : ~x.output}},
                             outputs |-> {r.what : r \in {x \in kept : x.output}}]
        BY DEF Cmd!ParseTargets, valid
    <2>5. ~Cmd!IsRefused(valid) BY <1>4, <2>4 DEF Cmd!IsRefused, Cmd!Refused
    <2>6. PICK a, b : parsed = [variants |-> {r.variant : r \in Cmd!WithVariants(valid.parsed)},
                                scopes |-> a, outputs |-> b]
        BY <2>4, <2>5
    <2>7. Cmd!WithVariants(valid.parsed) = {} BY <2>3, <2>5 DEF Cmd!WithVariants
    <2>8. {r.variant : r \in Cmd!WithVariants(valid.parsed)} = {} BY <2>7
    <2>9. QED BY <2>6, <2>8
<1> DEFINE enclosing == Cmd!Enclosing(tree, command.cwd, layout.source)
<1>7. chosen.dirs = IF enclosing # None THEN {enclosing} ELSE {}
    <2> HIDE DEF parsed, layout
    <2>1. QED BY <1>4, <1>6 DEF Cmd!Chosen, Cmd!IsRefused, Cmd!Refused
<1>8. {Cmd!DiscoverLayout(tree, [command EXCEPT !.build = d]) : d \in {enclosing}} =
          {Cmd!DiscoverLayout(tree, [command EXCEPT !.build = enclosing])}
    OBVIOUS
<1> HIDE DEF chosen, layout, parsed, enclosing
<1>9. answer.layouts = IF enclosing # None THEN {Cmd!DiscoverLayout(tree, [command EXCEPT !.build = enclosing])}
                       ELSE {Cmd!DiscoverLayout(tree, command)}
    BY <1>4, <1>7, <1>8 DEF Cmd!Handed
<1>10. QED BY <1>5, <1>9 DEF enclosing

\* The layout of one who stands somewhere and says nothing.
LEMMA StandingSays ==
    ASSUME Cmd!TargetsAssumption, TargetsInv, command.env.build = None, NEW b \in Cmd!Root,
           NEW l, l = Cmd!DiscoverLayout(tree, [command EXCEPT !.build = b]), ~Cmd!IsRefused(l)
    PROVE  /\ l.source = Cmd!SourceRoot(tree, command) /\ l.source # None
           /\ b # None => l.output = b
           /\ b = None => l.output = IF Cmd!Exists(tree, Append(command.cwd, ConfigName)) /\ command.cwd # l.source
                                     THEN command.cwd ELSE l.source
<1> DEFINE c == [command EXCEPT !.build = b]
<1>1. command \in Cmd!CommandLine BY DEF TargetsInv, Cmd!TargetsAssumption
<1>2. /\ c.source = command.source /\ c.env = command.env /\ c.cwd = command.cwd /\ c.build = b
    BY <1>1 DEF Cmd!CommandLine
<1>3. l.source = Cmd!SourceRoot(tree, c) /\ l.source # None /\ l.output = Cmd!OutputRoot(tree, c, l.source)
    BY LayoutSays
<1> HIDE DEF c
<1>4. Cmd!SourceRoot(tree, c) = Cmd!SourceRoot(tree, command) BY <1>2 DEF Cmd!SourceRoot
<1>5. QED BY <1>2, <1>3, <1>4 DEF Cmd!OutputRoot, Cmd!Named

\* Whatever the tree and wherever one stands in it, a command that names no build
\* directory is about the outermost one that encloses the current directory, or about the
\* source tree, never about one found by looking (find_enclosing_build_dir,
\* discover_layout).
THEOREM PlaceIsHeeded ==
    ASSUME Cmd!TargetsAssumption
    PROVE  Cmd!Spec => []Cmd!PlaceDecides
<1>1. TargetsInv => Cmd!PlaceDecides
    <2> SUFFICES ASSUME TargetsInv, Cmd!Answered, command.targets = {}, command.builds = {},
                        command.env.build = None, NEW l \in answer.layouts, ~Cmd!IsRefused(l),
                        Cmd!Inside(command.cwd, l.source)
                 PROVE  l.output \in IF Cmd!Outermost(l.source) = {} THEN {l.source} ELSE Cmd!Outermost(l.source)
        <3>1. ASSUME TargetsInv, Cmd!Answered, command.targets = {}, command.builds = {},
                     command.env.build = None, NEW l \in answer.layouts, ~Cmd!IsRefused(l),
                     ~Cmd!Inside(command.cwd, l.source)
              PROVE  l.output \in {l.source, command.cwd}
            <4> DEFINE enclosing == Cmd!Enclosing(tree, command.cwd, Cmd!SourceRoot(tree, command))
            <4>1. command \in Cmd!CommandLine BY <3>1 DEF TargetsInv, Cmd!TargetsAssumption
            <4>2. command = [command EXCEPT !.build = None] BY <4>1 DEF Cmd!CommandLine
            <4>3. CASE l = Cmd!DiscoverLayout(tree, [command EXCEPT !.build = None])
                <5>1. None \in Cmd!Root BY DEF Cmd!Root
                <5>2. QED BY <3>1, <4>3, <5>1, StandingSays
            <4>4. CASE enclosing # None /\ l = Cmd!DiscoverLayout(tree, [command EXCEPT !.build = enclosing])
                <5>1. l.source = Cmd!SourceRoot(tree, command)
                    <6>1. l.source = Cmd!SourceRoot(tree, [command EXCEPT !.build = enclosing])
                        BY <3>1, <4>4, LayoutSays
                    <6>2. QED BY <4>1, <6>1 DEF Cmd!SourceRoot, Cmd!CommandLine
                <5>2. QED BY <3>1, <4>4, <5>1 DEF Cmd!Enclosing, Cmd!Inside
            <4>5. QED BY <3>1, <4>2, <4>3, <4>4, PlainChoice
        <3>2. QED BY <3>1 DEF Cmd!PlaceDecides
    <2> DEFINE S == Cmd!SourceRoot(tree, command)
               marked == {p \in Cmd!Upward(command.cwd) : Len(S) < Len(p) /\ Cmd!HasMarkers(tree, p)}
               enclosing == Cmd!Enclosing(tree, command.cwd, S)
    <2>1. /\ command \in Cmd!CommandLine /\ command.cwd \in Cmd!Paths /\ command.cwd \in tree.dirs /\ tree \in Trees
          /\ Cmd!Upward(command.cwd) \subseteq tree.dirs /\ tree.dirs \subseteq Cmd!Paths
        BY DEF TargetsInv, Cmd!TargetsAssumption, Cmd!CommandLine
    <2>2. \A p \in Cmd!Upward(command.cwd) : p \in Cmd!Paths BY <2>1
    <2>3. command = [command EXCEPT !.build = None] BY <2>1 DEF Cmd!CommandLine
    <2>4. \/ enclosing = None /\ l = Cmd!DiscoverLayout(tree, [command EXCEPT !.build = None])
          \/ enclosing # None /\ l = Cmd!DiscoverLayout(tree, [command EXCEPT !.build = enclosing])
        BY <2>3, PlainChoice
    <2>5. l.source = S
        <3>1. PICK b : l = Cmd!DiscoverLayout(tree, [command EXCEPT !.build = b]) BY <2>4
        <3>2. l.source = Cmd!SourceRoot(tree, [command EXCEPT !.build = b]) BY <3>1, LayoutSays
        <3>3. QED BY <2>1, <3>2 DEF Cmd!SourceRoot, Cmd!CommandLine
    <2>6. S \in Cmd!Upward(command.cwd) BY <2>5 DEF Cmd!Inside
    <2>7. S \in Cmd!Paths /\ Len(S) \in Nat BY <2>1, <2>6 DEF Cmd!Paths
    <2>8. marked \in SUBSET Cmd!Paths BY <2>1
    <2>9. enclosing = IF marked # {} THEN Cmd!Shortest(marked) ELSE None BY <2>6 DEF Cmd!Enclosing
    <2>10. marked # {} => enclosing \in marked /\ \A q \in marked : Len(enclosing) <= Len(q)
        <3> HIDE DEF marked
        <3>1. QED BY <2>8, <2>9, ShortestIs
    <2>11. None \notin marked BY <2>8 DEF Cmd!TargetsAssumption
    <2>12. CASE enclosing = None
        <3>1. marked = {} BY <2>10, <2>11, <2>12
        <3>2. Cmd!Outermost(S) = {}
            <4>1. \A p \in Cmd!Outermost(S) : p \in marked BY DEF Cmd!Outermost, Cmd!Inside
            <4>2. QED BY <3>1, <4>1
        <3>3. None \in Cmd!Root BY DEF Cmd!Root
        <3>4. l.output = IF Cmd!Exists(tree, Append(command.cwd, ConfigName)) /\ command.cwd # l.source
                         THEN command.cwd ELSE l.source
            BY <2>4, <2>12, <3>3, StandingSays
        <3>5. ASSUME Cmd!Exists(tree, Append(command.cwd, ConfigName)), command.cwd # S PROVE FALSE
            <4>1. command.cwd \in Cmd!Upward(command.cwd) /\ Len(S) <= Len(command.cwd)
                  /\ Len(S) # Len(command.cwd)
                BY <2>1, <2>6, <3>5, UpwardSays
            <4>2. Len(command.cwd) \in Nat BY <2>1 DEF Cmd!Paths
            <4>3. command.cwd \in marked BY <3>5, <4>1, <4>2, <2>7 DEF Cmd!HasMarkers
            <4>4. QED BY <3>1, <4>3
        <3>6. l.output = l.source BY <2>5, <3>4, <3>5
        <3>7. QED BY <2>5, <3>2, <3>6
    <2>13. CASE enclosing # None
        <3>1. enclosing \in marked /\ \A q \in marked : Len(enclosing) <= Len(q) BY <2>9, <2>10, <2>13
        <3>2. enclosing \in Cmd!Root BY <3>1, <2>8 DEF Cmd!Root
        <3>3. l.output = enclosing BY <2>4, <2>13, <3>2, StandingSays
        <3>4. /\ enclosing \in Cmd!Upward(command.cwd) /\ Len(S) < Len(enclosing) /\ Cmd!HasMarkers(tree, enclosing)
              /\ enclosing \in Cmd!Paths
            BY <3>1, <2>8
        <3> HIDE DEF enclosing
        <3>5. enclosing # <<>> BY <3>4, <2>7
        <3>6. ASSUME NEW q \in Cmd!Upward(Cmd!Parent(enclosing)), Len(S) < Len(q), Cmd!HasMarkers(tree, q)
              PROVE  FALSE
            <4>1. q \in Cmd!Upward(command.cwd) /\ Len(q) < Len(enclosing) BY <2>1, <3>4, <3>5, UpwardSays
            <4>2. q \in marked BY <3>6, <4>1
            <4>3. Len(q) \in Nat /\ Len(enclosing) \in Nat BY <4>2, <2>8, <3>4 DEF Cmd!Paths
            <4>4. Len(enclosing) <= Len(q) BY <3>1, <4>2
            <4>5. QED BY <4>1, <4>3, <4>4
        <3>7. enclosing \in tree.dirs BY <2>1, <3>4
        <3>8. enclosing \in Cmd!Outermost(S) BY <3>4, <3>6, <3>7 DEF Cmd!Outermost, Cmd!Inside
        <3>9. QED BY <2>5, <3>3, <3>8
    <2>14. QED BY <2>4, <2>12, <2>13
<1>2. QED BY <1>1, AnswerStands, PTL

LEMMA Joined ==
    ASSUME NEW S, NEW s \in Seq(S), NEW e \in S, NEW r \in Seq(S)
    PROVE  s \o (<<e>> \o r) = Append(s, e) \o r
<1>1. Append(s, e) = s \o <<e>> OBVIOUS
<1>2. PICK u \in Seq(S) : u = <<e>>
    <2>1. <<>> \in Seq(S) OBVIOUS
    <2>2. Append(<<>>, e) \in Seq(S) BY <2>1
    <2>3. Append(<<>>, e) = <<e>> OBVIOUS
    <2>4. QED BY <2>2, <2>3
<1>3. (s \o u) \o r = s \o (u \o r) OBVIOUS
<1>4. QED BY <1>1, <1>2, <1>3

\* A path below a directory is not the directory, unless it is empty; what is written
\* below the root with the name of a match is the match.
LEMMA WrittenOut ==
    ASSUME Cmd!TargetsAssumption, NEW t \in Trees, NEW dir \in t.dirs, dir # <<>>, NEW rest \in Cmd!Paths
    PROVE  /\ Append(Cmd!Parent(dir), Cmd!Last(dir)) = dir
           /\ Cmd!Parent(dir) \o (<<Cmd!Last(dir)>> \o rest) = dir \o rest
           /\ rest = <<>> => dir \o rest = dir
<1>1. dir \in Cmd!Paths BY DEF Cmd!TargetsAssumption
<1> DEFINE n == Len(dir)
<1>2. n \in Nat \ {0} /\ Cmd!Parent(dir) = SubSeq(dir, 1, n - 1) /\ Cmd!Last(dir) = dir[n]
    BY <1>1 DEF Cmd!Parent, Cmd!Front, Cmd!Last, Cmd!Paths
<1>3. dir[n] \in Cmd!Names /\ SubSeq(dir, 1, n - 1) \in Cmd!Paths BY <1>1, <1>2 DEF Cmd!Paths
<1>4. Append(SubSeq(dir, 1, n - 1), dir[n]) = dir BY <1>1, <1>2 DEF Cmd!Paths
<1>5. SubSeq(dir, 1, n - 1) \o (<<dir[n]>> \o rest) = Append(SubSeq(dir, 1, n - 1), dir[n]) \o rest
    <2>1. PICK s \in Seq(Cmd!Names) : s = SubSeq(dir, 1, n - 1) BY <1>3 DEF Cmd!Paths
    <2>2. PICK e \in Cmd!Names : e = dir[n] BY <1>3
    <2>3. rest \in Seq(Cmd!Names) BY DEF Cmd!Paths
    <2>4. s \o (<<e>> \o rest) = Append(s, e) \o rest BY <2>3, Joined
    <2>5. QED BY <2>1, <2>2, <2>4
<1>6. rest = <<>> => dir \o rest = dir BY <1>1 DEF Cmd!Paths
<1>7. QED BY <1>2, <1>4, <1>5, <1>6

\* Whatever the tree, a pattern comes to what its matches come to when each is written
\* out as a target of its own (expand_glob_target, parse_target).
THEOREM PatternsAreWrittenOut ==
    ASSUME Cmd!TargetsAssumption
    PROVE  Cmd!Spec => []Cmd!PatternsMeanTheirMatches
<1>1. TargetsInv => Cmd!PatternsMeanTheirMatches
    <2> SUFFICES ASSUME TargetsInv, NEW target \in command.targets, target.glob, NEW root,
                        Cmd!Refused \notin {Cmd!ParseTarget(tree, root, [target EXCEPT !.head = r.variant]) :
                                            r \in Cmd!Expanded(tree, root, target)}
                 PROVE  {Cmd!ParseTarget(tree, root, [target EXCEPT !.head = r.variant]) :
                            r \in Cmd!Expanded(tree, root, target)} = Cmd!Expanded(tree, root, target)
        BY DEF Cmd!PatternsMeanTheirMatches
    <2>1. tree \in Trees /\ target \in Cmd!Target /\ target.rest \in Cmd!Paths
        BY DEF TargetsInv, Cmd!TargetsAssumption, Cmd!CommandLine, Cmd!Target
    <2>2. ASSUME NEW r \in Cmd!Expanded(tree, root, target)
          PROVE  Cmd!ParseTarget(tree, root, [target EXCEPT !.head = r.variant]) = r
        <3> DEFINE full(dir) == dir \o target.rest
                   output(dir) == /\ target.rest # <<>>
                                  /\ \/ full(dir) \in tree.files
                                     \/ full(dir) \notin tree.dirs /\ ~Cmd!IsSource(full(dir)) /\ Cmd!Exists(tree, Cmd!Parent(full(dir)))
        <3>1. PICK dir \in Cmd!Children(tree, root) :
                  /\ Cmd!IsVariantDir(tree, dir)
                  /\ r = [variant |-> Cmd!Last(dir), what |-> target.rest, output |-> output(dir)]
            BY DEF Cmd!Expanded
        <3>2. dir \in tree.dirs /\ dir # <<>> /\ Cmd!Parent(dir) = root BY DEF Cmd!Children
        <3>3. /\ Append(root, Cmd!Last(dir)) = dir /\ root \o (<<Cmd!Last(dir)>> \o target.rest) = full(dir)
              /\ target.rest = <<>> => full(dir) = dir
            BY <2>1, <3>2, WrittenOut
        <3> DEFINE written == [target EXCEPT !.head = Cmd!Last(dir)]
        <3>4. written.head = Cmd!Last(dir) /\ written.rest = target.rest /\ r.variant = Cmd!Last(dir)
            BY <2>1, <3>1 DEF Cmd!Target
        <3> HIDE DEF written, full
        <3>5. Cmd!ParseTarget(tree, root, written) =
                  IF full(dir) \notin tree.dirs
                     /\ (Cmd!IsSource(full(dir)) \/ (~Cmd!Exists(tree, full(dir)) /\ ~Cmd!Exists(tree, Cmd!Parent(full(dir)))))
                  THEN Cmd!Refused
                  ELSE [variant |-> Cmd!Last(dir), what |-> target.rest, output |-> full(dir) \notin tree.dirs]
            BY <3>1, <3>3, <3>4 DEF Cmd!ParseTarget
        <3>6. Cmd!ParseTarget(tree, root, written) # Cmd!Refused BY <3>4 DEF written
        <3>7. output(dir) = (full(dir) \notin tree.dirs)
            <4>1. tree.dirs \cap tree.files = {} BY <2>1 DEF Cmd!TargetsAssumption
            <4>2. CASE full(dir) \in tree.dirs BY <4>1, <4>2
            <4>3. CASE full(dir) \notin tree.dirs
                <5>1. ~Cmd!IsSource(full(dir)) /\ (Cmd!Exists(tree, full(dir)) \/ Cmd!Exists(tree, Cmd!Parent(full(dir))))
                    BY <3>5, <3>6, <4>3
                <5>2. target.rest # <<>> BY <3>2, <3>3, <4>3
                <5>3. QED BY <4>3, <5>1, <5>2 DEF Cmd!Exists
            <4>4. QED BY <4>2, <4>3
        <3> HIDE DEF output
        <3>8. Cmd!ParseTarget(tree, root, written) = r BY <3>1, <3>5, <3>6, <3>7
        <3>9. QED BY <3>4, <3>8 DEF written
    <2> HIDE DEF Cmd!PatternsMeanTheirMatches
    <2>3. QED BY <2>2
<1>2. QED BY <1>1, AnswerStands, PTL
=============================================================================
