----------------------------- MODULE StatCache -----------------------------
(***************************************************************************)
(* The stat cache of one source file and one command that reads it: when a *)
(* build trusts the size and time of a file instead of hashing it, and     *)
(* what it records of a file that may change while it runs                 *)
(* (src/src/cli/cmd_build.cpp).  Sizes are equal throughout.  Every edit   *)
(* makes a text that was not there before, no one sets a time back, and    *)
(* the stamps of the file system are as fine as the clock.                 *)
(***************************************************************************)
EXTENDS Naturals

CONSTANTS
    MaxClock,   \* the clock stops here
    MaxText,    \* how many texts there are
    Ahead,      \* how far in the future a file may be dated
    Threshold   \* RACY_CLEAN_THRESHOLD_NS

ASSUME StatCacheAssumption == Ahead \in Nat /\ Threshold \in Nat

VARIABLES
    clock,
    file,    \* [text, mtime]
    seen,    \* the text the command read when it last ran
    entry,   \* the record: [hash, mtime, saved]
    build,   \* [phase, start, found, before, hash, rested]
    quiet    \* the file is as the last build found it, and that build was not cut short

cache == <<clock, file, seen, entry, build, quiet>>

NoHash == 0
NoTime == 0
NoFile == [text |-> NoHash, mtime |-> NoTime]
NoBuild ==
    [phase |-> "idle", start |-> 0, found |-> NoFile, before |-> NoHash, hash |-> NoHash,
     rested |-> FALSE]

CacheInit ==
    /\ clock = 1
    /\ file = [text |-> 1, mtime |-> 1]
    /\ seen = NoHash
    /\ entry = [hash |-> NoHash, mtime |-> NoTime, saved |-> 0]
    /\ build = NoBuild
    /\ quiet = FALSE

Tick == clock < MaxClock /\ clock' = clock + 1 /\ UNCHANGED <<file, seen, entry, build, quiet>>

\* The file is written, and dated now or in the future.
Stamps == {clock, clock + Ahead}
Edit ==
    /\ file.text < MaxText
    /\ \E t \in Stamps : file' = [text |-> file.text + 1, mtime |-> t]
    /\ quiet' = FALSE
    /\ UNCHANGED <<clock, seen, entry, build>>
Touch ==
    /\ \E t \in Stamps \ {file.mtime} : file' = [file EXCEPT !.mtime = t]
    /\ quiet' = FALSE
    /\ UNCHANGED <<clock, seen, entry, build>>

Start ==
    /\ build.phase = "idle"
    /\ build' = [NoBuild EXCEPT !.phase = "stat", !.start = clock]
    /\ UNCHANGED <<clock, file, seen, entry, quiet>>

Stat ==
    /\ build.phase = "stat"
    /\ build' = [build EXCEPT !.phase = "before", !.found = file, !.rested = quiet]
    /\ quiet' = TRUE
    /\ UNCHANGED <<clock, file, seen, entry>>

\* A file modified since the start is hashed before any command runs.
HashBeforeCommands ==
    /\ build.phase = "before"
    /\ build' = [build EXCEPT !.phase = "judge",
                              !.before = IF build.found.mtime >= build.start THEN file.text ELSE NoHash]
    /\ UNCHANGED <<clock, file, seen, entry, quiet>>

RacyClean == entry.saved > 0 /\ entry.mtime + Threshold >= entry.saved
Current == entry.mtime # NoTime /\ build.found.mtime = entry.mtime /\ ~RacyClean
\* The time is trusted unless --no-stat-cache asks for the hash.
Unchanged(trusting) == (trusting /\ Current) \/ (entry.hash # NoHash /\ entry.hash = file.text)
\* A file hashed and found unchanged is recorded with its present time.
Reverified == ~Current /\ build.found.mtime + Threshold < build.start

\* A changed file has its command run.  An unchanged one may see it run for another
\* input, or be recorded anew because something else is.
After(unchanged) ==
    IF unchanged THEN {"run", "hash"} \cup (IF Reverified THEN {} ELSE {"idle"}) ELSE {"run"}
Judge ==
    /\ build.phase = "judge"
    /\ \E trusting \in BOOLEAN : \E phase \in After(Unchanged(trusting)) :
           build' = IF phase = "idle" THEN NoBuild ELSE [build EXCEPT !.phase = phase]
    /\ UNCHANGED <<clock, file, seen, entry, quiet>>

Run ==
    /\ build.phase = "run"
    /\ seen' = file.text
    /\ build' = [build EXCEPT !.phase = "hash"]
    /\ UNCHANGED <<clock, file, entry, quiet>>

HashFile ==
    /\ build.phase = "hash"
    /\ build' = [build EXCEPT !.phase = "save", !.hash = file.text]
    /\ UNCHANGED <<clock, file, seen, entry, quiet>>

\* Mutant: what is there after the commands is what they read.
ObservedAsFound(hash, mtime) == [hash |-> hash, mtime |-> mtime]
\* Mutant: a file modified since the start is never recorded.
ObservedIfOld(hash, mtime) ==
    IF mtime < build.start THEN [hash |-> hash, mtime |-> mtime] ELSE [hash |-> NoHash, mtime |-> NoTime]
RecordedContent(hash, mtime) ==
    IF mtime < build.start THEN [hash |-> hash, mtime |-> mtime]
    ELSE [hash |-> IF build.before = hash THEN hash ELSE NoHash, mtime |-> NoTime]
StatAndSave ==
    /\ build.phase = "save"
    /\ LET content == RecordedContent(build.hash, file.mtime) IN
       entry' = [hash |-> content.hash, mtime |-> content.mtime, saved |-> clock]
    /\ build' = NoBuild
    /\ UNCHANGED <<clock, file, seen, quiet>>

\* A build is killed, or is a dry run: the record stays as it was.
CutShort ==
    /\ build.phase # "idle"
    /\ build' = NoBuild
    /\ quiet' = FALSE
    /\ UNCHANGED <<clock, file, seen, entry>>

\* A build of another directory carries the entry into a record of its own time.
Carry ==
    /\ build.phase = "idle" /\ entry.saved > 0
    /\ entry' = [entry EXCEPT !.saved = clock]
    /\ UNCHANGED <<clock, file, seen, build, quiet>>

CacheNext ==
    \/ Tick \/ Edit \/ Touch
    \/ Start \/ Stat \/ HashBeforeCommands \/ Judge \/ Run \/ HashFile \/ StatAndSave
    \/ CutShort \/ Carry
CacheSpec == CacheInit /\ [][CacheNext]_cache
-----------------------------------------------------------------------------
\* A build that calls a file unchanged, by its time or by its hash, has a command
\* that last read the very text that was there when the build looked, whatever was
\* written to the file before, while and after it was examined, read and recorded
\* (find_changed_files_with_implicit).
NoChangeMissed ==
    build.phase = "judge" => \A trusting \in BOOLEAN : Unchanged(trusting) => seen = build.found.text

\* A file nobody wrote to since a build looked at it, ran to its end and recorded it,
\* does not make the next build run its command again, wherever its time lies
\* (recorded_content).
NothingRunsTwice ==
    build.phase = "judge" /\ build.rested /\ quiet => \A trusting \in BOOLEAN : Unchanged(trusting)

\* The verdicts of the scan are right in both directions (cmd_build.cpp).
VerdictsAreRight == NoChangeMissed /\ NothingRunsTwice
=============================================================================
