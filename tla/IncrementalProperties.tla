----------------------- MODULE IncrementalProperties -----------------------
(***************************************************************************)
(* What the build record is for: no change is ever forgotten, and nothing  *)
(* is run without a reason.                                                *)
(***************************************************************************)
EXTENDS IncrementalBuild

Stale(c) == made[c] # Result(c)

(***************************************************************************)
(* A command whose output is not what its inputs and its text would now    *)
(* make is seen by the next full build, whatever builds failed, died or    *)
(* were overtaken by edits before (REQ-EXIT-CARRY, REQ-EXIT-COMPARE,       *)
(* REQ-INPUT-MIDBUILD in spec/requirements/command-record.ears.md).        *)
(***************************************************************************)
NothingForgotten ==
    pc = "idle" => \A c \in Cmd : Stale(c) => c \in Selected(FullRun)

(***************************************************************************)
(* After a full build that reported success, with nothing edited since it  *)
(* started, every output is what a build from scratch would make, except   *)
(* that of a command recorded as having raced another (REQ-IMPL-RACE).     *)
(***************************************************************************)
FreshWhenClean ==
    pc = "idle" /\ clean =>
        \A c \in Cmd : Stale(c) => record.saved /\ c \in record.must_rerun

(***************************************************************************)
(* Nothing runs again when nothing changed since a full build succeeded,   *)
(* except on account of a recorded race (REQ-IMPL-NORACE, REQ-SIG-STABLE). *)
(***************************************************************************)
NoNeedlessRun ==
    pc = "running" /\ clean /\ ~run.rerun => record.must_rerun # {}

(***************************************************************************)
(* A record that says a command must run is kept until that command exits  *)
(* zero, and a command scheduled but not brought to success gets one       *)
(* (REQ-EXIT-RECORD, REQ-EXIT-ABORT).                                      *)
(***************************************************************************)
OwedRunsKept ==
    [][record' # record =>
            (record.must_rerun \cup plan.filter) \ executed
                \subseteq record'.must_rerun]_vars

(***************************************************************************)
(* REQ-INPUT-UNEXAMINED, command-record.ears.md:332: "If a build does not  *)
(* examine a recorded file, then putup shall preserve that file's recorded *)
(* state rather than replacing it with state observed during that build."  *)
(* What the build itself wrote is observed, not restated.                  *)
(***************************************************************************)
UnexaminedKept ==
    [][record' # record =>
            \A n \in (record.files \cap record'.files)
                        \ (plan.examined \cup executed) :
                record'.hash[n] = record.hash[n]]_vars

(***************************************************************************)
(* REQ-INPUT-MIDBUILD, command-record.ears.md:343: "If a source file is    *)
(* modified after a build starts, then putup shall run the commands that   *)
(* read it again on the next build."  A source that has the content the    *)
(* scan read before any command ran is excepted (REQ-INPUT-FUTURE-MTIME).  *)
(***************************************************************************)
Overtaken == {s \in touched : <<s, source[s]>> \notin plan.before}

MidBuildEditsSeen ==
    [][record' # record =>
            \A c \in executed :
                (Reads[c] \cup discovered[c]) \cap Overtaken # {}
                    => c \in Selected(FullRun)']_vars

(***************************************************************************)
(* Once the user stops editing and keeps starting full builds, and no      *)
(* command fails and no build dies any more, every output becomes fresh    *)
(* and stays so, those of commands that raced another included.            *)
(***************************************************************************)
AllFresh  == \A c \in Cmd : ~Stale(c)
Calm      == BuildStep \/ Start(FullRun)
Converges == <>[][Calm]_vars => <>[]AllFresh
FairSpec  == Spec /\ WF_vars(Calm)

\* A part of the project is built only once full builds recorded every command.
Allowed(o) == o # FullRun => record.cmds = Cmd
FullFirst  == \/ UserStep \/ BuildStep \/ Crash
              \/ \E o \in Runs : Allowed(o) /\ Start(o)
              \/ \E c \in Cmd : CommandFails(c)
FullFirstSpec == Init /\ [][FullFirst]_vars
=============================================================================
