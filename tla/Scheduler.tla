----------------------------- MODULE Scheduler -----------------------------
(***************************************************************************)
(* The event loop of src/src/exec/scheduler.cpp: one thread that launches  *)
(* commands as child processes into a fixed array of slots, polls their    *)
(* pipes, reaps the ones that exited, and hands the jobs that waited for   *)
(* them to the ready queue.                                                *)
(*                                                                         *)
(* The scheduler itself is sequential; what runs beside it are the child   *)
(* processes, and whatever they leave running in the background.  pc says  *)
(* which of the numbered phases of the loop the thread is in, and cursor   *)
(* which slot that phase is at.  A job is its index in the job vector.     *)
(***************************************************************************)
EXTENDS Naturals, Sequences, FiniteSets

CONSTANTS
    NumJobs,         \* jobs.size()
    DependencyMaps,  \* the `dependents` maps build_dependency_map may return
    OptionSets,      \* the SchedulerOptions a build may be run with
    ScanJobs         \* the jobs with inject_implicit_deps set

Job == 1..NumJobs
NoJob == 0

ASSUME NumJobsAssumption == NumJobs \in Nat \ {0}
ASSUME MapsAssumption == DependencyMaps \subseteq [Job -> SUBSET Job]
ASSUME OptionsAssumption ==
    OptionSets \subseteq [jobs : Nat \ {0}, keep_going : BOOLEAN,
                          dry_run : BOOLEAN, timeout : BOOLEAN]
ASSUME ScanAssumption == ScanJobs \subseteq Job

VARIABLES
    options,         \* impl_->options
    dependents,      \* dependents[i]: the jobs that wait for job i
    in_degree,       \* in_degree[j]: how many jobs j still waits for
    ready,           \* ready_queue
    slots,           \* the job each slot runs, or NoJob
    running,         \* occupied slots, as counted
    finished_count,
    completed_jobs,  \* stats.completed_jobs
    failed_jobs,     \* stats.failed_jobs
    failed,
    cancelled,       \* impl_->cancelled
    outcome,         \* what on_complete was told of each job
    pc, cursor,
    proc,            \* the child process of each job
    pipe,            \* the read end of its output
    overdue,         \* jobs whose per-command timeout has elapsed
    written          \* jobs whose declared outputs all exist on disk

counters == <<running, finished_count, completed_jobs, failed_jobs>>
plan     == <<options, dependents>>
queueing == <<in_degree, ready, slots, counters, failed, outcome>>
world    == <<proc, pipe, overdue, written>>
vars     == <<plan, queueing, cancelled, pc, cursor, world>>

\* Mutant: -j is not obeyed.
SlotForEach == NumJobs
MaxSlots == IF options.jobs < NumJobs THEN options.jobs ELSE NumJobs
Slots    == 1..MaxSlots

\* The jobs j waits for: the other side of `dependents`.
Needs(j) == {i \in Job : j \in dependents[i]}

Active    == {s \in Slots : slots[s] # NoJob}
RunningJobs == {j \in Job : \E s \in Slots : slots[s] = j}
Exited(j) == proc[j] \in {"exit0", "exit1"}

\* The enumerations of S in increasing order of job index, as sequences.
InOrder(S) ==
    {q \in [1..Cardinality(S) -> S] :
        /\ \A x \in S : \E i \in 1..Cardinality(S) : q[i] = x
        /\ \A i, k \in 1..Cardinality(S) : i < k => q[i] < q[k]}
-----------------------------------------------------------------------------
TypeOK ==
    /\ options \in OptionSets
    /\ dependents \in DependencyMaps
    /\ in_degree \in [Job -> Nat]
    /\ ready \in Seq(Job)
    /\ slots \in [Slots -> Job \cup {NoJob}]
    /\ running \in Nat /\ finished_count \in Nat
    /\ completed_jobs \in Nat /\ failed_jobs \in Nat
    /\ failed \in BOOLEAN /\ cancelled \in BOOLEAN
    /\ outcome \in [Job -> {"none", "success", "failure"}]
    /\ pc \in {"launch", "poll", "reap", "check", "done"}
    /\ cursor \in 1..(MaxSlots + 1)
    /\ proc \in [Job -> {"none", "live", "dying", "exit0", "exit1", "reaped"}]
    /\ pipe \in [Job -> {"none", "quiet", "data", "hup", "closed"}]
    /\ overdue \in SUBSET Job
    /\ written \in SUBSET Job

\* Outputs of an earlier build may still be on disk when this one starts.
Init ==
    /\ options \in OptionSets
    /\ dependents \in DependencyMaps
    /\ in_degree = [j \in Job |-> Cardinality(Needs(j))]
    /\ ready \in InOrder({j \in Job : Needs(j) = {}})
    /\ slots = [s \in Slots |-> NoJob]
    /\ running = 0 /\ finished_count = 0
    /\ completed_jobs = 0 /\ failed_jobs = 0
    /\ failed = FALSE /\ cancelled = FALSE
    /\ outcome = [j \in Job |-> "none"]
    /\ pc = "launch" /\ cursor = 1
    /\ proc = [j \in Job |-> "none"]
    /\ pipe = [j \in Job |-> "none"]
    /\ overdue = {}
    /\ written \in SUBSET Job
-----------------------------------------------------------------------------
(***************************************************************************)
(* How a job ends.  A success releases the jobs that waited for it, in     *)
(* index order; a failure releases nobody.                                 *)
(***************************************************************************)
\* Mutant: whoever waits for j is released, whatever else it waits for.
SucceedReleasingAll(j, queue) ==
    /\ outcome' = [outcome EXCEPT ![j] = "success"]
    /\ completed_jobs' = completed_jobs + 1
    /\ finished_count' = finished_count + 1
    /\ in_degree' = [d \in Job |-> IF d \in dependents[j] /\ in_degree[d] > 0
                                   THEN in_degree[d] - 1 ELSE in_degree[d]]
    /\ \E released \in InOrder(dependents[j]) : ready' = queue \o released
    /\ UNCHANGED <<failed_jobs, failed>>

Succeed(j, queue) ==
    /\ outcome' = [outcome EXCEPT ![j] = "success"]
    /\ completed_jobs' = completed_jobs + 1
    /\ finished_count' = finished_count + 1
    /\ in_degree' = [d \in Job |-> IF d \in dependents[j] THEN in_degree[d] - 1
                                                          ELSE in_degree[d]]
    /\ \E released \in InOrder({d \in dependents[j] : in_degree[d] = 1}) :
            ready' = queue \o released
    /\ UNCHANGED <<failed_jobs, failed>>

Fail(j, queue) ==
    /\ outcome' = [outcome EXCEPT ![j] = "failure"]
    /\ failed_jobs' = failed_jobs + 1
    /\ finished_count' = finished_count + 1
    /\ failed' = TRUE
    /\ ready' = queue
    /\ UNCHANGED <<completed_jobs, in_degree>>
-----------------------------------------------------------------------------
(***************************************************************************)
(* Phase 1: fill the empty slots from the ready queue, one slot a step.    *)
(***************************************************************************)
AtFreeSlot ==
    /\ pc = "launch" /\ cursor \in Slots
    /\ slots[cursor] = NoJob /\ ready # <<>>
    /\ cursor' = cursor + 1
    /\ UNCHANGED <<plan, cancelled, pc, overdue, written>>

Launch ==
    LET j == Head(ready) IN
    /\ AtFreeSlot
    /\ ~options.dry_run
    /\ ready' = Tail(ready)
    /\ slots' = [slots EXCEPT ![cursor] = j]
    /\ running' = running + 1
    /\ proc' = [proc EXCEPT ![j] = "live"]
    /\ pipe' = [pipe EXCEPT ![j] = "quiet"]
    /\ UNCHANGED <<in_degree, finished_count, completed_jobs, failed_jobs,
                   failed, outcome>>

\* pipe() or fork() failed: the job counts as failed, the pass goes on.
LaunchFails ==
    /\ AtFreeSlot
    /\ ~options.dry_run
    /\ Fail(Head(ready), Tail(ready))
    /\ UNCHANGED <<slots, running, proc, pipe>>

LaunchDry ==
    /\ AtFreeSlot
    /\ options.dry_run
    /\ Succeed(Head(ready), Tail(ready))
    /\ UNCHANGED <<slots, running, proc, pipe>>

SkipSlot ==
    /\ pc = "launch" /\ cursor \in Slots
    /\ slots[cursor] # NoJob \/ ready = <<>>
    /\ cursor' = cursor + 1
    /\ UNCHANGED <<plan, queueing, cancelled, pc, world>>

\* Nothing running and nothing to run: what is left waits for a failed job.
EndLaunch ==
    /\ pc = "launch" /\ cursor \notin Slots
    /\ pc' = IF running = 0 /\ ready = <<>> THEN "done" ELSE "poll"
    /\ UNCHANGED <<plan, queueing, cancelled, cursor, world>>
-----------------------------------------------------------------------------
(***************************************************************************)
(* Phases 2-4: block in poll() until a pipe has data or lost its last      *)
(* writer, or the earliest deadline passes; then one read per ready pipe.  *)
(* With no pipe left open the wait is over at once.                        *)
(***************************************************************************)
\* Mutants: the wait ignores a hang-up, or the deadlines.
PollMissesHangup ==
    \/ \E j \in RunningJobs : pipe[j] = "data"
    \/ \A j \in RunningJobs : pipe[j] = "closed"

PollMissesDeadline ==
    \/ \E j \in RunningJobs : pipe[j] \in {"data", "hup"}
    \/ \A j \in RunningJobs : pipe[j] = "closed"

PollReturns ==
    \/ \E j \in RunningJobs : pipe[j] \in {"data", "hup"}
    \/ \A j \in RunningJobs : pipe[j] = "closed"
    \/ options.timeout /\ \E j \in RunningJobs : j \in overdue

Drained(p) == CASE p = "data" -> "quiet" [] p = "hup" -> "closed" [] OTHER -> p

\* Mutant: the reap phase starts before the first slot.
PollOffByOne ==
    /\ pc = "poll"
    /\ PollReturns
    /\ pipe' = [j \in Job |-> IF j \in RunningJobs THEN Drained(pipe[j])
                                                   ELSE pipe[j]]
    /\ pc' = "reap" /\ cursor' = 0
    /\ UNCHANGED <<plan, queueing, cancelled, proc, overdue, written>>

Poll ==
    /\ pc = "poll"
    /\ PollReturns
    /\ pipe' = [j \in Job |-> IF j \in RunningJobs THEN Drained(pipe[j])
                                                   ELSE pipe[j]]
    /\ pc' = "reap" /\ cursor' = 1
    /\ UNCHANGED <<plan, queueing, cancelled, proc, overdue, written>>
-----------------------------------------------------------------------------
(***************************************************************************)
(* Phase 5: reap, one slot a step.                                         *)
(***************************************************************************)
AtSlotOf(j) ==
    /\ pc = "reap" /\ cursor \in Slots /\ slots[cursor] = j
    /\ cursor' = cursor + 1
    /\ UNCHANGED <<plan, cancelled, pc, overdue, written>>

\* The exit status is not the last word: a scan whose stdout is no depfile and
\* a command that left a declared output unwritten both fail.
\* Mutant: a missing output goes unnoticed.
TrustExitStatus(j, scan_rejected) == proc[j] = "exit0" /\ ~scan_rejected
JobSuccess(j, scan_rejected) ==
    proc[j] = "exit0" /\ ~scan_rejected /\ j \in written

\* waitpid(WNOHANG) found the child gone.
Reap(j) ==
    /\ AtSlotOf(j)
    /\ Exited(j)
    /\ slots' = [slots EXCEPT ![cursor] = NoJob]
    /\ running' = running - 1
    /\ proc' = [proc EXCEPT ![j] = "reaped"]
    /\ pipe' = [pipe EXCEPT ![j] = "closed"]
    /\ \E scan_rejected \in BOOLEAN :
        /\ scan_rejected => j \in ScanJobs
        /\ IF JobSuccess(j, scan_rejected)
           THEN Succeed(j, ready)
           ELSE Fail(j, ready)

\* Past its deadline: SIGKILL, which need not have taken effect at the waitpid
\* that follows.
KillOverdue(j) ==
    /\ pc = "reap" /\ cursor \in Slots /\ slots[cursor] = j
    /\ options.timeout /\ j \in overdue /\ proc[j] = "live"
    /\ proc' = [proc EXCEPT ![j] = "dying"]
    /\ UNCHANGED <<plan, queueing, cancelled, pc, cursor, pipe, overdue, written>>

StillRunning(j) ==
    /\ AtSlotOf(j)
    /\ proc[j] \in {"live", "dying"}
    /\ ~(options.timeout /\ j \in overdue /\ proc[j] = "live")
    /\ UNCHANGED <<queueing, proc, pipe>>

SkipEmpty ==
    /\ pc = "reap" /\ cursor \in Slots /\ slots[cursor] = NoJob
    /\ cursor' = cursor + 1
    /\ UNCHANGED <<plan, queueing, cancelled, pc, world>>

\* Mutant: the next pass starts without phase 6.
EndReapUnchecked ==
    /\ pc = "reap" /\ cursor \notin Slots
    /\ pc' = "launch" /\ cursor' = 1
    /\ UNCHANGED <<plan, queueing, cancelled, world>>

EndReap ==
    /\ pc = "reap" /\ cursor \notin Slots
    /\ pc' = "check"
    /\ UNCHANGED <<plan, queueing, cancelled, cursor, world>>
-----------------------------------------------------------------------------
(***************************************************************************)
(* Phase 6 and the loop condition.                                         *)
(***************************************************************************)
\* Mutant: keep_going is not looked at.
StopOnFailure == cancelled \/ failed
MustStop == cancelled \/ (failed /\ ~options.keep_going)

\* Mutants: the children are killed but not waited for, or not counted off.
TerminateUnreaped ==
    /\ pc = "check" /\ MustStop
    /\ slots' = [s \in Slots |-> NoJob]
    /\ running' = running - Cardinality(Active)
    /\ proc' = [j \in Job |-> IF j \in RunningJobs /\ proc[j] = "live"
                              THEN "dying" ELSE proc[j]]
    /\ pc' = "done"
    /\ UNCHANGED <<plan, in_degree, ready, finished_count, completed_jobs,
                   failed_jobs, failed, outcome, cancelled, cursor, pipe,
                   overdue, written>>

TerminateUncounted ==
    /\ pc = "check" /\ MustStop
    /\ slots' = [s \in Slots |-> NoJob]
    /\ proc' = [j \in Job |-> IF j \in RunningJobs THEN "reaped" ELSE proc[j]]
    /\ pipe' = [j \in Job |-> IF j \in RunningJobs THEN "closed" ELSE pipe[j]]
    /\ pc' = "done"
    /\ UNCHANGED <<plan, in_degree, ready, counters, failed, outcome, cancelled,
                   cursor, overdue, written>>

\* SIGTERM every child, SIGKILL those still there, reap them all; nobody is
\* told of a job that ended this way.
Terminate ==
    /\ pc = "check" /\ MustStop
    /\ slots' = [s \in Slots |-> NoJob]
    /\ running' = running - Cardinality(Active)
    /\ proc' = [j \in Job |-> IF j \in RunningJobs THEN "reaped" ELSE proc[j]]
    /\ pipe' = [j \in Job |-> IF j \in RunningJobs THEN "closed" ELSE pipe[j]]
    /\ pc' = "done"
    /\ UNCHANGED <<plan, in_degree, ready, finished_count, completed_jobs,
                   failed_jobs, failed, outcome, cancelled, cursor, overdue,
                   written>>

\* Mutant: the loop ends one job early.
LoopOffByOne ==
    /\ pc = "check" /\ ~MustStop
    /\ pc' = IF finished_count + 1 < NumJobs THEN "launch" ELSE "done"
    /\ cursor' = IF ~failed \/ options.keep_going THEN 1 ELSE MaxSlots + 1
    /\ UNCHANGED <<plan, queueing, cancelled, world>>

\* The launch phase is passed over when a failure has closed it.
Loop ==
    /\ pc = "check" /\ ~MustStop
    /\ pc' = IF finished_count < NumJobs THEN "launch" ELSE "done"
    /\ cursor' = IF ~failed \/ options.keep_going THEN 1 ELSE MaxSlots + 1
    /\ UNCHANGED <<plan, queueing, cancelled, world>>

\* Scheduler::cancel, from a callback the loop makes.
Cancel ==
    /\ pc \in {"launch", "reap"} /\ ~cancelled
    /\ cancelled' = TRUE
    /\ UNCHANGED <<plan, queueing, pc, cursor, world>>
-----------------------------------------------------------------------------
(***************************************************************************)
(* The child processes.  A command may write its outputs and print at any  *)
(* time; its pipe hangs up when the last process holding it is gone, which *)
(* need not be the command: it may close its output early, and what it     *)
(* left in the background may keep the pipe past its exit.                 *)
(***************************************************************************)
ChildFrame == UNCHANGED <<plan, queueing, cancelled, pc, cursor>>

WriteOutputs(j) ==
    /\ proc[j] = "live" /\ j \notin written
    /\ written' = written \cup {j}
    /\ ChildFrame /\ UNCHANGED <<proc, pipe, overdue>>

WritePipe(j) ==
    /\ proc[j] \in {"live", "dying", "exit0", "exit1"} /\ pipe[j] = "quiet"
    /\ pipe' = [pipe EXCEPT ![j] = "data"]
    /\ ChildFrame /\ UNCHANGED <<proc, overdue, written>>

CloseOutput(j) ==
    /\ pipe[j] \in {"quiet", "data"}
    /\ pipe' = [pipe EXCEPT ![j] = "hup"]
    /\ ChildFrame /\ UNCHANGED <<proc, overdue, written>>

Exit(j) ==
    /\ proc[j] = "live"
    /\ \E status \in {"exit0", "exit1"} : proc' = [proc EXCEPT ![j] = status]
    /\ ChildFrame /\ UNCHANGED <<pipe, overdue, written>>

\* SIGKILL takes effect.
Die(j) ==
    /\ proc[j] = "dying"
    /\ proc' = [proc EXCEPT ![j] = "exit1"]
    /\ ChildFrame /\ UNCHANGED <<pipe, overdue, written>>

\* The clock passes the deadline of a running job.
Expire(j) ==
    /\ options.timeout /\ j \in RunningJobs /\ j \notin overdue
    /\ overdue' = overdue \cup {j}
    /\ ChildFrame /\ UNCHANGED <<proc, pipe, written>>
-----------------------------------------------------------------------------
LoopStep ==
    \/ Launch \/ LaunchFails \/ LaunchDry \/ SkipSlot \/ EndLaunch
    \/ Poll
    \/ \E j \in Job : Reap(j) \/ KillOverdue(j) \/ StillRunning(j)
    \/ SkipEmpty \/ EndReap
    \/ Terminate \/ Loop

ChildStep(j) ==
    \/ WriteOutputs(j) \/ WritePipe(j) \/ CloseOutput(j)
    \/ Exit(j) \/ Die(j) \/ Expire(j)

\* execute_parallel has returned; what its commands left behind may go on.
Returned == pc = "done" /\ UNCHANGED vars

Next == LoopStep \/ Cancel \/ (\E j \in Job : ChildStep(j)) \/ Returned

Spec == Init /\ [][Next]_vars
=============================================================================
