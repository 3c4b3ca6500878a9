------------------------ MODULE SchedulerProperties ------------------------
(***************************************************************************)
(* What the scheduler must get right, and the abstract specification it    *)
(* implements.                                                             *)
(***************************************************************************)
EXTENDS Scheduler

Started(j)      == proc[j] # "none" \/ outcome[j] # "none"
InQueue(q, x)   == \E i \in DOMAIN q : q[i] = x
NoDuplicates(q) == \A i, k \in DOMAIN q : q[i] = q[k] => i = k
Unmet(j)        == {i \in Needs(j) : outcome[i] # "success"}

(***************************************************************************)
(* A job is started only after every job it waits for has succeeded with   *)
(* its declared outputs on disk (execute_parallel, reject_unwritten_       *)
(* outputs).  A dry run writes nothing.                                    *)
(***************************************************************************)
DependencyOrder ==
    \A j \in Job : Started(j) =>
        \A i \in Needs(j) :
            /\ outcome[i] = "success"
            /\ options.dry_run \/ i \in written

(***************************************************************************)
(* in_degree is exactly the number of unmet dependencies, and the ready    *)
(* queue holds each unstarted job without any exactly once: no job is      *)
(* queued twice, none is lost between two counters.                        *)
(***************************************************************************)
QueueExact ==
    /\ \A j \in Job : in_degree[j] = Cardinality(Unmet(j))
    /\ \A j \in Job : InQueue(ready, j) <=> in_degree[j] = 0 /\ ~Started(j)
    /\ NoDuplicates(ready)

(***************************************************************************)
(* The counts the exit status is computed from agree with what on_complete *)
(* was told: a command that failed is never lost from failed_jobs, and     *)
(* `running` is the number of children that hold a slot.                   *)
(***************************************************************************)
CountsAgree ==
    /\ running = Cardinality(Active)
    /\ completed_jobs = Cardinality({j \in Job : outcome[j] = "success"})
    /\ failed_jobs = Cardinality({j \in Job : outcome[j] = "failure"})
    /\ finished_count = completed_jobs + failed_jobs

(***************************************************************************)
(* The two together: the counters and the queue the loop decides by are    *)
(* what the jobs' states say, whatever order children exit in              *)
(* (execute_parallel).                                                     *)
(***************************************************************************)
Bookkeeping == QueueExact /\ CountsAgree

(***************************************************************************)
(* A build that ends without a failure or a cancellation ran every job.    *)
(* The comment at scheduler.cpp:387-390 names the way this could break: a  *)
(* stalled ready queue would report success with jobs never run.           *)
(***************************************************************************)
SuccessIsComplete ==
    pc = "done" /\ ~failed /\ ~cancelled => \A j \in Job : outcome[j] = "success"

(***************************************************************************)
(* Under keep_going only a job that waits for one that did not succeed is  *)
(* left unrun.                                                             *)
(***************************************************************************)
KeepGoingRunsTheRest ==
    pc = "done" /\ options.keep_going /\ ~cancelled =>
        \A j \in Job : outcome[j] = "none" =>
            \E i \in Needs(j) : outcome[i] # "success"

(***************************************************************************)
(* When build() returns, every child it launched has been reaped, those it *)
(* killed included: no zombie, no command still writing its outputs.       *)
(***************************************************************************)
NoChildLeft == pc = "done" => \A j \in Job : proc[j] \in {"none", "reaped"}

(***************************************************************************)
(* After a command failed and was reaped, no other is started unless       *)
(* keep_going is set.                                                      *)
(***************************************************************************)
CommandFailed(j) == outcome[j] = "failure" /\ proc[j] = "reaped"
NoStartAfterFailure ==
    [][(\E j \in Job : CommandFailed(j)) /\ ~options.keep_going =>
            \A j \in Job : proc'[j] = "live" => proc[j] = "live"]_vars

(***************************************************************************)
(* The scheduler implements JobOrder.                                      *)
(***************************************************************************)
AbstractStatus(j) ==
    IF outcome[j] # "none" THEN outcome[j]
    ELSE IF j \in RunningJobs THEN "running"
    ELSE IF proc[j] = "reaped" THEN "abandoned" ELSE "waiting"

Order == INSTANCE JobOrder WITH
    needs    <- [j \in Job |-> Needs(j)],
    limit    <- options.jobs,
    status   <- [j \in Job |-> AbstractStatus(j)],
    stopping <- failed \/ cancelled,
    over     <- pc = "done"

ImplementsJobOrder == Order!JobSpec
-----------------------------------------------------------------------------
(***************************************************************************)
(* Fairness.  The loop keeps running and a killed command dies.  Without a *)
(* timeout, a command ends and its pipe loses its last writer; with one    *)
(* neither need happen, only the clock goes on.                            *)
(***************************************************************************)
LoopFair      == WF_vars(LoopStep) /\ \A j \in Job : WF_vars(Die(j))
CommandsEnd   == \A j \in Job : WF_vars(~options.timeout /\ Exit(j))
PipesHangUp   == \A j \in Job : WF_vars(~options.timeout /\ CloseOutput(j))
ClockAdvances == \A j \in Job : WF_vars(Expire(j))

FairSpec   == Spec /\ LoopFair /\ CommandsEnd /\ PipesHangUp /\ ClockAdvances

(***************************************************************************)
(* A build ends: if its commands end and their pipes hang up, or, with a   *)
(* per-command timeout, whatever its commands do.                          *)
(***************************************************************************)
BuildEnds == <>(pc = "done")
=============================================================================
