------------------------------ MODULE JobOrder ------------------------------
(***************************************************************************)
(* What the scheduler promises of the order it runs jobs in, without slots *)
(* (beyond how many), pipes, processes or queues: a job starts once all it *)
(* needs has succeeded, at most Limit run together, a job that started     *)
(* ends in one of three ways, and the run is over only when every job is   *)
(* settled or cannot start, or the run was stopped.                        *)
(***************************************************************************)
EXTENDS Naturals, FiniteSets

CONSTANTS Job

VARIABLES
    needs,     \* needs[j]: the jobs j waits for
    limit,     \* how many jobs may run together
    status,
    stopping,  \* a failure, or a cancellation, may end the run early
    over

jvars == <<needs, limit, status, stopping, over>>

RunningSet == {j \in Job : status[j] = "running"}
MayStart(j) ==
    /\ ~over /\ status[j] = "waiting"
    /\ \A i \in needs[j] : status[i] = "success"

JobInit ==
    /\ needs \in [Job -> SUBSET Job]
    /\ limit \in Nat \ {0}
    /\ status = [j \in Job |-> "waiting"]
    /\ stopping = FALSE /\ over = FALSE

Become(j, s) ==
    /\ status' = [status EXCEPT ![j] = s]
    /\ UNCHANGED <<needs, limit, over>>

Start(j) ==
    /\ MayStart(j) /\ Cardinality(RunningSet) < limit
    /\ Become(j, "running") /\ UNCHANGED stopping

\* A dry run settles a job without running it, a failed fork fails it.
SettleUnstarted(j) ==
    /\ MayStart(j)
    /\ \E s \in {"success", "failure"} : Become(j, s)
    /\ stopping' \in {stopping, TRUE}

Settle(j) ==
    /\ ~over /\ status[j] = "running"
    /\ \E s \in {"success", "failure"} : Become(j, s)
    /\ stopping' \in {stopping, TRUE}

AskToStop == ~over /\ stopping' = TRUE /\ UNCHANGED <<needs, limit, status, over>>

\* The end of a run nobody stopped.
Finish ==
    /\ ~over /\ RunningSet = {} /\ \A j \in Job : ~MayStart(j)
    /\ over' = TRUE /\ UNCHANGED <<needs, limit, status, stopping>>

\* The end of a run that was: what still ran is abandoned, with no verdict.
Stop ==
    /\ ~over /\ stopping
    /\ status' = [j \in Job |-> IF status[j] = "running" THEN "abandoned"
                                                         ELSE status[j]]
    /\ over' = TRUE /\ UNCHANGED <<needs, limit, stopping>>

JobNext ==
    \/ \E j \in Job : Start(j) \/ SettleUnstarted(j) \/ Settle(j)
    \/ AskToStop \/ Finish \/ Stop

JobSpec == JobInit /\ [][JobNext]_jvars
=============================================================================
