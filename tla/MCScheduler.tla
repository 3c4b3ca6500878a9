---------------------------- MODULE MCScheduler ----------------------------
(* Instances of SchedulerProperties for TLC. *)
EXTENDS SchedulerProperties

Edges(E) == [i \in Job |-> {j \in Job : <<i, j>> \in E}]

\* A fork, a join, a chain, and a job that waits for a later one beside a
\* third that waits for none.
Fork == Edges({<<1, 2>>, <<1, 3>>})
Beside == Edges({<<3, 1>>})
MCMaps == {Fork, Edges({<<1, 3>>, <<2, 3>>}), Edges({<<1, 2>>, <<2, 3>>}), Beside}

MCOptions == [jobs : {1, 2}, keep_going : BOOLEAN, dry_run : {FALSE},
              timeout : {FALSE}] \cup
             [jobs : {1, 3}, keep_going : BOOLEAN, dry_run : {TRUE},
              timeout : {FALSE}] \cup
             [jobs : {2}, keep_going : {FALSE}, dry_run : {FALSE},
              timeout : {TRUE}]

\* The timeout over the fork alone, which keeps two slots busy; keep_going where
\* a job stands beside those that wait for a failed one.
MCInit ==
    /\ Init
    /\ options.timeout => dependents = Fork
    /\ dependents = Fork => ~options.keep_going
    /\ dependents = Beside => options.keep_going

MCSpec == MCInit /\ [][Next]_vars /\ LoopFair /\ CommandsEnd /\ PipesHangUp
          /\ ClockAdvances
=============================================================================
