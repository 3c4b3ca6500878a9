------------------------------ MODULE JobGraph ------------------------------
(***************************************************************************)
(* How a build is ordered before its first job starts.  The scheduler      *)
(* sorts the whole graph (src/src/graph/topo.cpp), keeps the commands of   *)
(* the filter as jobs, and derives from the edges which job waits for      *)
(* which (src/src/exec/scheduler.cpp).  To these it adds the ordering a    *)
(* previous build discovered, unless that closes a cycle: then a stalled   *)
(* queue would be taken for a finished build.                              *)
(*                                                                         *)
(* A file or group takes the place of its node id.  Tupfiles, variables    *)
(* and tools, which no command produces, are left out, and so is the order *)
(* in which a node's edges are visited: the sort may take any.             *)
(***************************************************************************)
EXTENDS Naturals, Sequences, SequencesExt, FiniteSets

CONSTANTS
    Command, File, Group,
    Graphs,     \* [data, order]: the edges of either role
    Orderings   \* what a previous build may have discovered: <<producer, consumer>>

Node == Command \cup File \cup Group
Pairs == Command \X Command

ASSUME KindsAssumption ==
    Command \cap File = {} /\ Command \cap Group = {} /\ File \cap Group = {}
ASSUME GraphsAssumption ==
    Graphs \subseteq [data : SUBSET (Node \X Node), order : SUBSET (Node \X Node)]
ASSUME OrderingsAssumption == Orderings \subseteq SUBSET Pairs

VARIABLES
    graph,
    pc,
    color, stack, order, cycle,     \* the depth-first search
    jobs,                           \* the commands to run, in sorted order
    ordering, enforced, applied,    \* the injected pairs, and what became of them
    needs,                          \* needs[j]: the jobs j waits for
    remaining, queue, reached       \* Kahn's sweep

search == <<color, stack, order, cycle>>
plan   == <<jobs, ordering, enforced, applied, needs>>
sweep  == <<remaining, queue, reached>>
vars   == <<graph, pc, search, plan, sweep>>

\* Mutant: order-only edges are not followed.
DataSuccessors(u) == {v \in Node : <<u, v>> \in graph.data}
Successors(u) == {v \in Node : <<u, v>> \in graph.data \cup graph.order}
Jobs == {c \in Command : c \in ToSet(jobs)}

\* The members of S, all of them in s, in the order s has them.
InOrderOf(s, S) ==
    {q \in [1..Cardinality(S) -> S] :
        /\ \A x \in S : \E i \in DOMAIN q : q[i] = x
        /\ \A i, k \in DOMAIN q : i < k =>
              \E a, b \in DOMAIN s : a < b /\ s[a] = q[i] /\ s[b] = q[k]}

TypeOK ==
    /\ graph \in Graphs
    /\ pc \in {"sort", "cyclic", "select", "map", "sweep", "ready"}
    /\ color \in [Node -> {"white", "gray", "black"}]
    /\ \A s \in {stack, order, cycle} : s \in Seq(Node)
    /\ jobs \in Seq(Command) /\ queue \in Seq(Command)
    /\ ordering \in SUBSET Pairs /\ enforced \in SUBSET Pairs
    /\ applied \in BOOLEAN
    /\ needs \in [Command -> SUBSET Command]
    /\ remaining \in [Command -> Nat]
    /\ reached \in 0..Cardinality(Command)

Init ==
    /\ graph \in Graphs
    /\ pc = "sort"
    /\ color = [n \in Node |-> "white"]
    /\ stack = <<>> /\ order = <<>> /\ cycle = <<>>
    /\ jobs = <<>> /\ ordering = {} /\ enforced = {} /\ applied = TRUE
    /\ needs = [c \in Command |-> {}]
    /\ remaining = [c \in Command |-> 0] /\ queue = <<>> /\ reached = 0
-----------------------------------------------------------------------------
(***************************************************************************)
(* topological_sort: depth first, each node put before those already done. *)
(***************************************************************************)
Visit(v) ==
    /\ color[v] = "white"
    /\ color' = [color EXCEPT ![v] = "gray"]
    /\ stack' = Append(stack, v)
    /\ UNCHANGED <<graph, pc, order, cycle, plan, sweep>>

Root(v) == pc = "sort" /\ stack = <<>> /\ Visit(v)

Descend(v) ==
    /\ pc = "sort" /\ stack # <<>>
    /\ v \in Successors(Last(stack))
    /\ Visit(v)

\* A gray neighbour: the parents lead from the node on top back to it.
FindCycle(v) ==
    /\ pc = "sort" /\ stack # <<>>
    /\ v \in Successors(Last(stack)) /\ color[v] = "gray"
    /\ LET first == CHOOSE i \in DOMAIN stack : stack[i] = v
       IN  cycle' = Append(SubSeq(stack, first, Len(stack)), v)
    /\ pc' = "cyclic"
    /\ UNCHANGED <<graph, color, stack, order, plan, sweep>>

Blacken ==
    /\ pc = "sort" /\ stack # <<>>
    /\ \A v \in Successors(Last(stack)) : color[v] = "black"
    /\ color' = [color EXCEPT ![Last(stack)] = "black"]
    /\ order' = Cons(Last(stack), order)
    /\ stack' = Front(stack)
    /\ UNCHANGED <<graph, pc, cycle, plan, sweep>>

Sorted ==
    /\ pc = "sort" /\ stack = <<>>
    /\ \A v \in Node : color[v] = "black"
    /\ pc' = "select"
    /\ UNCHANGED <<graph, search, plan, sweep>>
-----------------------------------------------------------------------------
(***************************************************************************)
(* build: the jobs are the commands of the filter, in sorted order; with   *)
(* none there is nothing to order.                                         *)
(***************************************************************************)
Select(filter, discovered) ==
    /\ pc = "select"
    /\ jobs' \in InOrderOf(order, filter)
    /\ ordering' = discovered
    /\ pc' = IF jobs' = <<>> THEN "ready" ELSE "map"
    /\ UNCHANGED <<graph, search, enforced, applied, needs, sweep>>
-----------------------------------------------------------------------------
(***************************************************************************)
(* build_dependency_map.                                                   *)
(***************************************************************************)
Into(n, edges) == {m \in Node : <<m, n>> \in edges}
Producers(n) == Into(n, graph.data) \cap Jobs
\* Mutant: a group stands for itself.
MembersUnexpanded(n) == {n}
Members(n)   == IF n \in Group THEN Into(n, graph.data) ELSE {n}

Declared(j) ==
    LET inputs  == Into(j, graph.data)
        ordered == UNION {Members(n) : n \in Into(j, graph.order)}
    IN  ((inputs \cap Jobs)
            \cup UNION {Producers(n) : n \in (inputs \ Command) \cup ordered}) \ {j}

Injectable == {e \in ordering : e[1] \in Jobs /\ e[2] \in Jobs /\ e[1] # e[2]}

\* Mutant: all that was discovered is reported as enforced.
MapJobsReportingAll(pairs) ==
    /\ enforced' = ordering
    /\ needs' = [j \in Command |->
            IF j \in Jobs THEN Declared(j) \cup {p \in Jobs : <<p, j>> \in pairs}
                          ELSE {}]
    /\ remaining' = [j \in Command |-> Cardinality(needs'[j])]
    /\ queue' \in InOrderOf(jobs, {j \in Jobs : needs'[j] = {}})
    /\ reached' = 0

\* in_degree, and the sweep's copy of it with the jobs that wait for none.
MapJobs(pairs) ==
    /\ enforced' = pairs
    /\ needs' = [j \in Command |->
            IF j \in Jobs THEN Declared(j) \cup {p \in Jobs : <<p, j>> \in pairs}
                          ELSE {}]
    /\ remaining' = [j \in Command |-> Cardinality(needs'[j])]
    /\ queue' \in InOrderOf(jobs, {j \in Jobs : needs'[j] = {}})
    /\ reached' = 0

\* Mutant: no sweep.
BuildDependencyMapUnswept ==
    /\ pc = "map"
    /\ MapJobs(Injectable)
    /\ pc' = "ready"
    /\ UNCHANGED <<graph, search, jobs, ordering, applied>>

\* Without an ordering there is no sweep: the sort has found the graph acyclic.
BuildDependencyMap ==
    /\ pc = "map"
    /\ MapJobs(Injectable)
    /\ pc' = IF ordering = {} THEN "ready" ELSE "sweep"
    /\ UNCHANGED <<graph, search, jobs, ordering, applied>>
-----------------------------------------------------------------------------
(***************************************************************************)
(* has_cycle, and the retraction of the whole injected ordering.           *)
(***************************************************************************)
SweepOne ==
    /\ pc = "sweep" /\ queue # <<>>
    /\ LET i == Head(queue)
           released == {j \in Jobs : i \in needs[j] /\ remaining[j] = 1}
       IN  /\ remaining' = [j \in Command |->
                  IF i \in needs[j] THEN remaining[j] - 1 ELSE remaining[j]]
           /\ \E more \in InOrderOf(jobs, released) : queue' = Tail(queue) \o more
    /\ reached' = reached + 1
    /\ UNCHANGED <<graph, pc, search, plan>>

\* Mutant: the sweep is held against all commands, not the jobs.
MissesCommands == reached < Cardinality(Command)
HasCycle == reached < Len(jobs)

Accept ==
    /\ pc = "sweep" /\ queue = <<>> /\ ~HasCycle
    /\ pc' = "ready"
    /\ UNCHANGED <<graph, search, plan, sweep>>

Retract ==
    /\ pc = "sweep" /\ queue = <<>> /\ HasCycle
    /\ MapJobs({})
    /\ applied' = FALSE
    /\ pc' = "ready"
    /\ UNCHANGED <<graph, search, jobs, ordering>>
-----------------------------------------------------------------------------
Next ==
    \/ \E v \in Node : Root(v) \/ Descend(v) \/ FindCycle(v)
    \/ Blacken \/ Sorted
    \/ \E filter \in SUBSET Command, o \in Orderings : Select(filter, o)
    \/ BuildDependencyMap \/ SweepOne \/ Accept \/ Retract

Spec == Init /\ [][Next]_vars
=============================================================================
