------------------------- MODULE JobGraphProperties -------------------------
(***************************************************************************)
(* What makes the order of a build right: the sort, the map of waiting     *)
(* jobs and the sweep agree with what "cycle" means.                       *)
(***************************************************************************)
EXTENDS JobGraph

\* No set of nodes in which every node has a predecessor.
Acyclic(S, edges) ==
    \A T \in (SUBSET S) \ {{}} : \E n \in T : \A m \in T : <<m, n>> \notin edges

Edges == graph.data \cup graph.order
Position(n) == CHOOSE i \in DOMAIN order : order[i] = n

(***************************************************************************)
(* The sort gives up exactly on the graphs that have a cycle, what it      *)
(* reports is one, and otherwise its order puts each node, once, after all *)
(* it depends on (topological_sort).                                       *)
(***************************************************************************)
SortIsRight ==
    /\ pc = "cyclic" =>
        /\ ~Acyclic(Node, Edges)
        /\ Len(cycle) > 1 /\ cycle[1] = Last(cycle)
        /\ \A i \in 1..(Len(cycle) - 1) : <<cycle[i], cycle[i + 1]>> \in Edges
    /\ pc \notin {"sort", "cyclic"} =>
        /\ Len(order) = Cardinality(Node) /\ ToSet(order) = Node
        /\ \A e \in Edges : Position(e[1]) < Position(e[2])

Waits == {e \in Jobs \X Jobs : e[1] \in needs[e[2]]}

(***************************************************************************)
(* No job waits, through others, for itself: a build that starts comes to  *)
(* the end of its queue having run every job, since what stalls there is   *)
(* reported as success (scheduler.cpp:387).                                *)
(***************************************************************************)
NeverStalls == pc = "ready" => Acyclic(Jobs, Waits)

(***************************************************************************)
(* The injected ordering is given up only if it contradicts the rules, and *)
(* then all of it; otherwise every pair between two jobs is enforced.      *)
(***************************************************************************)
RetractedOnlyOnContradiction ==
    pc = "ready" /\ jobs # <<>> =>
        IF applied THEN enforced = Injectable
        ELSE enforced = {} /\ ~Acyclic(Jobs, Waits \cup Injectable)

(***************************************************************************)
(* What is reported as enforced was enforced: the record takes such a pair *)
(* as evidence that its consumer ran after its producer                    *)
(* (scheduler.cpp:295).                                                    *)
(***************************************************************************)
EnforcedIsWaitedFor == pc \in {"sweep", "ready"} => enforced \subseteq Waits

(***************************************************************************)
(* A job that reads, or is ordered after, a file that another job of this  *)
(* build writes waits for that job, be it by way of a group, and whatever  *)
(* became of the injected ordering.                                        *)
(***************************************************************************)
WritersComeFirst ==
    pc = "ready" =>
        \A p, j \in Jobs, f \in File :
            /\ p # j /\ <<p, f>> \in graph.data
            /\ \/ <<f, j>> \in Edges
               \/ \E g \in Group : <<f, g>> \in graph.data /\ <<g, j>> \in graph.order
            => p \in needs[j]
=============================================================================
