--------------------------- MODULE JobGraphProofs ---------------------------
(***************************************************************************)
(* The sort, the map of waiting jobs and the sweep that accepts it, proved *)
(* for every graph, filter and injected ordering.                          *)
(***************************************************************************)
EXTENDS JobGraphProperties, Walks, FiniteSetTheorems, WellFoundedInduction, TLAPS

(***************************************************************************)
(* The inductive invariant: from the moment it is built, the map has the   *)
(* declared producers and the enforced pairs, and nothing but jobs.        *)
(***************************************************************************)
MapInv ==
    /\ ordering \in SUBSET Pairs
    /\ pc \in {"sort", "cyclic", "select", "map"} => enforced = {}
    /\ pc = "ready" \/ pc = "sweep" =>
        /\ enforced \subseteq Jobs \X Jobs
        /\ \A e \in enforced : e[1] \in needs[e[2]]
        /\ \A j \in Jobs : Declared(j) \subseteq needs[j]

\* What build_dependency_map returns, whatever pairs it is given.
LEMMA MapIsRight ==
    ASSUME NEW pairs, pairs \subseteq Jobs \X Jobs,
           MapJobs(pairs), UNCHANGED <<graph, jobs>>
    PROVE  /\ enforced' \subseteq Jobs' \X Jobs'
           /\ \A e \in enforced' : e[1] \in needs'[e[2]]
           /\ \A j \in Jobs' : Declared(j)' \subseteq needs'[j]
<1>1. Jobs' = Jobs BY DEF Jobs
<1>2. \A j \in Jobs : Declared(j)' = Declared(j)
    BY <1>1 DEF Declared, Into, Members, Producers
<1>3. \A j \in Jobs : needs'[j] = Declared(j) \cup {p \in Jobs : <<p, j>> \in pairs}
    BY DEF MapJobs, Jobs
<1>4. enforced' = pairs BY DEF MapJobs
<1>5. \A e \in pairs : e[1] \in needs'[e[2]] BY <1>3
<1>6. QED BY <1>1, <1>2, <1>3, <1>4, <1>5

\* The sort, and the sweep up to its verdict, leave the map alone.
LEMMA MapStands ==
    ASSUME MapInv,
           UNCHANGED <<graph, plan>>,
           (pc' = "ready" \/ pc' = "sweep") <=> (pc = "ready" \/ pc = "sweep"),
           pc \in {"sort", "select", "sweep"} \/ pc' = pc
    PROVE  MapInv'
<1>1. Jobs' = Jobs BY DEF Jobs, plan
<1>2. \A j \in Jobs : Declared(j)' = Declared(j)
    BY <1>1 DEF Declared, Into, Members, Producers
<1>3. enforced' = enforced /\ needs' = needs /\ ordering' = ordering BY DEF plan
<1>4. QED BY <1>1, <1>2, <1>3 DEF MapInv

(***************************************************************************)
(* MapInv is an invariant.                                                 *)
(***************************************************************************)
THEOREM MapInvariance == Spec => []MapInv
<1>1. Init => MapInv BY DEF Init, MapInv, Pairs
<1>2. MapInv /\ [Next]_vars => MapInv'
    <2> SUFFICES ASSUME MapInv, [Next]_vars PROVE MapInv' OBVIOUS
    <2>1. CASE \E v \in Node : Root(v) \/ Descend(v) \/ FindCycle(v)
        BY <2>1, MapStands DEF Root, Descend, FindCycle, Visit
    <2>2. CASE Blacken \/ Sorted \/ SweepOne \/ Accept \/ UNCHANGED vars
        BY <2>2, MapStands DEF Blacken, Sorted, SweepOne, Accept, vars
    <2>3. CASE \E filter \in SUBSET Command, o \in Orderings : Select(filter, o)
        <3>1. /\ pc = "select" /\ pc' = IF jobs' = <<>> THEN "ready" ELSE "map"
              /\ enforced' = enforced /\ ordering' \in SUBSET Pairs
            BY <2>3, OrderingsAssumption DEF Select
        <3>2. enforced' = {} BY <3>1 DEF MapInv
        <3>3. pc' = "ready" => Jobs' = {} BY <3>1 DEF Jobs, ToSet
        <3>4. QED BY <3>1, <3>2, <3>3 DEF MapInv
    <2>4. CASE BuildDependencyMap
        <3>1. /\ MapJobs(Injectable) /\ UNCHANGED <<graph, jobs>>
              /\ pc' \in {"ready", "sweep"} /\ ordering' = ordering
            BY <2>4 DEF BuildDependencyMap
        <3>2. Injectable \subseteq Jobs \X Jobs
            <4>1. ordering \in SUBSET Pairs BY DEF MapInv
            <4>2. QED BY <4>1 DEF Injectable, Pairs
        <3>3. QED BY <3>1, <3>2, MapIsRight DEF MapInv
    <2>5. CASE Retract
        <3>1. MapJobs({}) /\ UNCHANGED <<graph, jobs, ordering>> /\ pc' = "ready"
            BY <2>5 DEF Retract
        <3>2. QED BY <3>1, MapIsRight DEF MapInv
    <2>6. QED BY <2>1, <2>2, <2>3, <2>4, <2>5 DEF Next
<1>3. QED BY <1>1, <1>2, PTL DEF Spec

(***************************************************************************)
(* A pair reported as enforced made its consumer wait for its producer.    *)
(***************************************************************************)
THEOREM EnforcedIsTrue == Spec => []EnforcedIsWaitedFor
<1>1. MapInv => EnforcedIsWaitedFor
    BY DEF MapInv, EnforcedIsWaitedFor, Waits
<1>2. QED BY <1>1, MapInvariance, PTL

(***************************************************************************)
(* A job waits for whichever job writes what it reads or is ordered after. *)
(***************************************************************************)
THEOREM WritersFirst == Spec => []WritersComeFirst
<1>1. MapInv => WritersComeFirst
    <2> SUFFICES ASSUME MapInv, pc = "ready",
                        NEW p \in Jobs, NEW j \in Jobs, NEW f \in File,
                        p # j, <<p, f>> \in graph.data,
                        \/ <<f, j>> \in Edges
                        \/ \E g \in Group : /\ <<f, g>> \in graph.data
                                            /\ <<g, j>> \in graph.order
                 PROVE  p \in needs[j]
        BY DEF WritersComeFirst
    <2>1. p \in Producers(f) /\ f \in Node
        BY DEF Producers, Into, Node, Jobs
    <2>2. f \notin Command /\ f \notin Group BY KindsAssumption
    <2>3. CASE <<f, j>> \in graph.data
        <3>1. f \in Into(j, graph.data) \ Command BY <2>1, <2>2, <2>3 DEF Into
        <3>2. p \in Declared(j) BY <3>1, <2>1 DEF Declared
        <3>3. QED BY <3>2 DEF MapInv
    <2>4. ASSUME NEW n \in Node, <<n, j>> \in graph.order, f \in Members(n)
          PROVE  p \in needs[j]
        <3>1. f \in UNION {Members(m) : m \in Into(j, graph.order)}
            BY <2>4 DEF Into
        <3>2. p \in Declared(j) BY <3>1, <2>1 DEF Declared
        <3>3. QED BY <3>2 DEF MapInv
    <2>5. CASE <<f, j>> \in graph.order
        BY <2>1, <2>2, <2>4, <2>5 DEF Members
    <2>6. ASSUME NEW g \in Group, <<f, g>> \in graph.data, <<g, j>> \in graph.order
          PROVE  p \in needs[j]
        BY <2>1, <2>4, <2>6 DEF Members, Into, Node
    <2>7. QED BY <2>3, <2>5, <2>6 DEF Edges
<1>2. QED BY <1>1, MapInvariance, PTL
-----------------------------------------------------------------------------
(***************************************************************************)
(* The depth-first search.                                                 *)
(***************************************************************************)
\* A nonempty set of naturals has a least element.
LEMMA LeastOf ==
    ASSUME NEW T \in SUBSET Nat, T # {}
    PROVE  \E n \in T : \A m \in T : n <= m
<1>1. PICK n \in T : \A m \in T : ~(<<m, n>> \in OpToRel(<, Nat))
    BY NatLessThanWellFounded, WFMin
<1>2. \A m \in T : m \in Nat /\ n \in Nat /\ (m < n => <<m, n>> \in OpToRel(<, Nat))
    BY Zenon DEF OpToRel
<1>3. \A m \in T : ~(m < n) BY <1>1, <1>2, Zenon
<1>4. QED BY <1>3

\* Edges that lead from lower to higher ranks close no cycle.
LEMMA RankedIsAcyclic ==
    ASSUME NEW S, NEW edges, NEW rank \in [S -> Nat],
           \A m, n \in S : <<m, n>> \in edges => rank[m] < rank[n]
    PROVE  Acyclic(S, edges)
<1> SUFFICES ASSUME NEW T \in SUBSET S, T # {}
             PROVE  \E n \in T : \A m \in T : <<m, n>> \notin edges
    BY DEF Acyclic
<1> DEFINE ranks == {rank[x] : x \in T}
<1>1. PICK least \in ranks : \A r \in ranks : least <= r
    <2>1. ranks \in SUBSET Nat /\ ranks # {} OBVIOUS
    <2>2. QED BY <2>1, LeastOf
<1>2. PICK n \in T : rank[n] = least BY <1>1
<1>3. ASSUME NEW m \in T, <<m, n>> \in edges PROVE FALSE
    <2>1. rank[m] < rank[n] /\ least <= rank[m] /\ rank[m] \in Nat /\ rank[n] \in Nat
        BY <1>1, <1>3
    <2>2. QED BY <2>1, <1>2
<1>4. QED BY <1>3

NoRepeat(q) == \A i, k \in DOMAIN q : q[i] = q[k] => i = k
Holds(q, x) == \E i \in DOMAIN q : q[i] = x
Path(q)     == \A i \in DOMAIN q : i + 1 \in DOMAIN q => <<q[i], q[i + 1]>> \in Edges

\* A path that comes back to where it began is a cycle.
LEMMA ClosedPathIsCyclic ==
    ASSUME NEW c \in Seq(Node), Len(c) > 1, c[1] = c[Len(c)], Path(c)
    PROVE  ~Acyclic(Node, Edges)
<1> DEFINE T == {n \in Node : Holds(c, n)}
<1>1. Len(c) \in Nat /\ DOMAIN c = 1..Len(c) /\ \A i \in DOMAIN c : c[i] \in Node
    OBVIOUS
<1>2. T \in (SUBSET Node) \ {{}}
    <2>1. c[1] \in T BY <1>1 DEF Holds
    <2>2. QED BY <2>1
<1>3. ASSUME NEW n \in T PROVE \E m \in T : <<m, n>> \in Edges
    <2>1. PICK i \in DOMAIN c : i > 1 /\ c[i] = n
        <3>1. PICK k \in DOMAIN c : c[k] = n BY <1>3 DEF Holds
        <3>2. CASE k > 1 BY <3>1, <3>2
        <3>3. CASE k = 1 BY <3>1, <3>3, <1>1
        <3>4. QED BY <3>2, <3>3, <1>1
    <2>2. i - 1 \in DOMAIN c /\ (i - 1) + 1 = i BY <2>1, <1>1
    <2>3. <<c[i - 1], n>> \in Edges BY <2>1, <2>2 DEF Path
    <2>4. c[i - 1] \in T BY <2>2, <1>1 DEF Holds
    <2>5. QED BY <2>3, <2>4
<1>4. QED BY <1>2, <1>3 DEF Acyclic

\* What the sequence operators of the search do.
LEMMA ConsFacts ==
    ASSUME NEW S, NEW q \in Seq(S), NEW x \in S
    PROVE  /\ Cons(x, q) \in Seq(S) /\ DOMAIN Cons(x, q) = 1..(Len(q) + 1)
           /\ Cons(x, q)[1] = x
           /\ \A i \in DOMAIN q : i + 1 \in DOMAIN Cons(x, q) /\ Cons(x, q)[i + 1] = q[i]
           /\ \A i \in DOMAIN Cons(x, q) :
                i = 1 \/ (i - 1 \in DOMAIN q /\ Cons(x, q)[i] = q[i - 1])
<1>1. /\ Cons(x, q) \in Seq(S) /\ Len(Cons(x, q)) = Len(q) + 1
      /\ Cons(x, q)[1] = x /\ \A i \in 1..Len(q) : Cons(x, q)[i + 1] = q[i]
    BY DEF Cons
<1>2. Len(q) \in Nat /\ DOMAIN q = 1..Len(q) /\ DOMAIN Cons(x, q) = 1..(Len(q) + 1)
    BY <1>1
<1>3. \A i \in DOMAIN Cons(x, q) :
        i = 1 \/ (i - 1 \in DOMAIN q /\ Cons(x, q)[i] = q[i - 1])
    <2>1. TAKE i \in DOMAIN Cons(x, q)
    <2>2. CASE i # 1
        <3>1. i - 1 \in 1..Len(q) /\ (i - 1) + 1 = i BY <2>2, <1>2
        <3>2. QED BY <3>1, <1>1, <1>2
    <2>3. QED BY <2>2
<1>4. \A i \in DOMAIN q : i + 1 \in DOMAIN Cons(x, q) /\ Cons(x, q)[i + 1] = q[i]
    BY <1>1, <1>2
<1>5. QED BY <1>1, <1>2, <1>3, <1>4

LEMMA FrontFacts ==
    ASSUME NEW S, NEW q \in Seq(S), q # <<>>
    PROVE  /\ Front(q) \in Seq(S) /\ Last(q) \in S /\ Len(q) \in DOMAIN q
           /\ Last(q) = q[Len(q)] /\ DOMAIN Front(q) = 1..(Len(q) - 1)
           /\ \A i \in DOMAIN Front(q) : i \in DOMAIN q /\ i # Len(q) /\ Front(q)[i] = q[i]
<1>1. Len(q) \in Nat \ {0} /\ DOMAIN q = 1..Len(q) OBVIOUS
<1>2. Last(q) \in S /\ Last(q) = q[Len(q)] BY <1>1 DEF Last
<1>3. Front(q) \in Seq(S) BY <1>1 DEF Front
<1>4. Len(Front(q)) = Len(q) - 1 BY <1>1 DEF Front
<1>5. \A i \in 1..(Len(q) - 1) : Front(q)[i] = q[i] BY <1>1 DEF Front
<1>6. DOMAIN Front(q) = 1..(Len(q) - 1) BY <1>3, <1>4
<1>7. QED BY <1>1, <1>2, <1>3, <1>5, <1>6

(***************************************************************************)
(* The inductive invariant of the search.  The gray nodes are the path the *)
(* search stands on; the black ones are listed, each after all it depends  *)
(* on; a cycle is reported only if it is one, and the search is over only  *)
(* when no node is left.                                                   *)
(***************************************************************************)
SearchTypes ==
    /\ graph \in Graphs
    /\ color \in [Node -> {"white", "gray", "black"}]
    /\ stack \in Seq(Node) /\ order \in Seq(Node) /\ cycle \in Seq(Node)

StackInv ==
    /\ NoRepeat(stack) /\ Path(stack)
    /\ \A n \in Node : color[n] = "gray" <=> Holds(stack, n)

OrderInv ==
    /\ NoRepeat(order)
    /\ \A n \in Node : color[n] = "black" <=> Holds(order, n)
    /\ \A i \in DOMAIN order : \A v \in Successors(order[i]) :
            \E k \in DOMAIN order : i < k /\ order[k] = v

VerdictInv ==
    /\ pc = "cyclic" => Len(cycle) > 1 /\ cycle[1] = cycle[Len(cycle)] /\ Path(cycle)
    /\ pc \notin {"sort", "cyclic"} => \A n \in Node : color[n] = "black"

SearchInv == SearchTypes /\ StackInv /\ OrderInv /\ VerdictInv

LEMMA SuccessorsAre ==
    ASSUME NEW u, NEW v \in Node
    PROVE  v \in Successors(u) <=> <<u, v>> \in Edges
BY DEF Successors, Edges

\* Reaching a white node: from nowhere, or along an edge from the top.
LEMMA VisitKeeps ==
    ASSUME SearchInv, pc = "sort", NEW v \in Node, Visit(v),
           stack = <<>> \/ v \in Successors(Last(stack))
    PROVE  SearchInv'
<1>1. /\ color[v] = "white" /\ color' = [color EXCEPT ![v] = "gray"]
      /\ stack' = Append(stack, v) /\ UNCHANGED <<graph, pc, order, cycle>>
    BY DEF Visit
<1>2. /\ stack \in Seq(Node) /\ color \in [Node -> {"white", "gray", "black"}]
      /\ Len(stack) \in Nat /\ DOMAIN stack = 1..Len(stack)
    BY DEF SearchInv, SearchTypes
<1>3. /\ stack' \in Seq(Node) /\ DOMAIN stack' = 1..(Len(stack) + 1)
      /\ stack'[Len(stack) + 1] = v /\ \A i \in DOMAIN stack : stack'[i] = stack[i]
    BY <1>1, <1>2
<1>4. SearchTypes' BY <1>1, <1>2, <1>3 DEF SearchInv, SearchTypes
<1>5. ~Holds(stack, v) BY <1>1 DEF SearchInv, StackInv
<1>6. NoRepeat(stack')
    <2> SUFFICES ASSUME NEW i \in 1..(Len(stack) + 1), NEW k \in 1..(Len(stack) + 1),
                        stack'[i] = stack'[k]
                 PROVE  i = k
        BY <1>3 DEF NoRepeat
    <2>1. CASE i \in DOMAIN stack /\ k \in DOMAIN stack
        BY <2>1, <1>3 DEF SearchInv, StackInv, NoRepeat
    <2>2. CASE i \notin DOMAIN stack /\ k \notin DOMAIN stack BY <2>2, <1>2
    <2>3. CASE i \in DOMAIN stack /\ k \notin DOMAIN stack
        <3>1. k = Len(stack) + 1 BY <2>3, <1>2
        <3>2. stack[i] = v BY <3>1, <2>3, <1>3
        <3>3. QED BY <3>2, <2>3, <1>5 DEF Holds
    <2>4. CASE i \notin DOMAIN stack /\ k \in DOMAIN stack
        <3>1. i = Len(stack) + 1 BY <2>4, <1>2
        <3>2. stack[k] = v BY <3>1, <2>4, <1>3
        <3>3. QED BY <3>2, <2>4, <1>5 DEF Holds
    <2>5. QED BY <2>1, <2>2, <2>3, <2>4
<1>7. Path(stack')
    <2>1. Edges' = Edges BY <1>1 DEF Edges
    <2>2. ASSUME NEW i \in 1..(Len(stack) + 1), i + 1 \in 1..(Len(stack) + 1)
          PROVE  <<stack'[i], stack'[i + 1]>> \in Edges
        <3>1. i \in DOMAIN stack /\ stack'[i] = stack[i] BY <2>2, <1>2, <1>3
        <3>2. CASE i + 1 \in DOMAIN stack
            BY <3>1, <3>2, <1>3 DEF SearchInv, StackInv, Path
        <3>3. CASE i + 1 \notin DOMAIN stack
            <4>1. i + 1 = Len(stack) + 1 BY <3>3, <2>2, <1>2
            <4>2. stack'[i + 1] = v /\ stack[i] = Last(stack)
                BY <4>1, <3>1, <1>2, <1>3 DEF Last
            <4>3. stack # <<>> BY <3>1
            <4>4. QED BY <4>2, <4>3, <3>1, SuccessorsAre
        <3>4. QED BY <3>2, <3>3
    <2>3. QED BY <2>1, <2>2, <1>3 DEF Path
<1>8. \A y : Holds(stack', y) <=> y = v \/ Holds(stack, y)
    <2>1. TAKE y
    <2>2. ASSUME Holds(stack', y) PROVE y = v \/ Holds(stack, y)
        <3>1. PICK i \in 1..(Len(stack) + 1) : stack'[i] = y BY <2>2, <1>3 DEF Holds
        <3>2. i \in DOMAIN stack \/ i = Len(stack) + 1 BY <3>1, <1>2
        <3>3. QED BY <3>1, <3>2, <1>3 DEF Holds
    <2>3. ASSUME y = v \/ Holds(stack, y) PROVE Holds(stack', y)
        <3>1. Len(stack) + 1 \in DOMAIN stack' /\ DOMAIN stack \subseteq DOMAIN stack'
            BY <1>2, <1>3
        <3>2. QED BY <2>3, <3>1, <1>3 DEF Holds
    <2>4. QED BY <2>2, <2>3
<1>9. StackInv'
    <2>1. \A n \in Node : color'[n] = "gray" <=> Holds(stack', n)
        BY <1>1, <1>2, <1>8 DEF SearchInv, StackInv
    <2>2. Edges' = Edges BY <1>1 DEF Edges
    <2>3. QED BY <2>1, <2>2, <1>6, <1>7 DEF StackInv, NoRepeat, Path, Holds
<1>10. OrderInv'
    <2>1. \A n \in Node : color'[n] = "black" <=> color[n] = "black" BY <1>1, <1>2
    <2>2. \A i \in DOMAIN order : Successors(order[i])' = Successors(order[i])
        BY <1>1 DEF Successors
    <2>3. QED BY <2>1, <2>2, <1>1 DEF SearchInv, OrderInv, NoRepeat, Holds
<1>11. VerdictInv' BY <1>1 DEF VerdictInv
<1>12. QED BY <1>4, <1>9, <1>10, <1>11 DEF SearchInv

\* A gray neighbour closes the path it stands on.
LEMMA FindCycleKeeps ==
    ASSUME SearchInv, NEW v \in Node, FindCycle(v)
    PROVE  SearchInv'
<1> DEFINE first == CHOOSE i \in DOMAIN stack : stack[i] = v
           part == SubSeq(stack, first, Len(stack))
           n == Len(stack) - first + 1
<1>1. /\ stack # <<>> /\ v \in Successors(Last(stack)) /\ color[v] = "gray"
      /\ cycle' = Append(part, v) /\ pc' = "cyclic"
      /\ UNCHANGED <<graph, color, stack, order>>
    BY DEF FindCycle
<1>2. /\ stack \in Seq(Node) /\ Len(stack) \in Nat /\ DOMAIN stack = 1..Len(stack)
      /\ Holds(stack, v)
    BY <1>1 DEF SearchInv, SearchTypes, StackInv
<1>3. first \in 1..Len(stack) /\ stack[first] = v BY <1>2 DEF Holds
<1> HIDE DEF first
<1>4. /\ part \in Seq(Node) /\ Len(part) = n
      /\ \A i \in 1..n : part[i] = stack[first + i - 1]
    BY <1>2, <1>3
<1>5. n \in Nat \ {0} BY <1>2, <1>3
<1> HIDE DEF part
<1>6. /\ cycle' \in Seq(Node) /\ Len(cycle') = n + 1 /\ cycle'[n + 1] = v
      /\ \A i \in 1..n : cycle'[i] = stack[first + i - 1]
    BY <1>1, <1>4, <1>5
<1>7. Edges' = Edges BY <1>1 DEF Edges
<1>8. ASSUME NEW i \in 1..n PROVE <<cycle'[i], cycle'[i + 1]>> \in Edges
    <2>1. first + i - 1 \in DOMAIN stack BY <1>2, <1>3
    <2>2. CASE i < n
        <3>1. i + 1 \in 1..n /\ first + (i + 1) - 1 = (first + i - 1) + 1
            BY <2>2, <1>3, <1>5
        <3>2. (first + i - 1) + 1 \in DOMAIN stack BY <2>2, <1>2, <1>3
        <3>3. <<stack[first + i - 1], stack[(first + i - 1) + 1]>> \in Edges
            BY <2>1, <3>2 DEF SearchInv, StackInv, Path
        <3>4. QED BY <3>1, <3>3, <1>6
    <2>3. CASE i = n
        <3>1. first + i - 1 = Len(stack) BY <2>3, <1>2, <1>3
        <3>2. cycle'[i] = Last(stack) BY <3>1, <1>6 DEF Last
        <3>3. QED BY <2>3, <3>2, <1>1, <1>6, SuccessorsAre
    <2>4. QED BY <2>2, <2>3, <1>5
<1>9. Path(cycle')
    <2>1. DOMAIN cycle' = 1..(n + 1) BY <1>5, <1>6
    <2>2. \A i \in DOMAIN cycle' : i + 1 \in DOMAIN cycle' => i \in 1..n BY <2>1, <1>5
    <2>3. QED BY <2>2, <1>7, <1>8 DEF Path
<1>10. cycle'[1] = v
    <2>1. first + 1 - 1 = first /\ 1 \in 1..n BY <1>3, <1>5
    <2>2. QED BY <2>1, <1>3, <1>6
<1>11. VerdictInv'
    <2>1. Len(cycle') > 1 /\ cycle'[1] = cycle'[Len(cycle')] BY <1>5, <1>6, <1>10
    <2>2. QED BY <2>1, <1>1, <1>7, <1>9 DEF VerdictInv, Path
<1>12. SearchTypes' BY <1>1, <1>6 DEF SearchInv, SearchTypes
<1>13. StackInv' BY <1>1, <1>7 DEF SearchInv, StackInv, NoRepeat, Path, Holds
<1>14. OrderInv'
    <2>1. \A i \in DOMAIN order : Successors(order[i])' = Successors(order[i])
        BY <1>1 DEF Successors
    <2>2. QED BY <2>1, <1>1 DEF SearchInv, OrderInv, NoRepeat, Holds
<1>15. QED BY <1>11, <1>12, <1>13, <1>14 DEF SearchInv

\* A node whose successors are all black is listed before them.
LEMMA BlackenKeeps ==
    ASSUME SearchInv, Blacken
    PROVE  SearchInv'
<1>0. PICK u \in Node : u = Last(stack)
    BY FrontFacts DEF Blacken, SearchInv, SearchTypes
<1>1. /\ pc = "sort" /\ stack # <<>> /\ \A v \in Successors(u) : color[v] = "black"
      /\ color' = [color EXCEPT ![u] = "black"] /\ order' = Cons(u, order)
      /\ stack' = Front(stack) /\ UNCHANGED <<graph, pc, cycle>>
    BY <1>0 DEF Blacken
<1>2. /\ stack \in Seq(Node) /\ order \in Seq(Node) /\ DOMAIN stack = 1..Len(stack)
      /\ color \in [Node -> {"white", "gray", "black"}]
      /\ Len(stack) \in Nat
    BY DEF SearchInv, SearchTypes
<1>3. /\ stack' \in Seq(Node) /\ Len(stack) \in DOMAIN stack /\ stack[Len(stack)] = u
      /\ DOMAIN stack' = 1..(Len(stack) - 1)
      /\ \A i \in DOMAIN stack' : i \in DOMAIN stack /\ i # Len(stack) /\ stack'[i] = stack[i]
    BY <1>0, <1>1, <1>2, FrontFacts
<1>4. /\ order' \in Seq(Node) /\ order'[1] = u
      /\ \A i \in DOMAIN order : i + 1 \in DOMAIN order' /\ order'[i + 1] = order[i]
      /\ \A i \in DOMAIN order' :
            i = 1 \/ (i - 1 \in DOMAIN order /\ order'[i] = order[i - 1])
      /\ \A y : Holds(order', y) <=> y = u \/ Holds(order, y)
    <2>1. /\ order' \in Seq(Node) /\ order'[1] = u /\ 1 \in DOMAIN order'
          /\ \A i \in DOMAIN order : i + 1 \in DOMAIN order' /\ order'[i + 1] = order[i]
          /\ \A i \in DOMAIN order' :
                i = 1 \/ (i - 1 \in DOMAIN order /\ order'[i] = order[i - 1])
        <3>1. /\ Cons(u, order) \in Seq(Node) /\ Cons(u, order)[1] = u
              /\ 1 \in DOMAIN Cons(u, order)
            <4>1. Cons(u, order) \in Seq(Node) /\ Cons(u, order)[1] = u
                BY <1>2, ConsFacts
            <4>2. DOMAIN Cons(u, order) = 1..(Len(order) + 1) /\ Len(order) \in Nat
                BY <1>2, ConsFacts
            <4>3. QED BY <4>1, <4>2
        <3>2. \A i \in DOMAIN order :
                i + 1 \in DOMAIN Cons(u, order) /\ Cons(u, order)[i + 1] = order[i]
            BY <1>2, ConsFacts
        <3>3. \A i \in DOMAIN Cons(u, order) :
                i = 1 \/ (i - 1 \in DOMAIN order /\ Cons(u, order)[i] = order[i - 1])
            BY <1>2, ConsFacts
        <3>4. QED BY <1>1, <3>1, <3>2, <3>3, Zenon
    <2>2. ASSUME NEW y, Holds(order', y) PROVE y = u \/ Holds(order, y)
        BY <2>1, <2>2 DEF Holds
    <2>3. ASSUME NEW y, y = u \/ Holds(order, y) PROVE Holds(order', y)
        BY <2>1, <2>3 DEF Holds
    <2>4. QED BY <2>1, <2>2, <2>3
<1>5. color[u] = "gray" BY <1>3 DEF SearchInv, StackInv, Holds
<1>6. ~Holds(order, u) BY <1>5 DEF SearchInv, OrderInv
<1>7. SearchTypes' BY <1>1, <1>2, <1>3, <1>4 DEF SearchInv, SearchTypes
<1>8. \A y \in Node : Holds(stack', y) <=> Holds(stack, y) /\ y # u
    <2>1. TAKE y \in Node
    <2>2. ASSUME Holds(stack', y) PROVE Holds(stack, y) /\ y # u
        <3>1. PICK i \in DOMAIN stack' : stack'[i] = y BY <2>2 DEF Holds
        <3>2. i \in DOMAIN stack /\ i # Len(stack) /\ stack[i] = y BY <3>1, <1>3
        <3>3. QED BY <3>2, <1>3 DEF Holds, SearchInv, StackInv, NoRepeat
    <2>3. ASSUME Holds(stack, y), y # u PROVE Holds(stack', y)
        <3>1. PICK i \in DOMAIN stack : stack[i] = y BY <2>3 DEF Holds
        <3>2. i # Len(stack) BY <3>1, <2>3, <1>3
        <3>3. i \in DOMAIN stack' BY <3>1, <3>2, <1>2, <1>3
        <3>4. QED BY <3>1, <3>3, <1>3 DEF Holds
    <2>4. QED BY <2>2, <2>3
<1>9. StackInv'
    <2>1. NoRepeat(stack') BY <1>3 DEF SearchInv, StackInv, NoRepeat
    <2>2. \A n \in Node : color'[n] = "gray" <=> Holds(stack', n)
        BY <1>1, <1>2, <1>5, <1>8 DEF SearchInv, StackInv
    <2>3. \A i \in DOMAIN stack' : i + 1 \in DOMAIN stack' =>
                <<stack'[i], stack'[i + 1]>> \in Edges
        BY <1>3 DEF SearchInv, StackInv, Path
    <2>4. Edges' = Edges BY <1>1 DEF Edges
    <2>5. QED BY <2>1, <2>2, <2>3, <2>4 DEF StackInv, NoRepeat, Path, Holds
<1>10. OrderInv'
    <2>1. NoRepeat(order')
        <3> SUFFICES ASSUME NEW i \in DOMAIN order', NEW k \in DOMAIN order',
                            order'[i] = order'[k]
                     PROVE  i = k
            BY DEF NoRepeat
        <3>1. CASE i # 1 /\ k # 1
            <4>1. /\ i - 1 \in DOMAIN order /\ k - 1 \in DOMAIN order
                  /\ order[i - 1] = order[k - 1]
                BY <3>1, <1>4
            <4>2. i - 1 = k - 1 BY <4>1 DEF SearchInv, OrderInv, NoRepeat
            <4>3. i \in Nat /\ k \in Nat BY <1>4
            <4>4. QED BY <4>2, <4>3
        <3>2. CASE i = 1 /\ k # 1 BY <3>2, <1>4, <1>6 DEF Holds
        <3>3. CASE i # 1 /\ k = 1 BY <3>3, <1>4, <1>6 DEF Holds
        <3>4. QED BY <3>1, <3>2, <3>3
    <2>2. \A n \in Node : color'[n] = "black" <=> Holds(order', n)
        BY <1>1, <1>2, <1>4 DEF SearchInv, OrderInv
    <2>3. ASSUME NEW i \in DOMAIN order', NEW v \in Successors(order'[i])
          PROVE  \E k \in DOMAIN order' : i < k /\ order'[k] = v
        <3>1. CASE i = 1
            <4>1. v \in Successors(u) /\ v \in Node BY <3>1, <2>3, <1>4 DEF Successors
            <4>2. Holds(order, v) BY <4>1, <1>1 DEF SearchInv, OrderInv
            <4>3. PICK k \in DOMAIN order : order[k] = v BY <4>2 DEF Holds
            <4>4. k + 1 \in DOMAIN order' /\ order'[k + 1] = v /\ k \in Nat \ {0}
                BY <4>3, <1>2, <1>4
            <4>5. QED BY <4>4, <3>1
        <3>2. CASE i # 1
            <4>1. i - 1 \in DOMAIN order /\ v \in Successors(order[i - 1])
                BY <3>2, <1>4, <2>3
            <4>2. PICK k \in DOMAIN order : i - 1 < k /\ order[k] = v
                BY <4>1 DEF SearchInv, OrderInv
            <4>3. k + 1 \in DOMAIN order' /\ order'[k + 1] = v BY <4>2, <1>4
            <4>4. i \in Nat /\ k \in Nat BY <4>2, <1>2, <1>4
            <4>5. i < k + 1 BY <4>2, <4>4
            <4>6. QED BY <4>3, <4>5
        <3>3. QED BY <3>1, <3>2
    <2>4. \A i \in DOMAIN order' : Successors(order[i])' = Successors(order'[i])
        BY <1>1 DEF Successors
    <2>5. QED BY <2>1, <2>2, <2>3, <2>4 DEF OrderInv, NoRepeat, Holds
<1>11. VerdictInv' BY <1>1 DEF VerdictInv
<1>12. QED BY <1>7, <1>9, <1>10, <1>11 DEF SearchInv

\* Steps that leave the search where it is.
LEMMA SearchStands ==
    ASSUME SearchInv, UNCHANGED <<graph, search>>,
           \/ pc' = pc
           \/ pc \notin {"sort", "cyclic"} /\ pc' \notin {"sort", "cyclic"}
           \/ pc' # "cyclic" /\ \A n \in Node : color[n] = "black"
    PROVE  SearchInv'
<1>1. UNCHANGED <<graph, color, stack, order, cycle>> BY DEF search
<1>2. Edges' = Edges /\ \A u : Successors(u)' = Successors(u)
    BY <1>1 DEF Edges, Successors
<1>3. SearchTypes' BY <1>1 DEF SearchInv, SearchTypes
<1>4. StackInv' BY <1>1, <1>2 DEF SearchInv, StackInv, NoRepeat, Path, Holds
<1>5. OrderInv'
    <2>1. \A i \in DOMAIN order : Successors(order[i])' = Successors(order[i])
        BY <1>1 DEF Successors
    <2>2. QED BY <2>1, <1>1 DEF SearchInv, OrderInv, NoRepeat, Holds
<1>6. VerdictInv' BY <1>1, <1>2 DEF SearchInv, VerdictInv, Path
<1>7. QED BY <1>3, <1>4, <1>5, <1>6 DEF SearchInv

(***************************************************************************)
(* SearchInv is an invariant.                                              *)
(***************************************************************************)
THEOREM SearchInvariance == Spec => []SearchInv
<1>1. Init => SearchInv
    BY DEF Init, SearchInv, SearchTypes, StackInv, OrderInv, VerdictInv, NoRepeat, Path, Holds
<1>2. SearchInv /\ [Next]_vars => SearchInv'
    <2> SUFFICES ASSUME SearchInv, [Next]_vars PROVE SearchInv' OBVIOUS
    <2>1. CASE \E v \in Node : Root(v) \/ Descend(v)
        BY <2>1, VisitKeeps DEF Root, Descend
    <2>2. CASE \E v \in Node : FindCycle(v) BY <2>2, FindCycleKeeps
    <2>3. CASE Blacken BY <2>3, BlackenKeeps
    <2>4. CASE \/ Sorted \/ BuildDependencyMap \/ SweepOne \/ Accept \/ Retract
               \/ UNCHANGED vars
               \/ \E filter \in SUBSET Command, o \in Orderings : Select(filter, o)
        BY <2>4, SearchStands DEF Sorted, BuildDependencyMap, SweepOne, Accept, Retract,
                                  Select, vars
    <2>5. QED BY <2>1, <2>2, <2>3, <2>4 DEF Next
<1>3. QED BY <1>1, <1>2, PTL DEF Spec

\* A finished search lists every node once, and each before all that depend on it.
LEMMA FinishedSort ==
    ASSUME SearchInv, pc \notin {"sort", "cyclic"}
    PROVE  /\ \A n \in Node : Holds(order, n)
           /\ \A n \in Node : Position(n) \in DOMAIN order /\ order[Position(n)] = n
           /\ \A e \in Edges : Position(e[1]) < Position(e[2])
           /\ IsFiniteSet(Node) /\ Cardinality(Node) = Len(order)
<1>1. \A n \in Node : Holds(order, n) BY DEF SearchInv, VerdictInv, OrderInv
<1>2. \A n \in Node : Position(n) \in DOMAIN order /\ order[Position(n)] = n
    BY <1>1 DEF Holds, Position
<1>3. order \in Seq(Node) /\ DOMAIN order = 1..Len(order) /\ Len(order) \in Nat
    BY DEF SearchInv, SearchTypes
<1>4. ASSUME NEW e \in Edges PROVE Position(e[1]) < Position(e[2])
    <2>1. PICK m \in Node, n \in Node : e = <<m, n>>
        BY <1>4, GraphsAssumption DEF Edges, SearchInv, SearchTypes
    <2>2. n \in Successors(order[Position(m)]) BY <2>1, <1>2, <1>4, SuccessorsAre
    <2>3. PICK k \in DOMAIN order : Position(m) < k /\ order[k] = n
        BY <2>2, <1>2 DEF SearchInv, OrderInv
    <2>4. k = Position(n) BY <2>3, <1>2 DEF SearchInv, OrderInv, NoRepeat
    <2>5. QED BY <2>1, <2>3, <2>4
<1>5. order \in Bijection(1..Len(order), Node)
    <2>1. order \in [1..Len(order) -> Node] BY <1>3
    <2>2. \A i, k \in 1..Len(order) : order[i] = order[k] => i = k
        BY <1>3 DEF SearchInv, OrderInv, NoRepeat
    <2>3. \A n \in Node : \E i \in 1..Len(order) : order[i] = n BY <1>1, <1>3 DEF Holds
    <2>4. QED BY <2>1, <2>2, <2>3 DEF Bijection, Injection, Surjection, IsInjective
<1>6. IsFiniteSet(Node) /\ Cardinality(Node) = Len(order)
    <2>1. IsFiniteSet(1..Len(order)) /\ Cardinality(1..Len(order)) = Len(order)
        BY <1>3, FS_Interval
    <2>2. QED BY <2>1, <1>5, FS_Bijection DEF ExistsBijection
<1>7. QED BY <1>1, <1>2, <1>4, <1>6

(***************************************************************************)
(* The sort gives up exactly on graphs with a cycle, reports one, and      *)
(* otherwise puts every node, once, after all it depends on.               *)
(***************************************************************************)
THEOREM SortRight == Spec => []SortIsRight
<1>1. SearchInv => SortIsRight
    <2> SUFFICES ASSUME SearchInv PROVE SortIsRight OBVIOUS
    <2>1. ASSUME pc = "cyclic"
          PROVE  /\ ~Acyclic(Node, Edges) /\ Len(cycle) > 1 /\ cycle[1] = Last(cycle)
                 /\ \A i \in 1..(Len(cycle) - 1) : <<cycle[i], cycle[i + 1]>> \in Edges
        <3>1. /\ cycle \in Seq(Node) /\ Len(cycle) > 1 /\ Path(cycle)
              /\ cycle[1] = cycle[Len(cycle)]
            BY <2>1 DEF SearchInv, SearchTypes, VerdictInv
        <3>2. \A i \in 1..(Len(cycle) - 1) : i \in DOMAIN cycle /\ i + 1 \in DOMAIN cycle
            BY <3>1
        <3>3. QED BY <3>1, <3>2, ClosedPathIsCyclic DEF Last, Path
    <2>2. ASSUME pc \notin {"sort", "cyclic"} PROVE ToSet(order) = Node
        BY <2>2, FinishedSort DEF ToSet, Holds, SearchInv, SearchTypes
    <2>3. QED BY <2>1, <2>2, FinishedSort DEF SortIsRight
<1>2. QED BY <1>1, SearchInvariance, PTL
-----------------------------------------------------------------------------
(***************************************************************************)
(* The sweep.  From here on the invariant of the search is at hand: the    *)
(* graph is sorted.                                                        *)
(***************************************************************************)
\* What InOrderOf returns when its first argument names nothing twice.
LEMMA InOrderFacts ==
    ASSUME NEW s, DOMAIN s \subseteq Nat, NoRepeat(s),
           NEW S, IsFiniteSet(S), NEW q \in InOrderOf(s, S)
    PROVE  /\ q \in Seq(S) /\ Len(q) = Cardinality(S) /\ NoRepeat(q)
           /\ \A x \in S : Holds(q, x)
<1>1. Cardinality(S) \in Nat BY FS_CardinalityType
<1>2. /\ q \in [1..Cardinality(S) -> S]
      /\ \A x \in S : \E i \in DOMAIN q : q[i] = x
      /\ \A i, k \in DOMAIN q : i < k =>
            \E a, b \in DOMAIN s : a < b /\ s[a] = q[i] /\ s[b] = q[k]
    BY DEF InOrderOf
<1>3. q \in Seq(S) /\ Len(q) = Cardinality(S) /\ DOMAIN q = 1..Cardinality(S)
    BY <1>1, <1>2
<1>4. ASSUME NEW i \in DOMAIN q, NEW k \in DOMAIN q, i < k PROVE q[i] # q[k]
    <2>1. PICK a, b \in DOMAIN s : a < b /\ s[a] = q[i] /\ s[b] = q[k] BY <1>2, <1>4
    <2>2. a # b BY <2>1
    <2>3. QED BY <2>1, <2>2 DEF NoRepeat
<1>5. NoRepeat(q)
    <2>1. \A i, k \in DOMAIN q : i = k \/ i < k \/ k < i BY <1>3
    <2>2. QED BY <2>1, <1>4 DEF NoRepeat
<1>6. \A x \in S : Holds(q, x) BY <1>2 DEF Holds
<1>7. QED BY <1>3, <1>5, <1>6

(***************************************************************************)
(* What is known once the jobs are chosen; SweptTo(D) says that the sweep  *)
(* has taken the jobs of D off the queue.                                  *)
(***************************************************************************)
JobsInv ==
    /\ jobs \in Seq(Command) /\ NoRepeat(jobs)
    /\ IsFiniteSet(Jobs) /\ Cardinality(Jobs) = Len(jobs)

NeedsAre(pairs) ==
    \A j \in Jobs : needs[j] = Declared(j) \cup {p \in Jobs : <<p, j>> \in pairs}

SweptTo(D) ==
    /\ Cardinality(D) = reached
    /\ \A j \in Jobs :
        /\ remaining[j] = Cardinality(needs[j] \ D)
        /\ Holds(queue, j) \/ j \in D <=> needs[j] \subseteq D
        /\ ~(Holds(queue, j) /\ j \in D)
    /\ Acyclic(D, Waits)

QueueInv ==
    /\ queue \in Seq(Jobs) /\ NoRepeat(queue)
    /\ enforced = Injectable /\ NeedsAre(Injectable)
    /\ \E D \in SUBSET Jobs : SweptTo(D)

SweepInv ==
    /\ pc \in {"sort", "cyclic", "select", "map", "sweep"} => applied = TRUE
    /\ pc \in {"map", "sweep", "ready"} => JobsInv
    /\ pc = "sweep" => QueueInv
    /\ NeverStalls
    /\ RetractedOnlyOnContradiction

\* What a job is declared to wait for comes before it in the sorted order.
LEMMA DeclaredFollows ==
    ASSUME SearchInv, pc \notin {"sort", "cyclic"}, NEW j \in Jobs, NEW p \in Declared(j)
    PROVE  p \in Jobs /\ Position(p) < Position(j)
<1>1. \A n \in Node : Position(n) \in Nat BY FinishedSort DEF SearchInv, SearchTypes
<1>2. \A m, n \in Node : <<m, n>> \in Edges => Position(m) < Position(n)
    BY FinishedSort
<1>3. j \in Node /\ Jobs \subseteq Node BY DEF Jobs, Node
<1>4. CASE p \in Into(j, graph.data) \cap Jobs
    BY <1>2, <1>3, <1>4 DEF Into, Edges
<1>5. ASSUME NEW n \in Node, p \in Producers(n), Position(n) < Position(j)
      PROVE  p \in Jobs /\ Position(p) < Position(j)
    <2>1. p \in Jobs /\ p \in Node /\ <<p, n>> \in Edges
        BY <1>3, <1>5 DEF Producers, Into, Edges
    <2>2. Position(p) < Position(n) BY <2>1, <1>2
    <2>3. QED BY <2>1, <2>2, <1>1, <1>3, <1>5
<1>6. CASE \E n \in Into(j, graph.data) \ Command : p \in Producers(n)
    <2>1. PICK n \in Node : <<n, j>> \in Edges /\ p \in Producers(n)
        BY <1>6 DEF Into, Edges
    <2>2. QED BY <2>1, <1>2, <1>3, <1>5
<1>7. CASE \E m \in Into(j, graph.order) : \E n \in Members(m) : p \in Producers(n)
    <2>1. PICK m \in Node : <<m, j>> \in Edges /\ \E n \in Members(m) : p \in Producers(n)
        BY <1>7 DEF Into, Edges
    <2>2. PICK n \in Members(m) : p \in Producers(n) BY <2>1
    <2>3. n \in Node /\ (n = m \/ <<n, m>> \in Edges)
        BY <2>1, <2>2 DEF Members, Into, Edges
    <2>4. Position(m) < Position(j) BY <2>1, <1>2, <1>3
    <2>5. Position(n) < Position(j) BY <2>3, <2>4, <2>1, <1>1, <1>2, <1>3
    <2>6. QED BY <2>2, <2>3, <2>5, <1>5
<1>8. QED BY <1>4, <1>6, <1>7 DEF Declared

\* Without injected pairs, no job waits for itself.
LEMMA DeclaredIsAcyclic ==
    ASSUME SearchInv, pc \notin {"sort", "cyclic"}
    PROVE  Acyclic(Jobs, {e \in Jobs \X Jobs : e[1] \in Declared(e[2])})
<1> DEFINE rank == [j \in Jobs |-> Position(j)]
           declared == {e \in Jobs \X Jobs : e[1] \in Declared(e[2])}
<1>1. rank \in [Jobs -> Nat]
    <2>1. \A n \in Node : Position(n) \in Nat BY FinishedSort DEF SearchInv, SearchTypes
    <2>2. Jobs \subseteq Node BY DEF Jobs, Node
    <2>3. QED BY <2>1, <2>2
<1>2. \A m, n \in Jobs : <<m, n>> \in declared => rank[m] < rank[n]
    <2> SUFFICES ASSUME NEW m \in Jobs, NEW n \in Jobs, <<m, n>> \in declared
                 PROVE  rank[m] < rank[n]
        OBVIOUS
    <2>1. m \in Declared(n) OBVIOUS
    <2>2. QED BY <2>1, DeclaredFollows
<1> HIDE DEF rank, declared
<1>3. Acyclic(Jobs, declared) BY <1>1, <1>2, RankedIsAcyclic
<1>4. QED BY <1>3 DEF declared

\* What build_dependency_map leaves for the sweep.
LEMMA MapGives ==
    ASSUME JobsInv, NEW pairs, MapJobs(pairs), UNCHANGED <<graph, jobs>>
    PROVE  /\ Jobs' = Jobs /\ enforced' = pairs /\ reached' = 0
           /\ \A j \in Jobs : Declared(j)' = Declared(j)
           /\ \A j \in Jobs :
                needs'[j] = Declared(j) \cup {p \in Jobs : <<p, j>> \in pairs}
           /\ \A j \in Jobs : remaining'[j] = Cardinality(needs'[j])
           /\ queue' \in Seq(Jobs) /\ NoRepeat(queue')
           /\ \A j \in Jobs : Holds(queue', j) <=> needs'[j] = {}
<1>1. Jobs' = Jobs BY DEF Jobs
<1>2. \A j \in Jobs : Declared(j)' = Declared(j)
    BY <1>1 DEF Declared, Into, Members, Producers
<1>3. \A j \in Jobs : j \in Command BY DEF Jobs
<1>4. /\ \A j \in Jobs : needs'[j] = Declared(j) \cup {p \in Jobs : <<p, j>> \in pairs}
      /\ \A j \in Jobs : remaining'[j] = Cardinality(needs'[j])
      /\ enforced' = pairs /\ reached' = 0
    BY <1>3 DEF MapJobs
<1> DEFINE idle == {j \in Jobs : needs'[j] = {}}
<1>5. IsFiniteSet(idle) BY FS_Subset DEF JobsInv
<1>6. queue' \in InOrderOf(jobs, idle) BY DEF MapJobs
<1>7. DOMAIN jobs \subseteq Nat BY DEF JobsInv
<1> HIDE DEF idle
<1>8. /\ queue' \in Seq(idle) /\ NoRepeat(queue')
      /\ \A j \in idle : Holds(queue', j)
    BY <1>5, <1>6, <1>7, InOrderFacts DEF JobsInv
<1>9. \A i \in DOMAIN queue' : queue'[i] \in idle BY <1>8
<1>10. \A j : j \in idle <=> j \in Jobs /\ needs'[j] = {} BY DEF idle
<1>11. queue' \in Seq(Jobs) BY <1>8, <1>10
<1>12. \A j \in Jobs : Holds(queue', j) <=> needs'[j] = {}
    BY <1>8, <1>9, <1>10 DEF Holds
<1>13. QED BY <1>1, <1>2, <1>4, <1>8, <1>11, <1>12

\* Taking one job off the queue sweeps one job more.
LEMMA SweepsOneMore ==
    ASSUME SearchInv, JobsInv, QueueInv, SweepOne
    PROVE  QueueInv'
<1>1. PICK D \in SUBSET Jobs : SweptTo(D) BY DEF QueueInv
<1>2. /\ queue \in Seq(Jobs) /\ queue # <<>> /\ NoRepeat(queue)
      /\ Len(queue) \in Nat \ {0} /\ DOMAIN queue = 1..Len(queue)
    BY DEF QueueInv, SweepOne
<1>3. PICK i \in Jobs : i = Head(queue) /\ i = queue[1] BY <1>2
<1> DEFINE released == {j \in Jobs : i \in needs[j] /\ remaining[j] = 1}
           E == D \cup {i}
<1>4. /\ remaining' = [j \in Command |->
             IF i \in needs[j] THEN remaining[j] - 1 ELSE remaining[j]]
      /\ \E more \in InOrderOf(jobs, released) : queue' = Tail(queue) \o more
      /\ reached' = reached + 1
      /\ UNCHANGED <<graph, pc, search, plan>>
    BY <1>3 DEF SweepOne
<1>5. /\ Jobs' = Jobs /\ Waits' = Waits /\ needs' = needs /\ enforced' = enforced
      /\ Injectable' = Injectable
    BY <1>4 DEF plan, Jobs, Waits, Injectable
<1>6. \A j \in Jobs : Declared(j)' = Declared(j)
    BY <1>4, <1>5 DEF Declared, Into, Members, Producers
<1>7. NeedsAre(Injectable)' BY <1>5, <1>6 DEF QueueInv, NeedsAre
<1>8. \A j \in Jobs : needs[j] \subseteq Jobs
    <2>1. \A j \in Jobs : Declared(j) \subseteq Jobs BY DEF Declared, Producers
    <2>2. QED BY <2>1 DEF QueueInv, NeedsAre
<1>9. i \notin D /\ needs[i] \subseteq D
    <2>1. Holds(queue, i) BY <1>2, <1>3 DEF Holds
    <2>2. QED BY <2>1, <1>1 DEF SweptTo
<1>10. \A S \in SUBSET Jobs : IsFiniteSet(S) /\ Cardinality(S) \in Nat
    BY FS_Subset, FS_CardinalityType DEF JobsInv
<1>11. Cardinality(E) = reached'
    <2>1. Cardinality(E) = Cardinality(D) + 1 BY <1>9, <1>10, FS_AddElement
    <2>2. QED BY <2>1, <1>1, <1>4 DEF SweptTo
<1>12. ASSUME NEW j \in Jobs, i \in needs[j]
       PROVE  /\ Cardinality(needs[j] \ E) = remaining[j] - 1
              /\ remaining[j] = 1 <=> needs[j] \subseteq E
    <2>1. needs[j] \ E = (needs[j] \ D) \ {i} BY <1>9
    <2>2. IsFiniteSet(needs[j] \ D) /\ i \in needs[j] \ D BY <1>8, <1>9, <1>10, <1>12
    <2>3. Cardinality(needs[j] \ E) = Cardinality(needs[j] \ D) - 1
        <3>1. Cardinality((needs[j] \ D) \ {i}) = Cardinality(needs[j] \ D) - 1
            BY <2>2, FS_RemoveElement
        <3>2. QED BY <2>1, <3>1, Zenon
    <2>4. remaining[j] = Cardinality(needs[j] \ D) BY <1>1 DEF SweptTo
    <2>5. IsFiniteSet(needs[j] \ E) /\ Cardinality(needs[j] \ E) \in Nat BY <1>8, <1>10
    <2>6. Cardinality(needs[j] \ E) = 0 <=> needs[j] \ E = {} BY <2>5, FS_EmptySet
    <2>7. remaining[j] \in Nat BY <2>4, <1>8, <1>10
    <2>8. remaining[j] = 1 <=> Cardinality(needs[j] \ E) = 0 BY <2>3, <2>4, <2>7
    <2>9. QED BY <2>3, <2>4, <2>6, <2>8
<1>13. \A j \in Jobs : remaining'[j] = Cardinality(needs[j] \ E)
    <2>1. TAKE j \in Jobs
    <2>2. CASE i \in needs[j] BY <2>2, <1>4, <1>12 DEF Jobs
    <2>3. CASE i \notin needs[j]
        <3>1. needs[j] \ E = needs[j] \ D BY <2>3
        <3>2. QED BY <3>1, <2>3, <1>1, <1>4 DEF SweptTo, Jobs
    <2>4. QED BY <2>2, <2>3
<1>14. PICK more \in InOrderOf(jobs, released) : queue' = Tail(queue) \o more BY <1>4
<1>15. /\ more \in Seq(released) /\ NoRepeat(more)
       /\ \A j \in released : Holds(more, j)
    <2>1. DOMAIN jobs \subseteq Nat BY DEF JobsInv
    <2>2. IsFiniteSet(released) BY <1>10
    <2>3. more \in InOrderOf(jobs, released) BY <1>14
    <2> HIDE DEF released
    <2>4. QED BY <2>1, <2>2, <2>3, InOrderFacts DEF JobsInv
<1>16. \A j \in released : j \in Jobs /\ i \in needs[j] /\ needs[j] \subseteq E
    BY <1>12
<1>17. /\ Tail(queue) \in Seq(Jobs) /\ DOMAIN Tail(queue) = 1..(Len(queue) - 1)
       /\ \A k \in 1..(Len(queue) - 1) : Tail(queue)[k] = queue[k + 1]
    BY <1>2
<1>18. /\ more \in Seq(Jobs) /\ Len(more) \in Nat /\ DOMAIN more = 1..Len(more)
       /\ \A k \in DOMAIN more : more[k] \in released
    <2>1. \A j \in released : j \in Jobs BY <1>16
    <2> HIDE DEF released
    <2>2. QED BY <2>1, <1>15
<1> HIDE DEF released
<1>19. /\ queue' \in Seq(Jobs) /\ DOMAIN queue' = 1..(Len(queue) - 1 + Len(more))
       /\ \A k \in 1..(Len(queue) - 1) : queue'[k] = queue[k + 1]
       /\ \A k \in DOMAIN more : queue'[Len(queue) - 1 + k] = more[k]
    <2>1. Len(Tail(queue)) = Len(queue) - 1 BY <1>2
    <2>2. /\ Tail(queue) \o more \in Seq(Jobs)
          /\ Len(Tail(queue) \o more) = Len(queue) - 1 + Len(more)
        BY <2>1, <1>17, <1>18
    <2>3. \A k \in 1..(Len(queue) - 1) : (Tail(queue) \o more)[k] = queue[k + 1]
        BY <2>1, <1>17, <1>18
    <2>4. \A k \in DOMAIN more : (Tail(queue) \o more)[Len(queue) - 1 + k] = more[k]
        BY <2>1, <1>2, <1>17, <1>18
    <2>5. DOMAIN (Tail(queue) \o more) = 1..(Len(queue) - 1 + Len(more)) BY <2>2
    <2>6. QED BY <2>2, <2>3, <2>4, <2>5, <1>14, Zenon
<1>20. \A k \in DOMAIN queue' :
        \/ k \in 1..(Len(queue) - 1) /\ k + 1 \in DOMAIN queue /\ k + 1 # 1
        \/ \E l \in DOMAIN more : k = Len(queue) - 1 + l
    <2>1. TAKE k \in DOMAIN queue'
    <2>2. CASE k > Len(queue) - 1
        <3>1. k - (Len(queue) - 1) \in DOMAIN more /\ k = Len(queue) - 1 + (k - (Len(queue) - 1))
            BY <2>2, <1>2, <1>18, <1>19
        <3>2. QED BY <3>1
    <2>3. CASE ~(k > Len(queue) - 1) BY <2>3, <1>2, <1>18, <1>19
    <2>4. QED BY <2>2, <2>3
<1>21. \A j \in Jobs : Holds(queue, j) => needs[j] \subseteq D /\ j \notin D
    BY <1>1 DEF SweptTo
<1>22. \A j \in released : j \in Jobs /\ ~Holds(queue, j) /\ j # i /\ j \notin D
    <2>1. \A j \in released : j \in Jobs /\ i \in needs[j] BY <1>16
    <2>2. \A j \in Jobs : j \in D => needs[j] \subseteq D BY <1>1 DEF SweptTo
    <2>3. QED BY <2>1, <2>2, <1>9, <1>21
<1>23. \A j \in Jobs : Holds(queue', j) <=> (Holds(queue, j) /\ j # i) \/ j \in released
    <2>1. TAKE j \in Jobs
    <2>2. ASSUME Holds(queue', j) PROVE (Holds(queue, j) /\ j # i) \/ j \in released
        <3>1. PICK k \in DOMAIN queue' : queue'[k] = j BY <2>2 DEF Holds
        <3>2. CASE k \in 1..(Len(queue) - 1) /\ k + 1 \in DOMAIN queue /\ k + 1 # 1
            <4>1. queue[k + 1] = j BY <3>1, <3>2, <1>19
            <4>2. 1 \in DOMAIN queue BY <1>2
            <4>3. QED BY <4>1, <4>2, <3>2, <1>2, <1>3 DEF NoRepeat, Holds
        <3>3. CASE \E l \in DOMAIN more : k = Len(queue) - 1 + l
            BY <3>1, <3>3, <1>18, <1>19
        <3>4. QED BY <3>1, <3>2, <3>3, <1>20
    <2>3. ASSUME Holds(queue, j), j # i PROVE Holds(queue', j)
        <3>1. PICK k \in DOMAIN queue : queue[k] = j BY <2>3 DEF Holds
        <3>2. k # 1 BY <3>1, <2>3, <1>3
        <3>3. k - 1 \in 1..(Len(queue) - 1) /\ (k - 1) + 1 = k BY <3>1, <3>2, <1>2
        <3>4. queue'[k - 1] = j BY <3>1, <3>3, <1>19
        <3>5. k - 1 \in DOMAIN queue' BY <3>3, <1>2, <1>18, <1>19
        <3>6. QED BY <3>4, <3>5 DEF Holds
    <2>4. ASSUME j \in released PROVE Holds(queue', j)
        <3>1. PICK k \in DOMAIN more : more[k] = j BY <2>4, <1>15 DEF Holds
        <3>2. Len(queue) - 1 + k \in DOMAIN queue' BY <1>2, <1>18, <1>19
        <3>3. QED BY <3>1, <3>2, <1>19 DEF Holds
    <2>5. QED BY <2>2, <2>3, <2>4
<1>24. NoRepeat(queue')
    <2> SUFFICES ASSUME NEW k \in DOMAIN queue', NEW l \in DOMAIN queue',
                        queue'[k] = queue'[l]
                 PROVE  k = l
        BY DEF NoRepeat
    <2>1. \A m \in 1..(Len(queue) - 1) : m + 1 \in DOMAIN queue /\ Holds(queue, queue'[m])
        BY <1>2, <1>19 DEF Holds
    <2>2. \A m \in DOMAIN more : ~Holds(queue, queue'[Len(queue) - 1 + m])
        BY <1>18, <1>19, <1>22
    <2>3. CASE k \in 1..(Len(queue) - 1) /\ l \in 1..(Len(queue) - 1)
        <3>1. queue[k + 1] = queue[l + 1] BY <2>3, <1>19
        <3>2. k + 1 = l + 1 BY <3>1, <2>1, <2>3, <1>2 DEF NoRepeat
        <3>3. QED BY <3>2, <2>3
    <2>4. CASE \E m, n \in DOMAIN more : k = Len(queue) - 1 + m /\ l = Len(queue) - 1 + n
        <3>1. PICK m, n \in DOMAIN more : k = Len(queue) - 1 + m /\ l = Len(queue) - 1 + n
            BY <2>4
        <3>2. more[m] = more[n] BY <3>1, <1>19
        <3>3. QED BY <3>1, <3>2, <1>15 DEF NoRepeat
    <2>5. CASE k \in 1..(Len(queue) - 1) /\ \E m \in DOMAIN more : l = Len(queue) - 1 + m
        BY <2>1, <2>2, <2>5
    <2>6. CASE l \in 1..(Len(queue) - 1) /\ \E m \in DOMAIN more : k = Len(queue) - 1 + m
        BY <2>1, <2>2, <2>6
    <2>7. QED BY <2>3, <2>4, <2>5, <2>6, <1>20
<1>25. \A j \in Jobs : /\ Holds(queue', j) \/ j \in E <=> needs[j] \subseteq E
                       /\ ~(Holds(queue', j) /\ j \in E)
    <2>1. TAKE j \in Jobs
    <2>2. Holds(queue, j) \/ j \in D <=> needs[j] \subseteq D BY <1>1 DEF SweptTo
    <2>3. ASSUME needs[j] \subseteq E, i \in needs[j] PROVE j \in released
        BY <2>3, <1>12 DEF released
    <2>4. ASSUME needs[j] \subseteq E, i \notin needs[j] PROVE needs[j] \subseteq D
        BY <2>4
    <2>5. j \in released => needs[j] \subseteq E BY <1>16
    <2>6. Holds(queue, i) BY <1>2, <1>3 DEF Holds
    <2>7. Holds(queue', j) \/ j \in E => needs[j] \subseteq E
        BY <2>2, <2>5, <2>6, <1>9, <1>23
    <2>8. needs[j] \subseteq E => Holds(queue', j) \/ j \in E
        BY <2>2, <2>3, <2>4, <1>23
    <2>9. ~(Holds(queue', j) /\ j \in E) BY <1>21, <1>22, <1>23
    <2>10. QED BY <2>7, <2>8, <2>9
<1>26. Acyclic(E, Waits)
    <2> SUFFICES ASSUME NEW T \in (SUBSET E) \ {{}}
                 PROVE  \E n \in T : \A m \in T : <<m, n>> \notin Waits
        BY DEF Acyclic
    <2>1. CASE T \ {i} = {}
        <3>1. T = {i} /\ i \notin needs[i] BY <2>1, <1>9
        <3>2. QED BY <3>1 DEF Waits
    <2>2. CASE T \ {i} # {}
        <3>1. T \ {i} \in (SUBSET D) \ {{}} BY <2>2
        <3>2. PICK n \in T \ {i} : \A m \in T \ {i} : <<m, n>> \notin Waits
            BY <3>1, <1>1 DEF SweptTo, Acyclic
        <3>3. n \in D /\ n \in Jobs BY <3>1, <3>2
        <3>4. needs[n] \subseteq D BY <3>3, <1>1 DEF SweptTo
        <3>5. <<i, n>> \notin Waits BY <3>4, <1>9 DEF Waits
        <3>6. QED BY <3>2, <3>5
    <2>3. QED BY <2>1, <2>2
<1>27. SweptTo(E)'
    <2>1. Cardinality(E)' = Cardinality(E) /\ E' = E OBVIOUS
    <2>2. Acyclic(E, Waits)' BY <1>5, <1>26 DEF Acyclic
    <2>3. \A j \in Jobs' :
            /\ remaining'[j] = Cardinality(needs'[j] \ E)
            /\ Holds(queue', j) \/ j \in E <=> needs'[j] \subseteq E
            /\ ~(Holds(queue', j) /\ j \in E)
        BY <1>5, <1>13, <1>25
    <2> HIDE DEF E
    <2>4. QED BY <2>1, <2>2, <2>3, <1>11 DEF SweptTo, Holds
<1>28. E \in SUBSET Jobs' BY <1>5
<1> HIDE DEF E
<1>29. QED BY <1>5, <1>7, <1>19, <1>24, <1>27, <1>28 DEF QueueInv, NoRepeat

\* Nothing waits for itself when nothing is there.
LEMMA NoJobsNoCycle ==
    ASSUME Jobs = {} PROVE Acyclic(Jobs, Waits)
BY DEF Acyclic

\* The search, and the choice of the jobs.
LEMMA SelectGivesJobs ==
    ASSUME SearchInv, NEW filter \in SUBSET Command, NEW o \in Orderings,
           Select(filter, o)
    PROVE  JobsInv'
<1>1. pc = "select" /\ jobs' \in InOrderOf(order, filter) BY DEF Select
<1>2. IsFiniteSet(filter)
    <2>1. filter \subseteq Node BY DEF Node
    <2>2. IsFiniteSet(Node) BY <1>1, FinishedSort
    <2>3. QED BY <2>1, <2>2, FS_Subset
<1>3. DOMAIN order \subseteq Nat /\ NoRepeat(order)
    BY DEF SearchInv, SearchTypes, OrderInv
<1>4. /\ jobs' \in Seq(filter) /\ Len(jobs') = Cardinality(filter) /\ NoRepeat(jobs')
      /\ \A c \in filter : Holds(jobs', c)
    BY <1>1, <1>2, <1>3, InOrderFacts
<1>5. \A i \in DOMAIN jobs' : jobs'[i] \in filter BY <1>4
<1>6. Jobs' = filter
    <2>1. \A c \in Command : c \in ToSet(jobs') <=> c \in filter
        BY <1>4, <1>5 DEF Holds, ToSet
    <2>2. QED BY <2>1 DEF Jobs
<1>7. jobs' \in Seq(Command) BY <1>4, <1>5
<1>8. QED BY <1>2, <1>4, <1>6, <1>7 DEF JobsInv, NoRepeat

\* The map, and the first entries of the queue.
LEMMA MapStartsSweep ==
    ASSUME SearchInv, SweepInv, BuildDependencyMap
    PROVE  SweepInv'
<1>1. /\ pc = "map" /\ MapJobs(Injectable) /\ JobsInv /\ applied' = TRUE
      /\ pc' = IF ordering = {} THEN "ready" ELSE "sweep"
      /\ UNCHANGED <<graph, search, jobs, ordering>>
    BY DEF BuildDependencyMap, SweepInv
<1>2. /\ Jobs' = Jobs /\ enforced' = Injectable /\ reached' = 0
      /\ \A j \in Jobs : Declared(j)' = Declared(j)
      /\ \A j \in Jobs :
            needs'[j] = Declared(j) \cup {p \in Jobs : <<p, j>> \in Injectable}
      /\ \A j \in Jobs : remaining'[j] = Cardinality(needs'[j])
      /\ queue' \in Seq(Jobs) /\ NoRepeat(queue')
      /\ \A j \in Jobs : Holds(queue', j) <=> needs'[j] = {}
    BY <1>1, MapGives
<1>3. Injectable' = Injectable BY <1>1, <1>2 DEF Injectable
<1>4. JobsInv' BY <1>1, <1>2 DEF JobsInv, NoRepeat
<1>5. CASE ordering = {}
    <2>1. Injectable = {} BY <1>5 DEF Injectable
    <2>2. Waits' = {e \in Jobs \X Jobs : e[1] \in Declared(e[2])}
        BY <2>1, <1>2 DEF Waits
    <2>3. Acyclic(Jobs', Waits') BY <2>2, <1>1, <1>2, DeclaredIsAcyclic
    <2>4. QED BY <2>3, <1>1, <1>2, <1>3, <1>4, <1>5
              DEF SweepInv, NeverStalls, RetractedOnlyOnContradiction, Acyclic
<1>6. CASE ordering # {}
    <2>1. pc' = "sweep" BY <1>1, <1>6
    <2>2. NeedsAre(Injectable)' BY <1>2, <1>3 DEF NeedsAre
    <2>3. SweptTo({})'
        <3>1. Cardinality({}) = 0 BY FS_EmptySet
        <3>2. \A S : S \ {} = S OBVIOUS
        <3>3. \A j \in Jobs : remaining'[j] = Cardinality(needs'[j] \ {})
            BY <3>2, <1>2
        <3>4. Acyclic({}, Waits') BY DEF Acyclic
        <3>5. \A j \in Jobs : Holds(queue', j) <=> needs'[j] \subseteq {} BY <1>2
        <3>6. QED BY <3>1, <3>3, <3>4, <3>5, <1>2 DEF SweptTo, Acyclic, Holds
    <2>4. QueueInv' BY <2>2, <2>3, <1>2, <1>3 DEF QueueInv, NoRepeat
    <2>5. QED BY <2>1, <2>4, <1>1, <1>4
              DEF SweepInv, NeverStalls, RetractedOnlyOnContradiction
<1>7. QED BY <1>5, <1>6

\* An emptied queue has had every job, if as many as there are jobs.
LEMMA AcceptedIsAcyclic ==
    ASSUME JobsInv, QueueInv, queue = <<>>, ~HasCycle
    PROVE  Acyclic(Jobs, Waits)
<1>1. PICK D \in SUBSET Jobs : SweptTo(D) BY DEF QueueInv
<1>2. IsFiniteSet(D) /\ Cardinality(D) <= Cardinality(Jobs)
      /\ (Cardinality(D) = Cardinality(Jobs) => D = Jobs)
    BY FS_Subset DEF JobsInv
<1>3. Cardinality(D) \in Nat /\ Cardinality(Jobs) \in Nat
    BY <1>2, FS_CardinalityType DEF JobsInv
<1>4. ~(Cardinality(D) < Cardinality(Jobs)) BY <1>1 DEF HasCycle, SweptTo, JobsInv
<1>5. D = Jobs BY <1>2, <1>3, <1>4
<1>6. QED BY <1>1, <1>5 DEF SweptTo

\* One that was emptied before its time leaves jobs that wait for each other.
LEMMA StalledIsCyclic ==
    ASSUME JobsInv, QueueInv, queue = <<>>, HasCycle
    PROVE  ~Acyclic(Jobs, Waits)
<1>1. PICK D \in SUBSET Jobs : SweptTo(D) BY DEF QueueInv
<1>2. D # Jobs
    <2>1. Cardinality(D) < Cardinality(Jobs) BY <1>1 DEF HasCycle, SweptTo, JobsInv
    <2>2. Cardinality(Jobs) \in Nat BY FS_CardinalityType DEF JobsInv
    <2>3. QED BY <2>1, <2>2
<1>3. Jobs \ D \in (SUBSET Jobs) \ {{}} BY <1>2
<1>4. ASSUME NEW n \in Jobs \ D PROVE \E m \in Jobs \ D : <<m, n>> \in Waits
    <2>1. ~Holds(queue, n) BY DEF Holds
    <2>2. PICK m \in needs[n] : m \notin D BY <2>1, <1>1 DEF SweptTo
    <2>3. m \in Jobs
        <3>1. Declared(n) \subseteq Jobs BY DEF Declared, Producers
        <3>2. QED BY <3>1, <2>2 DEF QueueInv, NeedsAre
    <2>4. QED BY <2>2, <2>3 DEF Waits
<1>5. QED BY <1>3, <1>4 DEF Acyclic

LEMMA RetractKeeps ==
    ASSUME SearchInv, SweepInv, Retract
    PROVE  SweepInv'
<1>1. /\ pc = "sweep" /\ queue = <<>> /\ HasCycle /\ MapJobs({})
      /\ applied' = FALSE /\ pc' = "ready" /\ UNCHANGED <<graph, search, jobs, ordering>>
      /\ JobsInv /\ QueueInv
    BY DEF Retract, SweepInv
<1>2. /\ Jobs' = Jobs /\ enforced' = {}
      /\ \A j \in Jobs : Declared(j)' = Declared(j)
      /\ \A j \in Jobs : needs'[j] = Declared(j)
    <2>1. /\ Jobs' = Jobs /\ enforced' = {}
          /\ \A j \in Jobs : Declared(j)' = Declared(j)
          /\ \A j \in Jobs :
                needs'[j] = Declared(j) \cup {p \in Jobs : <<p, j>> \in {}}
        BY <1>1, MapGives
    <2>2. QED BY <2>1
<1>3. Waits' = {e \in Jobs \X Jobs : e[1] \in Declared(e[2])} BY <1>2 DEF Waits
<1>4. Acyclic(Jobs', Waits') BY <1>1, <1>3, <1>2, DeclaredIsAcyclic
<1>5. JobsInv' BY <1>1, <1>2 DEF JobsInv, NoRepeat
<1>6. Injectable' = Injectable BY <1>1, <1>2 DEF Injectable
<1>7. \A e \in Waits : e \in Waits' \cup Injectable'
    BY <1>2, <1>6, <1>1 DEF Waits, QueueInv, NeedsAre
<1>8. ~Acyclic(Jobs', Waits' \cup Injectable')
    BY <1>1, <1>2, <1>7, StalledIsCyclic DEF Acyclic
<1>9. QED BY <1>1, <1>2, <1>4, <1>5, <1>8
           DEF SweepInv, NeverStalls, RetractedOnlyOnContradiction, Acyclic

\* The search, and a step that changes nothing.
LEMMA SweepStands ==
    ASSUME SweepInv, UNCHANGED <<graph, plan, sweep>>,
           pc' = pc \/ (pc = "sort" /\ pc' \in {"cyclic", "select"})
    PROVE  SweepInv'
<1>1. UNCHANGED <<graph, jobs, ordering, enforced, applied, needs, remaining, queue, reached>>
    BY DEF plan, sweep
<1>2. Jobs' = Jobs /\ Waits' = Waits /\ Injectable' = Injectable
    BY <1>1 DEF Jobs, Waits, Injectable
<1>3. JobsInv' <=> JobsInv BY <1>1, <1>2 DEF JobsInv, NoRepeat
<1>4. QueueInv => QueueInv'
    <2>1. \A j \in Jobs : Declared(j)' = Declared(j)
        BY <1>1, <1>2 DEF Declared, Into, Members, Producers
    <2>2. NeedsAre(Injectable) => NeedsAre(Injectable)' BY <2>1, <1>1, <1>2 DEF NeedsAre
    <2>3. \A D \in SUBSET Jobs : SweptTo(D) => SweptTo(D)'
        BY <1>1, <1>2 DEF SweptTo, Holds, Acyclic
    <2>4. QED BY <2>2, <2>3, <1>1, <1>2 DEF QueueInv, NoRepeat
<1>5. NeverStalls' BY <1>1, <1>2 DEF SweepInv, NeverStalls, Acyclic
<1>6. RetractedOnlyOnContradiction'
    BY <1>1, <1>2 DEF SweepInv, RetractedOnlyOnContradiction, Acyclic
<1>7. QED BY <1>1, <1>3, <1>4, <1>5, <1>6 DEF SweepInv

(***************************************************************************)
(* SearchInv and SweepInv together are inductive.                          *)
(***************************************************************************)
THEOREM SweepInvariance == Spec => []SweepInv
<1>1. Init => SweepInv
    BY DEF Init, SweepInv, NeverStalls, RetractedOnlyOnContradiction
<1>2. SearchInv /\ SweepInv /\ [Next]_vars => SweepInv'
    <2> SUFFICES ASSUME SearchInv, SweepInv, [Next]_vars PROVE SweepInv' OBVIOUS
    <2>1. CASE \E v \in Node : Root(v) \/ Descend(v) \/ FindCycle(v)
        BY <2>1, SweepStands DEF Root, Descend, FindCycle, Visit
    <2>2. CASE Blacken \/ Sorted \/ UNCHANGED vars
        BY <2>2, SweepStands DEF Blacken, Sorted, vars
    <2>3. CASE \E filter \in SUBSET Command, o \in Orderings : Select(filter, o)
        <3>1. JobsInv' BY <2>3, SelectGivesJobs
        <3>2. /\ pc = "select" /\ pc' = IF jobs' = <<>> THEN "ready" ELSE "map"
              /\ applied' = applied
            BY <2>3 DEF Select, plan
        <3>3. pc' = "ready" => Jobs' = {} /\ jobs' = <<>> BY <3>2 DEF Jobs, ToSet
        <3>4. QED BY <3>1, <3>2, <3>3
                  DEF SweepInv, NeverStalls, RetractedOnlyOnContradiction, Acyclic
    <2>4. CASE BuildDependencyMap BY <2>4, MapStartsSweep
    <2>5. CASE SweepOne
        <3>1. pc = "sweep" /\ pc' = "sweep" /\ JobsInv /\ QueueInv
              /\ applied' = applied /\ jobs' = jobs
            BY <2>5 DEF SweepOne, SweepInv, plan
        <3>2. QueueInv' BY <3>1, <2>5, SweepsOneMore
        <3>3. JobsInv' BY <3>1 DEF JobsInv, NoRepeat, Jobs
        <3>4. QED BY <3>1, <3>2, <3>3
                  DEF SweepInv, NeverStalls, RetractedOnlyOnContradiction
    <2>6. CASE Accept
        <3>1. pc = "sweep" /\ pc' = "ready" /\ JobsInv /\ QueueInv
              /\ queue = <<>> /\ ~HasCycle /\ UNCHANGED <<graph, plan>> /\ applied = TRUE
            BY <2>6 DEF Accept, SweepInv
        <3>2. Acyclic(Jobs, Waits) BY <3>1, AcceptedIsAcyclic
        <3>3. UNCHANGED <<jobs, ordering, enforced, applied, needs>> BY <3>1 DEF plan
        <3>4. Jobs' = Jobs /\ Waits' = Waits /\ Injectable' = Injectable
            BY <3>3 DEF Jobs, Waits, Injectable
        <3>5. JobsInv' BY <3>1, <3>3, <3>4 DEF JobsInv, NoRepeat
        <3>6. enforced' = Injectable' BY <3>1, <3>3, <3>4 DEF QueueInv
        <3>7. QED BY <3>1, <3>2, <3>3, <3>4, <3>5, <3>6
                  DEF SweepInv, NeverStalls, RetractedOnlyOnContradiction, Acyclic
    <2>7. CASE Retract BY <2>7, RetractKeeps
    <2>8. QED BY <2>1, <2>2, <2>3, <2>4, <2>5, <2>6, <2>7 DEF Next
<1>3. QED BY <1>1, <1>2, SearchInvariance, PTL DEF Spec

(***************************************************************************)
(* Every build that starts comes to the end of its queue.                  *)
(***************************************************************************)
THEOREM QueueNeverStalls == Spec => []NeverStalls
<1>1. SweepInv => NeverStalls BY DEF SweepInv
<1>2. QED BY <1>1, SweepInvariance, PTL

(***************************************************************************)
(* The injected ordering is given up exactly when it cannot be kept.       *)
(***************************************************************************)
THEOREM RetractedRightly == Spec => []RetractedOnlyOnContradiction
<1>1. SweepInv => RetractedOnlyOnContradiction BY DEF SweepInv
<1>2. QED BY <1>1, SweepInvariance, PTL

(***************************************************************************)
(* The walks up the graph.                                                 *)
(***************************************************************************)
More(found, upward) == found \cup UNION {upward[n] : n \in found}
Rounds(ids, upward, N) ==
    {f \in [1..N -> SUBSET Node] :
        \A k \in 1..N : f[k] = IF k = 1 THEN ids ELSE More(f[k - 1], upward)}

\* A walk of any number of rounds exists.
LEMMA RoundsExist ==
    ASSUME NEW ids \in SUBSET Node, NEW upward \in [Node -> SUBSET Node], NEW N \in Nat
    PROVE  Rounds(ids, upward, N) # {}
<1> DEFINE T == {n \in Nat : Rounds(ids, upward, n) = {}}
<1> SUFFICES ASSUME T # {} PROVE FALSE OBVIOUS
<1>1. PICK n \in T : \A m \in T : n <= m BY LeastOf
<1>2. CASE n = 0
    <2> DEFINE g == [k \in 1..0 |-> ids]
    <2>1. g \in Rounds(ids, upward, 0) BY DEF Rounds
    <2>2. QED BY <2>1, <1>1, <1>2
<1>3. CASE n # 0
    <2>1. n - 1 \in Nat /\ n - 1 \notin T BY <1>1, <1>3
    <2>2. PICK f \in Rounds(ids, upward, n - 1) : TRUE BY <2>1
    <2>3. /\ f \in [1..(n - 1) -> SUBSET Node]
          /\ \A k \in 1..(n - 1) : f[k] = IF k = 1 THEN ids ELSE More(f[k - 1], upward)
        BY <2>2 DEF Rounds
    <2> DEFINE last == IF n = 1 THEN ids ELSE More(f[n - 1], upward)
               g == [k \in 1..n |-> IF k = n THEN last ELSE f[k]]
    <2>4. n \in Nat /\ (n # 1 => n - 1 \in 1..(n - 1)) BY <1>1, <1>3
    <2>5. last \in SUBSET Node BY <2>3, <2>4 DEF More
    <2>6. \A k \in 1..n : k # n => k \in 1..(n - 1) BY <2>4
    <2> HIDE DEF last
    <2>7. g \in [1..n -> SUBSET Node] BY <2>3, <2>5, <2>6
    <2>8. ASSUME NEW k \in 1..n PROVE g[k] = IF k = 1 THEN ids ELSE More(g[k - 1], upward)
        <3>1. CASE k = 1
            <4>1. CASE n = 1 BY <3>1, <4>1 DEF last
            <4>2. CASE n # 1
                <5>1. k \in 1..(n - 1) /\ k # n BY <3>1, <4>2, <2>6
                <5>2. QED BY <5>1, <3>1, <2>3
            <4>3. QED BY <4>1, <4>2
        <3>2. CASE k # 1
            <4>1. k - 1 \in 1..n /\ k - 1 # n /\ k - 1 \in 1..(n - 1) BY <3>2, <2>4
            <4>2. g[k - 1] = f[k - 1] BY <4>1
            <4>3. CASE k = n
                <5>1. g[k] = More(f[n - 1], upward) BY <3>2, <4>3 DEF last
                <5>2. QED BY <5>1, <4>2, <4>3, <3>2
            <4>4. CASE k # n
                <5>1. k \in 1..(n - 1) /\ g[k] = f[k] BY <4>4, <2>6
                <5>2. QED BY <5>1, <4>2, <3>2, <2>3
            <4>5. QED BY <4>3, <4>4
        <3>3. QED BY <3>1, <3>2
    <2> HIDE DEF g
    <2>9. g \in Rounds(ids, upward, n) BY <2>7, <2>8 DEF Rounds
    <2>10. QED BY <2>9, <1>1
<1>4. QED BY <1>2, <1>3

\* The definition of Walked picks the one of its length.
LEMMA WalkedIs ==
    ASSUME NEW ids \in SUBSET Node, NEW upward \in [Node -> SUBSET Node]
    PROVE  \E f \in Rounds(ids, upward, Cardinality(Node) + 1) :
                Walked(ids, upward) = f[Cardinality(Node) + 1]
<1> DEFINE N == Cardinality(Node) + 1
           Eqn(f) == f = [k \in 1..N |->
                            IF k = 1 THEN ids
                            ELSE f[k - 1] \cup UNION {upward[n] : n \in f[k - 1]}]
<1>1. N \in Nat BY EdgesAssumption, FS_CardinalityType
<1>2. PICK h \in Rounds(ids, upward, N) : TRUE BY <1>1, RoundsExist
<1>3. /\ h \in [1..N -> SUBSET Node]
      /\ \A k \in 1..N : h[k] = IF k = 1 THEN ids
                                ELSE h[k - 1] \cup UNION {upward[n] : n \in h[k - 1]}
    <2> HIDE DEF N
    <2>1. QED BY <1>2 DEF Rounds, More
<1>4. Eqn(h)
    <2> HIDE DEF N
    <2>1. QED BY <1>3
<1>5. PICK g : g = CHOOSE f : Eqn(f) OBVIOUS
<1>6. Eqn(g) BY <1>4, <1>5
<1>7. Walked(ids, upward) = g[N] BY <1>5 DEF Walked
<1>8. /\ DOMAIN g = 1..N /\ g = [k \in 1..N |-> g[k]]
      /\ \A k \in 1..N : g[k] = IF k = 1 THEN ids
                                ELSE g[k - 1] \cup UNION {upward[n] : n \in g[k - 1]}
    <2> HIDE DEF N
    <2>1. g = [k \in 1..N |-> IF k = 1 THEN ids
                              ELSE g[k - 1] \cup UNION {upward[n] : n \in g[k - 1]}]
        BY <1>6
    <2>2. DOMAIN g = 1..N BY <2>1
    <2>3. \A k \in 1..N : g[k] = IF k = 1 THEN ids
                              ELSE g[k - 1] \cup UNION {upward[n] : n \in g[k - 1]}
        BY <2>1
    <2>4. g = [k \in 1..N |-> g[k]] BY <2>1, <2>2
    <2>5. QED BY <2>2, <2>3, <2>4, Zenon
<1> HIDE DEF N, Eqn
<1>9. \A k \in 1..N : g[k] = h[k]
    <2> DEFINE T == {k \in 1..N : g[k] # h[k]}
    <2> SUFFICES ASSUME T # {} PROVE FALSE OBVIOUS
    <2>1. PICK k \in T : \A m \in T : k <= m
        <3>1. T \in SUBSET Nat OBVIOUS
        <3> HIDE DEF T
        <3>2. QED BY <3>1, LeastOf
    <2>2. k # 1 BY <1>3, <1>8
    <2>3. k - 1 \in 1..N /\ k - 1 \notin T BY <2>1, <2>2, <1>1
    <2>4. g[k - 1] = h[k - 1] BY <2>3
    <2>5. g[k] = g[k - 1] \cup UNION {upward[n] : n \in g[k - 1]} BY <2>2, <1>8
    <2>6. h[k] = h[k - 1] \cup UNION {upward[n] : n \in h[k - 1]} BY <2>2, <1>3
    <2>7. QED BY <2>1, <2>4, <2>5, <2>6
<1>10. g = h BY <1>3, <1>8, <1>9
<1>11. QED BY <1>2, <1>7, <1>10 DEF N

\* Walked(ids, upward) is the least set that holds ids and all that is above it: a
\* walk that adds something in every round has every node in the end.
LEMMA WalkedHolds ==
    ASSUME NEW ids \in SUBSET Node, NEW upward \in [Node -> SUBSET Node]
    PROVE  /\ Walked(ids, upward) \in SUBSET Node /\ ids \subseteq Walked(ids, upward)
           /\ \A n \in Walked(ids, upward) : upward[n] \subseteq Walked(ids, upward)
           /\ \A U : ids \subseteq U /\ (\A n \in U \cap Node : upward[n] \subseteq U)
                        => Walked(ids, upward) \subseteq U
<1> DEFINE N == Cardinality(Node) + 1
<1>1. N \in Nat /\ N \in 1..N /\ N - 1 = Cardinality(Node) BY EdgesAssumption, FS_CardinalityType
<1>2. PICK f \in Rounds(ids, upward, N) : Walked(ids, upward) = f[N] BY WalkedIs
<1>3. /\ f \in [1..N -> SUBSET Node]
      /\ \A k \in 1..N : f[k] = IF k = 1 THEN ids ELSE More(f[k - 1], upward)
    <2> HIDE DEF N
    <2>1. QED BY <1>2 DEF Rounds
<1>4. \A k \in 1..N : IsFiniteSet(f[k]) /\ Cardinality(f[k]) \in Nat /\ Cardinality(f[k]) <= N - 1
    <2>1. \A k \in 1..N : f[k] \subseteq Node BY <1>3
    <2>2. QED BY <1>1, <2>1, EdgesAssumption, FS_Subset, FS_CardinalityType
<1>5. f[N] \in SUBSET Node BY <1>1, <1>3
<1> HIDE DEF N
<1>6. ids \subseteq f[N]
    <2> DEFINE T == {k \in 1..N : ~(ids \subseteq f[k])}
    <2>1. T \in SUBSET Nat /\ (T = {} => ids \subseteq f[N]) BY <1>1
    <2> SUFFICES ASSUME T # {} PROVE FALSE BY <2>1
    <2> HIDE DEF T
    <2>2. PICK k \in T : \A m \in T : k <= m BY <2>1, LeastOf
    <2> USE DEF T
    <2>3. k # 1 BY <1>3
    <2>4. k \in 1..N /\ k - 1 \in 1..N /\ k - 1 \notin T BY <2>2, <2>3, <1>1
    <2>5. QED BY <2>2, <2>3, <2>4, <1>3 DEF More
<1>7. ASSUME NEW U, ids \subseteq U, \A n \in U \cap Node : upward[n] \subseteq U
      PROVE  f[N] \subseteq U
    <2> DEFINE T == {k \in 1..N : ~(f[k] \subseteq U)}
    <2>1. T \in SUBSET Nat /\ (T = {} => f[N] \subseteq U) BY <1>1
    <2> SUFFICES ASSUME T # {} PROVE FALSE BY <2>1
    <2> HIDE DEF T
    <2>2. PICK k \in T : \A m \in T : k <= m BY <2>1, LeastOf
    <2> USE DEF T
    <2>3. k # 1 BY <1>3, <1>7
    <2>4. k \in 1..N /\ k - 1 \in 1..N /\ k - 1 \notin T BY <2>2, <2>3, <1>1
    <2>5. f[k - 1] \subseteq U /\ f[k - 1] \subseteq Node BY <2>4, <1>3
    <2>6. More(f[k - 1], upward) \subseteq U BY <2>5, <1>7 DEF More
    <2>7. QED BY <2>2, <2>3, <2>4, <2>6, <1>3
<1>8. More(f[N], upward) = f[N]
    <2> DEFINE Still(k) == More(f[k], upward) = f[k]
               T == {k \in 1..N : ~(Still(k) \/ Cardinality(f[k]) >= k)}
    <2>1. CASE ids = {}
        <3>1. f[N] \subseteq {} BY <2>1, <1>7
        <3>2. QED BY <3>1 DEF More
    <2>2. CASE ids # {} /\ T = {}
        <3>1. Still(N) \/ Cardinality(f[N]) >= N BY <2>2, <1>1
        <3>2. ~(Cardinality(f[N]) >= N) BY <1>1, <1>4
        <3>3. QED BY <3>1, <3>2
    <2>3. CASE ids # {} /\ T # {}
        <3>1. T \in SUBSET Nat OBVIOUS
        <3> HIDE DEF T
        <3>2. PICK k \in T : \A m \in T : k <= m BY <2>3, <3>1, LeastOf
        <3> USE DEF T
        <3>3. k # 1
            <4>1. 1 \in 1..N /\ f[1] = ids BY <1>1, <1>3
            <4>2. Cardinality(ids) # 0 /\ Cardinality(ids) \in Nat
                BY <2>3, <1>4, <4>1, FS_EmptySet
            <4>3. 1 \notin T BY <4>1, <4>2
            <4>4. QED BY <3>2, <4>3
        <3>4. k \in 1..N /\ k - 1 \in 1..N /\ k - 1 \notin T BY <3>2, <3>3, <1>1
        <3>5. f[k] = More(f[k - 1], upward) BY <3>3, <3>4, <1>3
        <3>6. ~Still(k - 1) BY <3>2, <3>5
        <3>7. f[k - 1] \subseteq f[k] /\ f[k - 1] # f[k] BY <3>5, <3>6 DEF More
        <3>8. Cardinality(f[k - 1]) < Cardinality(f[k])
            <4>1. IsFiniteSet(f[k]) /\ k \in 1..N BY <1>4, <3>4
            <4>2. Cardinality(f[k - 1]) <= Cardinality(f[k])
                  /\ Cardinality(f[k - 1]) # Cardinality(f[k])
                BY <4>1, <3>7, FS_Subset
            <4>3. QED BY <4>1, <4>2, <1>4, <3>4
        <3>9. Cardinality(f[k - 1]) >= k - 1 BY <3>4, <3>6
        <3>10. QED BY <3>2, <3>4, <3>8, <3>9, <1>4
    <2>4. QED BY <2>1, <2>2, <2>3
<1>9. \A n \in f[N] : upward[n] \subseteq f[N] BY <1>8 DEF More
<1>10. QED BY <1>2, <1>5, <1>6, <1>7, <1>9
-----------------------------------------------------------------------------
\* What a command adds to the walk of a configuration is what it waits for in a build
\* of everything, itself aside.
LEMMA AddedIsDeclared ==
    ASSUME Jobs = Command, NEW c \in Command
    PROVE  Added(c) \in SUBSET Command /\ Declared(c) = Added(c) \ {c}
<1>1. \A n : Writers(n) = Producers(n) BY DEF Writers, Producers
<1>2. QED BY <1>1 DEF Added, Declared, Writers

\* The walk of a configuration finds all that its commands wait for, and no more.
LEMMA ConfigWalk ==
    ASSUME Jobs = Command, NEW commands \in SUBSET Command
    PROVE  /\ CollectCommandDependencies(commands) = WaitedFor(commands)
           /\ commands \subseteq WaitedFor(commands)
           /\ \A j \in WaitedFor(commands) : Added(j) \subseteq WaitedFor(commands)
<1> DEFINE added == [n \in Node |-> Added(n)]
           found == Walked(commands, added)
<1>1. commands \in SUBSET Node /\ Command \subseteq Node BY DEF Node
<1>2. added \in [Node -> SUBSET Node] /\ \A n \in Node : added[n] \subseteq Command
    BY <1>1 DEF Added, Writers
<1>3. /\ commands \subseteq found
      /\ \A n \in found : added[n] \subseteq found
      /\ \A U : commands \subseteq U /\ (\A n \in U \cap Node : added[n] \subseteq U) => found \subseteq U
    <2> HIDE DEF added
    <2>1. QED BY <1>1, <1>2, WalkedHolds
<1> HIDE DEF found
<1>4. found \subseteq Command BY <1>2, <1>3
<1>5. \A j \in found : Added(j) \subseteq found /\ Declared(j) \subseteq found
    BY <1>1, <1>3, <1>4, AddedIsDeclared
<1>6. WaitedFor(commands) \subseteq found BY <1>3, <1>4, <1>5 DEF WaitedFor
<1>7. ASSUME NEW S \in SUBSET Command, commands \subseteq S, \A j \in S : Declared(j) \subseteq S
      PROVE  found \subseteq S
    <2>1. \A n \in S \cap Node : Added(n) \subseteq S BY <1>7, AddedIsDeclared
    <2>2. QED BY <1>3, <1>7, <2>1
<1>8. found \subseteq WaitedFor(commands) BY <1>4, <1>7 DEF WaitedFor
<1>9. found = WaitedFor(commands) BY <1>6, <1>8
<1>10. QED BY <1>3, <1>5, <1>9 DEF CollectCommandDependencies, found

\* A walk over all nodes comes by the same commands.
LEMMA NodeWalk ==
    ASSUME graph \in Graphs, Jobs = Command, NEW commands \in SUBSET Command
    PROVE  CollectRequiredCommands(commands) = WaitedFor(commands)
<1> DEFINE found  == Walked(commands, Upward)
           needed == WaitedFor(commands)
           above  == needed \cup {f \in File : Writers(f) \subseteq needed}
                         \cup {g \in Group : \A f \in Into(g, graph.data) : Writers(f) \subseteq needed}
<1>1. /\ commands \in SUBSET Node /\ Upward \in [Node -> SUBSET Node]
      /\ \A n \in Node : Upward[n] = Into(n, graph.data) \cup Into(n, graph.order)
    BY DEF Upward, Into, Node
<1>2. /\ found \in SUBSET Node /\ commands \subseteq found
      /\ \A n \in found : Upward[n] \subseteq found
      /\ \A U : commands \subseteq U /\ (\A n \in U \cap Node : Upward[n] \subseteq U) => found \subseteq U
    BY <1>1, WalkedHolds
<1> HIDE DEF found
<1>3. ASSUME NEW c \in found \cap Command PROVE Added(c) \subseteq found \cap Command
    <2>1. \A n \in found : Into(n, graph.data) \subseteq found /\ Into(n, graph.order) \subseteq found
        BY <1>1, <1>2
    <2>2. \A n \in found : Writers(n) \subseteq found \cap Command BY <2>1 DEF Writers
    <2>3. \A n \in Into(c, graph.order) : Members(n) \subseteq found BY <2>1 DEF Members
    <2>4. QED BY <2>1, <2>2, <2>3 DEF Added
<1>4. needed \subseteq found \cap Command
    <2>1. \A j \in found \cap Command : Declared(j) \subseteq found \cap Command
        BY <1>3, AddedIsDeclared
    <2>2. commands \subseteq found \cap Command BY <1>2
    <2>3. QED BY <2>1, <2>2 DEF WaitedFor
<1>5. /\ commands \subseteq needed /\ needed \subseteq Command
      /\ \A j \in needed : Added(j) \subseteq needed
    BY ConfigWalk DEF WaitedFor
<1> HIDE DEF needed
<1>6. /\ \A e \in graph.data : e \in (Command \X File) \cup (File \X (Command \cup Group)) \cup (Command \X Command)
      /\ \A e \in graph.order : e \in (File \cup Group) \X Command
    BY EdgesAssumption
<1>7. ASSUME NEW n \in above \cap Node PROVE Upward[n] \subseteq above
    <2>1. CASE n \in needed
        <3>1. ASSUME NEW m \in Into(n, graph.data) PROVE m \in above
            <4>1. <<m, n>> \in graph.data /\ n \in Command BY <2>1, <1>5 DEF Into
            <4>2. m \in Command \cup File BY <4>1, <1>6, KindsAssumption
            <4>3. m \in Command => m \in Added(n) BY DEF Added
            <4>4. m \in File => Writers(m) \subseteq Added(n) BY KindsAssumption DEF Added
            <4>5. QED BY <4>2, <4>3, <4>4, <2>1, <1>5
        <3>2. ASSUME NEW m \in Into(n, graph.order) PROVE m \in above
            <4>1. m \in File \cup Group BY <1>6 DEF Into
            <4>2. \A f \in Members(m) : Writers(f) \subseteq Added(n) BY DEF Added
            <4>3. CASE m \in File
                <5>1. m \in Members(m) BY <4>3, KindsAssumption DEF Members
                <5>2. QED BY <5>1, <4>2, <4>3, <2>1, <1>5
            <4>4. CASE m \in Group BY <4>4, <4>2, <2>1, <1>5 DEF Members
            <4>5. QED BY <4>1, <4>3, <4>4
        <3>3. QED BY <3>1, <3>2, <1>1
    <2>2. CASE n \in File /\ Writers(n) \subseteq needed
        <3>1. Into(n, graph.order) = {} /\ Into(n, graph.data) \subseteq Command
            BY <2>2, <1>6, KindsAssumption DEF Into
        <3>2. QED BY <3>1, <2>2, <1>1 DEF Writers
    <2>3. CASE n \in Group /\ \A f \in Into(n, graph.data) : Writers(f) \subseteq needed
        <3>1. Into(n, graph.order) = {} /\ Into(n, graph.data) \subseteq File
            BY <2>3, <1>6, KindsAssumption DEF Into
        <3>2. QED BY <3>1, <2>3, <1>1
    <2>4. QED BY <2>1, <2>2, <2>3
<1>8. found \subseteq above BY <1>2, <1>5, <1>7
<1>9. above \cap Command = needed BY <1>5, KindsAssumption
<1>10. QED BY <1>4, <1>8, <1>9 DEF CollectRequiredCommands, found, needed

\* A walk from the inputs of a scope is one from its commands.
LEMMA ScopeWalk ==
    ASSUME NEW commands \in SUBSET Command
    PROVE  WalkUpstreamFromScope(commands) = Walked(commands, Upward)
<1> DEFINE found == Walked(commands, Upward)
           inputs == UNION {Upward[c] : c \in commands}
           above == Walked(inputs, Upward)
<1>1. /\ commands \in SUBSET Node /\ Upward \in [Node -> SUBSET Node] BY DEF Upward, Into, Node
<1>2. inputs \in SUBSET Node BY <1>1
<1>3. /\ found \in SUBSET Node /\ commands \subseteq found
      /\ \A n \in found : Upward[n] \subseteq found
      /\ \A U : commands \subseteq U /\ (\A n \in U \cap Node : Upward[n] \subseteq U) => found \subseteq U
    BY <1>1, WalkedHolds
<1> HIDE DEF inputs
<1>4. /\ inputs \subseteq above
      /\ \A n \in above : Upward[n] \subseteq above
      /\ \A U : inputs \subseteq U /\ (\A n \in U \cap Node : Upward[n] \subseteq U) => above \subseteq U
    BY <1>1, <1>2, WalkedHolds
<1> HIDE DEF found, above
<1> USE DEF inputs
<1>5. inputs \subseteq found BY <1>3
<1>6. above \subseteq found BY <1>3, <1>4, <1>5
<1>7. \A n \in commands \cup above : Upward[n] \subseteq commands \cup above BY <1>4
<1>8. found \subseteq commands \cup above BY <1>3, <1>7
<1>9. QED BY <1>3, <1>6, <1>8 DEF WalkUpstreamFromScope, found, above

(***************************************************************************)
(* Whatever the graph, a configuration, a target and a scope come to the   *)
(* commands theirs wait for, and a scope to all that these read            *)
(* (collect_command_dependencies, collect_required_commands,               *)
(* collect_scope_with_upstream_commands, collect_upstream_files).          *)
(***************************************************************************)
THEOREM WalksMeet == Spec => []WalksAgree
<1>1. graph \in Graphs => WalksAgree
    <2> SUFFICES ASSUME graph \in Graphs, Jobs = Command, NEW configs \in SUBSET File
                 PROVE  LET commands == FindConfigCommands(configs)
                            needed   == WaitedFor(commands)
                        IN  /\ CollectCommandDependencies(commands) = needed
                            /\ CollectRequiredCommands(commands) = needed
                            /\ CollectScopeWithUpstreamCommands(commands) = needed
                            /\ (UNION {Into(c, graph.data) : c \in needed}) \cap File
                                   \subseteq CollectUpstreamFiles(commands)
        BY DEF WalksAgree
    <2> DEFINE commands == FindConfigCommands(configs)
               found == Walked(commands, Upward)
    <2>1. commands \in SUBSET Command BY DEF FindConfigCommands
    <2> HIDE DEF commands
    <2>2. /\ CollectCommandDependencies(commands) = WaitedFor(commands)
          /\ CollectRequiredCommands(commands) = WaitedFor(commands)
        BY <2>1, ConfigWalk, NodeWalk
    <2>3. WalkUpstreamFromScope(commands) = found BY <2>1, ScopeWalk
    <2>4. found \cap Command = WaitedFor(commands) BY <2>2 DEF CollectRequiredCommands
    <2>5. CollectScopeWithUpstreamCommands(commands) = WaitedFor(commands)
        BY <2>3, <2>4 DEF CollectScopeWithUpstreamCommands
    <2>6. /\ found \subseteq Node /\ \A n \in found : Upward[n] \subseteq found
        <3>1. commands \in SUBSET Node /\ Upward \in [Node -> SUBSET Node]
            BY <2>1 DEF Upward, Into, Node
        <3>2. QED BY <3>1, WalkedHolds
    <2> HIDE DEF found
    <2>7. \A c \in WaitedFor(commands) : Into(c, graph.data) \subseteq found
        BY <2>4, <2>6 DEF Upward
    <2>8. QED BY <2>2, <2>3, <2>5, <2>7 DEF CollectUpstreamFiles, commands
<1>2. SearchInv => graph \in Graphs BY DEF SearchInv, SearchTypes
<1>3. QED BY <1>1, <1>2, SearchInvariance, PTL
=============================================================================
