----------------------------- MODULE GraphEdges -----------------------------
(***************************************************************************)
(* The edges of the graph and how a node's are found again: each edge is   *)
(* appended to a list of its source's and one of its target's, which lie   *)
(* in one arena in blocks of a power of two and move when they are full    *)
(* (add_edge, edges_for_each of src/src/graph/dag.cpp and dag.hpp, Arena32 *)
(* and NodeIdArenaIndex).                                                  *)
(***************************************************************************)
EXTENDS IdTables

CONSTANTS
    Candidates,  \* edges that may be added: [from, to, type]
    MaxFiles, MaxCommands,  \* bounds
    MaxEdges

VARIABLES
    files, commands,  \* how many there are; file 0 is the source root
    edges,            \* [from, to, type], from index 0
    arena,            \* [cells, size]
    from, to          \* a node's list of edges: [offset, length], two NodeIdMap32

vars == <<files, commands, edges, arena, from, to>>

MostListed == 536870912  \* 2^29 edges: the arena's offsets stay within 32 bits
GraphAssumption ==
    /\ WordBits \in Nat \ {0} /\ PageCells \in Nat \ {0}
    /\ {"file", "command"} \subseteq Kinds
    /\ \A e \in Candidates :
        DOMAIN e = {"from", "to", "type"} /\ {e.from, e.to} \subseteq [kind : Kinds, index : Nat]
    /\ MaxFiles \in Nat /\ MaxCommands \in Nat /\ MaxEdges \in 0..MostListed
-----------------------------------------------------------------------------
NodeOf(kind, i) == [kind |-> kind, index |-> i]
Valid(id) ==
    \/ id.kind = "file" /\ id.index < files
    \/ id.kind = "command" /\ id.index \in 1..(commands - 1)

NoSlice == [offset |-> 0, length |-> 0]
SliceOf(index, id) ==
    IF MapHas(index.offset, id)
    THEN [offset |-> MapGet(index.offset, id), length |-> MapGet(index.length, id)] ELSE NoSlice
SetSlice(index, id, s) ==
    [offset |-> MapSet(index.offset, id, s.offset), length |-> MapSet(index.length, id, s.length)]

\* A list of 1, 2, 4.. elements fills its block.
PowersOfTwo == {m * n : m \in {1, 2, 4, 8, 16, 32}, n \in {1, 64, 4096, 262144, 16777216}}
\* Mutant: a list of two is taken to have room.
SparePastOne(s) == s.length > 1 /\ s.length \notin PowersOfTwo \ {2}
HasSpare(s) == s.length > 0 /\ s.length \notin PowersOfTwo
BlockFor(s) == IF s.length = 0 THEN 1 ELSE 2 * s.length
\* append_extend: the arena, and the list in it, with one element more.
AppendExtend(a, s, v) ==
    IF HasSpare(s)
    THEN [arena |-> [a EXCEPT !.cells[s.offset + s.length + 1] = v],
          slice |-> [s EXCEPT !.length = @ + 1]]
    ELSE LET grown == Grown(a.cells, a.size + BlockFor(s), 0)
             moved == [i \in DOMAIN grown |->
                          IF i \in (a.size + 1)..(a.size + s.length) THEN grown[s.offset + i - a.size]
                          ELSE IF i = a.size + s.length + 1 THEN v ELSE grown[i]]
         IN  [arena |-> [cells |-> moved, size |-> a.size + BlockFor(s)],
              slice |-> [offset |-> a.size, length |-> s.length + 1]]
Listed(a, s) == [k \in 1..s.length |-> a.cells[s.offset + k]]
-----------------------------------------------------------------------------
NoIndex == [offset |-> NoMap, length |-> NoMap]
Init ==
    /\ files = 2 /\ commands = 0
    /\ edges = <<>> /\ arena = [cells |-> <<>>, size |-> 0]
    /\ from = NoIndex /\ to = NoIndex

AddFileNode ==
    /\ files < MaxFiles /\ files' = files + 1
    /\ UNCHANGED <<commands, edges, arena, from, to>>
\* Commands are numbered from 1.
AddCommandNode ==
    /\ commands <= MaxCommands /\ commands' = IF commands = 0 THEN 2 ELSE commands + 1
    /\ UNCHANGED <<files, edges, arena, from, to>>

Enter(index, a, id) == AppendExtend(a, SliceOf(index, id), Len(edges))
AddEdge ==
    \E e \in Candidates :
        /\ Len(edges) < MaxEdges
        /\ Valid(e.from) /\ Valid(e.to)
        /\ edges' = Append(edges, e)
        /\ LET first  == Enter(from, arena, e.from)
               second == Enter(to, first.arena, e.to)
           IN  /\ arena' = second.arena
               /\ from' = SetSlice(from, e.from, first.slice)
               /\ to' = SetSlice(to, e.to, second.slice)
        /\ UNCHANGED <<files, commands>>

Next == AddFileNode \/ AddCommandNode \/ AddEdge
Spec == Init /\ [][Next]_vars
-----------------------------------------------------------------------------
\* The elements of a sequence that are in S, in its order.
Kept(s, S) ==
    LET kept[k \in 0..Len(s)] ==
            IF k = 0 THEN <<>>
            ELSE IF s[k] \in S THEN Append(kept[k - 1], s[k]) ELSE kept[k - 1]
    IN  kept[Len(s)]
Indices == 0..(Len(edges) - 1)
OfTypes(types) == {i \in Indices : edges[i + 1].type \in types}

\* edges_for_each, and the queries made of it.
EdgesOf(index, id, types) == Kept(Listed(arena, SliceOf(index, id)), OfTypes(types))
Forward(id, types) == [k \in DOMAIN EdgesOf(from, id, types) |-> edges[EdgesOf(from, id, types)[k] + 1].to]
Backward(id, types) == [k \in DOMAIN EdgesOf(to, id, types) |-> edges[EdgesOf(to, id, types)[k] + 1].from]

(***************************************************************************)
(* Every node finds the far ends of its own edges, in the order they were  *)
(* added, of each set of types, forward and backward: no list runs into    *)
(* another's block, however lists grow in turn and nodes come between      *)
(* (add_edge, append_extend, edges_for_each).                              *)
(***************************************************************************)
InOrder == [i \in 1..Len(edges) |-> i - 1]
Leaving(id, types) == Kept(InOrder, {i \in OfTypes(types) : edges[i + 1].from = id})
Entering(id, types) == Kept(InOrder, {i \in OfTypes(types) : edges[i + 1].to = id})
NodesFound == {NodeOf("file", i) : i \in 0..(files - 1)} \cup {NodeOf("command", i) : i \in 1..(commands - 1)}
EdgesAreFound ==
    \A id \in NodesFound, types \in SUBSET {e.type : e \in Candidates} :
        /\ Forward(id, types) =
               [k \in DOMAIN Leaving(id, types) |-> edges[Leaving(id, types)[k] + 1].to]
        /\ Backward(id, types) =
               [k \in DOMAIN Entering(id, types) |-> edges[Entering(id, types)[k] + 1].from]
=============================================================================
