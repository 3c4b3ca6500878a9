------------------------------ MODULE Interner ------------------------------
(***************************************************************************)
(* The tables every name and path of the program goes through: a Robin     *)
(* Hood index from hashes to numbers, the pool of strings, and the pool of *)
(* paths built on both (src/src/core/robin_hood_index.cpp, string_pool.cpp,*)
(* path_pool.cpp).  A string is a sequence of components, one for a name   *)
(* and more for names joined by "/"; a path is cut into components, some   *)
(* of them empty or ".".                                                   *)
(***************************************************************************)
EXTENDS Integers, FiniteSets, SequencesExt

CONSTANTS
    Strings,         \* what may be interned by itself
    Skipped,         \* the components "" and ".", which do not count
    Paths,           \* sequences of components
    Seeds, HashString(_, _),  \* fnv1a: any function, one for each seed
    EdgeHash(_, _),  \* the hash of a parent and a name
    MinSlots,        \* the first capacity of an index, 16
    MaxEntries       \* bound: a pool grows no larger

VARIABLES
    seed,      \* the hash function of this behaviour
    index,     \* the table of the string pool
    strings,   \* its entries, from 1
    children,  \* the table of the path pool
    nodes,     \* its entries, from 3: [parent, name]
    interned,  \* history: the strings interned since the pool was cleared
    made       \* history: the paths that were, [root, path]

vars == <<seed, index, strings, children, nodes, interned, made>>

Free     == [hash |-> 0, displacement |-> 0, value |-> 0]
NoTable  == [capacity |-> 0, count |-> 0, slots |-> <<>>]
NotFound == -1
-----------------------------------------------------------------------------
\* Mutant: a caller's hash 0 stays what marks a free slot.
FixNothing(h) == h
\* Hash 0 marks a free slot, and 1 is kept out too.
FixHash(h) == IF h < 2 THEN h + 2 ELSE h
NextSlot(t, i) == (i + 1) % t.capacity

\* Where h is looked for: up to a free slot, or one nearer to its own home.
RECURSIVE Probe(_, _, _, _, _)
Probe(t, h, matching, i, distance) ==
    CASE t.slots[i].hash = 0 -> NotFound
      [] t.slots[i].hash # 0 /\ t.slots[i].displacement < distance -> NotFound
      [] /\ t.slots[i].displacement >= distance
         /\ t.slots[i].hash = h /\ t.slots[i].value \in matching -> t.slots[i].value
      [] OTHER -> Probe(t, h, matching, NextSlot(t, i), distance + 1)
\* The value under this hash whose key is the one looked for.
FindIn(t, h, matching) ==
    IF t.capacity = 0 THEN NotFound
    ELSE Probe(t, FixHash(h), matching, FixHash(h) % t.capacity, 0)

\* The entry takes the first free slot, or that of one nearer to its home, which
\* moves on instead.
RECURSIVE Place(_, _, _)
Place(t, e, i) ==
    CASE t.slots[i].hash = 0 -> [t EXCEPT !.slots[i] = e]
      [] t.slots[i].hash # 0 /\ t.slots[i].displacement < e.displacement ->
             Place([t EXCEPT !.slots[i] = e],
                   [t.slots[i] EXCEPT !.displacement = @ + 1], NextSlot(t, i))
      [] OTHER -> Place(t, [e EXCEPT !.displacement = @ + 1], NextSlot(t, i))
ProbeInsert(t, h, v) ==
    Place(t, [hash |-> h, displacement |-> 0, value |-> v], h % t.capacity)

RECURSIVE Refill(_, _, _)
Refill(t, old, i) ==
    IF i = old.capacity THEN t
    ELSE Refill(IF old.slots[i].hash >= 2 THEN ProbeInsert(t, old.slots[i].hash, old.slots[i].value)
                ELSE t, old, i + 1)
Rebuild(t, n) == Refill([t EXCEPT !.capacity = n, !.slots = [i \in 0..(n - 1) |-> Free]], t, 0)

InsertIn(t, h, v) ==
    LET roomy == IF t.count >= (t.capacity * 4) \div 5
                 THEN Rebuild(t, IF t.capacity = 0 THEN MinSlots ELSE 2 * t.capacity) ELSE t
    IN  [ProbeInsert(roomy, FixHash(h), v) EXCEPT !.count = @ + 1]

RECURSIVE PowerFrom(_, _)
PowerFrom(p, n) == IF p >= n THEN p ELSE PowerFrom(2 * p, n)
RoomFor(t, count) ==
    LET needed == ((count * 5) \div 4) + 1
        n == PowerFrom(1, IF needed < MinSlots THEN MinSlots ELSE needed)
    IN  IF n <= t.capacity THEN t ELSE Rebuild(t, n)
-----------------------------------------------------------------------------
\* The string pool p = [index, strings].
KeyOf(p, s) == {i \in 1..Len(p.strings) : p.strings[i] = s}
FindString(p, s) == FindIn(p.index, HashString(seed, s), KeyOf(p, s))
InternString(p, s) ==
    IF FindString(p, s) # NotFound THEN p
    ELSE [index |-> InsertIn(p.index, HashString(seed, s), Len(p.strings) + 1), strings |-> Append(p.strings, s)]
Pool == [index |-> index, strings |-> strings]

\* The path pool q = [pool, children, nodes], and the path cur it has come to.
Roots == 0..2
RootNodes == [i \in Roots |-> [parent |-> i, name |-> 0]]
Size(q) == Len(q.nodes) + 3
Node(q, i) == IF i \in Roots THEN RootNodes[i] ELSE q.nodes[i - 2]
FindChild(q, parent, name) ==
    FindIn(q.children, EdgeHash(parent, name),
           {i \in 3..(Size(q) - 1) : Node(q, i) = [parent |-> parent, name |-> name]})
InternChild(q, name) ==
    IF FindChild(q, q.cur, name) # NotFound THEN [q EXCEPT !.cur = FindChild(q, q.cur, name)]
    ELSE [q EXCEPT !.children = InsertIn(q.children, EdgeHash(q.cur, name), Size(q)),
                   !.nodes = Append(@, [parent |-> q.cur, name |-> name]),
                   !.cur = Size(q)]

\* intern_path goes down from cur, making the children that are missing;
\* components "" and "." do not count.
Counted(path) == SelectSeq(path, LAMBDA c : c \notin Skipped)
InternComponent(q, c) ==
    LET p == InternString(q.pool, <<c>>)
    IN  InternChild([q EXCEPT !.pool = p], FindString(p, <<c>>))
InternDown(q, path) == FoldLeft(InternComponent, q, Counted(path))

\* find_path makes nothing, and ends where something is missing.
FindComponent(q, c) ==
    LET name == FindString(q.pool, <<c>>)
    IN  [q EXCEPT !.cur = IF q.cur = NotFound \/ name = NotFound THEN NotFound ELSE FindChild(q, q.cur, name)]
FindDown(q, path) == FoldLeft(FindComponent, q, Counted(path)).cur

\* The names from the root down to a node, and that root.
RECURSIVE NamesOf(_, _)
NamesOf(q, i) == IF i \in Roots THEN <<>> ELSE Append(NamesOf(q, Node(q, i).parent), Node(q, i).name)
RECURSIVE RootOf(_, _)
RootOf(q, i) == IF i \in Roots THEN i ELSE RootOf(q, Node(q, i).parent)
\* What to_string spells: the names, joined.
Spelled(q, i) == FlattenSeq([k \in DOMAIN NamesOf(q, i) |-> q.pool.strings[NamesOf(q, i)[k]]])
\* to_string interns what it spells; a name of its own is interned already.
InternSpelled(q, i) == IF i \in Roots THEN q.pool ELSE InternString(q.pool, Spelled(q, i))

\* ground goes down the same names from another root.
GroundUnder(q, i, root) == FoldLeft(InternChild, [q EXCEPT !.cur = root], NamesOf(q, i))

Pools(cur) == [pool |-> Pool, children |-> children, nodes |-> nodes, cur |-> cur]
-----------------------------------------------------------------------------
Init ==
    /\ seed \in Seeds
    /\ index = NoTable /\ strings = <<>>
    /\ children = NoTable /\ nodes = <<>>
    /\ interned = {} /\ made = {}

Become(q) ==
    /\ index' = q.pool.index /\ strings' = q.pool.strings
    /\ children' = q.children /\ nodes' = q.nodes
    /\ Len(strings') <= MaxEntries /\ Len(nodes') <= MaxEntries
    /\ UNCHANGED seed

Intern ==
    \E s \in Strings :
        /\ Become([Pools(0) EXCEPT !.pool = InternString(Pool, s)])
        /\ interned' = interned \cup {s} /\ UNCHANGED made

Known == 0..(Size(Pools(0)) - 1)
PathOf(i, path) == [root |-> RootOf(Pools(0), i), path |-> Spelled(Pools(0), i) \o path]
Below(i, path) == {PathOf(i, SubSeq(path, 1, k)) : k \in 1..Len(path)}
InternPath ==
    \E path \in Paths, start \in Known :
        /\ Become(InternDown(Pools(start), path))
        /\ interned' = interned \cup {<<Counted(path)[k]>> : k \in DOMAIN Counted(path)}
        /\ made' = made \cup Below(start, Counted(path))

SpellOut ==
    \E i \in Known \ Roots :
        /\ Become([Pools(0) EXCEPT !.pool = InternSpelled(Pools(0), i)])
        /\ interned' = interned \cup {Spelled(Pools(0), i)} /\ UNCHANGED made

\* A path without a root is put under one.
Ground ==
    \E i \in Known \ Roots, root \in {1, 2} :
        /\ RootOf(Pools(0), i) = 0
        /\ Become(GroundUnder(Pools(0), i, root))
        /\ made' = made \cup Below(root, Spelled(Pools(0), i))
        /\ UNCHANGED interned

Reserve ==
    \E n \in 1..MaxEntries :
        /\ Become([Pools(0) EXCEPT !.pool.index = RoomFor(index, n)])
        /\ UNCHANGED <<interned, made>>

\* The path pool is cleared with the strings its names are in, or alone.
ClearPaths ==
    /\ children' = NoTable /\ nodes' = <<>> /\ made' = {}
    /\ UNCHANGED <<seed, index, strings, interned>>
Clear ==
    /\ children' = NoTable /\ nodes' = <<>> /\ made' = {}
    /\ index' = NoTable /\ strings' = <<>> /\ interned' = {}
    /\ UNCHANGED seed

Next == Intern \/ InternPath \/ SpellOut \/ Ground \/ Reserve \/ ClearPaths \/ Clear
Spec == Init /\ [][Next]_vars
-----------------------------------------------------------------------------
(***************************************************************************)
(* A string is found exactly if it was interned, under a number that gives *)
(* it back, and a path exactly if it or one below it was, under the number *)
(* of one node, spelled as it was but for what does not count: whatever    *)
(* the hashes, in whatever order entries displaced each other and tables   *)
(* grew (RobinHoodIndex, StringPool, PathPool).                            *)
(***************************************************************************)
StringsAgree ==
    /\ Len(strings) = Cardinality(interned)
    /\ \A s \in Strings :
           LET found == FindString(Pool, s)
           IN  IF s \in interned THEN found # NotFound /\ strings[found] = s ELSE found = NotFound
PathsAgree ==
    /\ Len(nodes) = Cardinality(made)
    /\ \A path \in Paths, start \in Known :
           LET found  == FindDown(Pools(start), path)
               wanted == PathOf(start, Counted(path))
           IN  IF wanted \in made \/ Counted(path) = <<>>
               THEN found \in Known /\ PathOf(found, <<>>) = wanted
               ELSE found = NotFound
PoolsAgree == StringsAgree /\ PathsAgree
=============================================================================
