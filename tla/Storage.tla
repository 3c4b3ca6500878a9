------------------------------ MODULE Storage ------------------------------
(***************************************************************************)
(* The bump region of the program and the vectors that live in it          *)
(* (src/src/core/bump_alloc.cpp, src/include/pup/core/vec.hpp,             *)
(* src/src/core/sorted_id_vec.cpp): memory is handed out from the bottom   *)
(* up and never returned, except that the block on top may be extended in  *)
(* place, or given back when its vector dies.  An element takes one cell   *)
(* of the region, and what a move of elements inside a block leaves behind *)
(* them is left as it was.                                                 *)
(***************************************************************************)
EXTENDS StorageSizes

VARIABLES
    used,       \* the cells handed out are those below
    committed,  \* those below may be touched
    mem,
    vec,        \* vec[v]: [data, capacity, size]
    others      \* the blocks of operator new, [data, size]: never given back

vars == <<used, committed, mem, vec, others>>

Null  == -1
Empty == [data |-> Null, capacity |-> 0, size |-> 0]
Cells == 0..(Reserved - 1)

Init ==
    /\ used = 0 /\ committed = 0
    /\ mem = [a \in Cells |-> 0]
    /\ vec = [v \in Vec |-> Empty]
    /\ others = {}

End(v) == vec[v].data + vec[v].capacity
Reads(v) == [i \in 0..(vec[v].size - 1) |-> mem[vec[v].data + i]]
-----------------------------------------------------------------------------
RoundUp(n, p) == n + ((p - (n % p)) % p)

\* The region's top moves to end; past the reserved space the program aborts.
Take(end) ==
    /\ end <= Reserved
    /\ used' = end
    /\ committed' = IF end > committed THEN RoundUp(end, Page) ELSE committed

OnTop(v) == vec[v].data # Null /\ End(v) = used
\* Mutant: whether it is on top is not asked.
ExtendsInto(v, n) == vec[v].data # Null /\ vec[v].data + n <= Reserved
Extends(v, n) == OnTop(v) /\ vec[v].data + n <= Reserved

\* v's block goes back when it is the one on top.
\* Mutant: whether it is on top is not asked.
GiveBackAlways(v) == used' = IF vec[v].data # Null THEN vec[v].data ELSE used
GiveBack(v) == used' = IF OnTop(v) THEN vec[v].data ELSE used

\* Memory for the rest of the program: never freed.
Allocate ==
    \E r \in Requests :
        /\ Take(RoundUp(used, r.align) + r.size)
        /\ others' = others \cup {[data |-> RoundUp(used, r.align), size |-> r.size]}
        /\ UNCHANGED <<mem, vec>>
-----------------------------------------------------------------------------
\* The capacity with which v holds n elements, one more than it has if sorted.
Larger(m, n) == IF m < n THEN n ELSE m
VecCapacity(v, n) == Larger(vec[v].capacity + vec[v].capacity \div 2 + Slack, n)
SortedCapacity(v) == IF vec[v].capacity = 0 THEN First ELSE 2 * vec[v].capacity
Capacity(v, n) == IF n <= vec[v].capacity THEN vec[v].capacity
                  ELSE IF v \in SortedVec THEN SortedCapacity(v) ELSE VecCapacity(v, n)

\* v's block gets room for n: as it is, extended in place, or another block, the
\* old one abandoned.
Home(v, n) == IF n = vec[v].capacity \/ Extends(v, n) THEN vec[v].data ELSE used
Room(v, n) == IF n = vec[v].capacity THEN UNCHANGED <<used, committed>> ELSE Take(Home(v, n) + n)

\* v has these n elements, at home in a block of this capacity.
Filled(v, home, capacity, n, f) ==
    /\ vec' = [vec EXCEPT ![v] = [data |-> home, capacity |-> capacity, size |-> n]]
    /\ mem' = [a \in Cells |-> IF a - home \in 0..(n - 1) THEN f[a - home] ELSE mem[a]]
    /\ UNCHANGED others
Stored(v, capacity, n, f) == Room(v, capacity) /\ Filled(v, Home(v, capacity), capacity, n, f)

InsertAt(v, i, g, k) ==
    /\ vec[v].size + k <= MaxSize
    /\ Stored(v, Capacity(v, vec[v].size + k), vec[v].size + k, Inserted(Reads(v), vec[v].size, i, g, k))
EraseAt(v, i, r) ==
    Stored(v, vec[v].capacity, vec[v].size - r, Removed(Reads(v), vec[v].size, i, r))
-----------------------------------------------------------------------------
\* The operations of Vec.
PushBack == \E v \in Vec \ SortedVec : \E g \in Contents(1) : InsertAt(v, vec[v].size, g, 1)
PopBack  == \E v \in Vec \ SortedVec : vec[v].size > 0 /\ EraseAt(v, vec[v].size - 1, 1)
Insert ==
    \E v \in Vec \ SortedVec, k \in 1..MaxSize : \E i \in 0..vec[v].size, g \in Contents(k) :
        InsertAt(v, i, g, k)
Erase ==
    \E v \in Vec \ SortedVec : \E i \in 0..vec[v].size : \E r \in 1..(vec[v].size - i) :
        EraseAt(v, i, r)
Reserve ==
    \E v \in Vec \ SortedVec, n \in 1..MaxSize :
        n > vec[v].capacity /\ Stored(v, n, vec[v].size, Reads(v))
Zeros(k) == [i \in 0..(k - 1) |-> 0]
Resize ==
    \E v \in Vec \ SortedVec, n \in 0..MaxSize :
        IF n > vec[v].size THEN InsertAt(v, vec[v].size, Zeros(n - vec[v].size), n - vec[v].size)
        ELSE EraseAt(v, n, vec[v].size - n)
Clear == \E v \in Vec : EraseAt(v, 0, vec[v].size)

\* v becomes a copy of w: in its own block, or in a new one.
CopyFrom(v, w) ==
    IF vec[w].size <= vec[v].capacity
    THEN /\ UNCHANGED <<used, committed>>
         /\ Filled(v, vec[v].data, vec[v].capacity, vec[w].size, Reads(w))
    ELSE /\ Take(used + vec[w].size)
         /\ Filled(v, used, vec[w].size, vec[w].size, Reads(w))
Copy == \E v, w \in Vec \ SortedVec : v # w /\ CopyFrom(v, w)

\* v takes w's block.  A Vec gives its own back, a sorted one forgets it.
TakeOver(v, w) ==
    /\ vec' = [vec EXCEPT ![v] = vec[w], ![w] = Empty]
    /\ UNCHANGED <<committed, mem, others>>
Move == \E v, w \in Vec \ SortedVec : v # w /\ GiveBack(v) /\ TakeOver(v, w)

Destroy ==
    \E v \in Vec :
        /\ GiveBack(v)
        /\ vec' = [vec EXCEPT ![v] = Empty]
        /\ UNCHANGED <<committed, mem, others>>
-----------------------------------------------------------------------------
\* The operations of the sorted ones, wherever the element belongs.
SortedInsert == \E v \in SortedVec : \E i \in 0..vec[v].size, g \in Contents(1) : InsertAt(v, i, g, 1)
SortedRemove == \E v \in SortedVec : \E i \in 0..(vec[v].size - 1) : EraseAt(v, i, 1)
SortedMove   == \E v, w \in SortedVec : v # w /\ UNCHANGED used /\ TakeOver(v, w)

Next ==
    \/ Allocate \/ PushBack \/ PopBack \/ Insert \/ Erase \/ Reserve \/ Resize
    \/ Clear \/ Copy \/ Move \/ Destroy \/ SortedInsert \/ SortedRemove \/ SortedMove

Spec == Init /\ [][Next]_vars
-----------------------------------------------------------------------------
TypeOK ==
    /\ used \in 0..Reserved /\ committed \in 0..Reserved
    /\ mem \in [Cells -> Value]
    /\ vec \in [Vec -> [data : Cells \cup {Null}, capacity : Nat, size : Nat]]
    /\ others \in SUBSET [data : Nat, size : Nat]

\* The block of a vector, and one of the rest of the program.
Fits(v) ==
    /\ vec[v].size <= vec[v].capacity
    /\ vec[v].data = Null <=> vec[v].capacity = 0
    /\ vec[v].data # Null => End(v) <= used
Apart(v, w) ==
    vec[v].data # Null /\ vec[w].data # Null => End(v) <= vec[w].data \/ End(w) <= vec[v].data
Clears(v, b) ==
    vec[v].data # Null => End(v) <= b.data \/ b.data + b.size <= vec[v].data

(***************************************************************************)
(* No two live blocks share a cell, all lie below the top, and all that is *)
(* below the top may be touched.                                           *)
(***************************************************************************)
Disjoint ==
    /\ used <= committed
    /\ \A v \in Vec : Fits(v)
    /\ \A v, w \in Vec : v # w => Apart(v, w)
    /\ \A b \in others :
           b.size > 0 => b.data + b.size <= used /\ \A v \in Vec : Clears(v, b)

\* What the vectors promise, read from their blocks.
V == INSTANCE VectorValues WITH
        length <- [v \in Vec |-> vec[v].size], content <- [v \in Vec |-> Reads(v)]

\* Whatever happens to its neighbours, a vector holds what was put in it.
ImplementsVectorValues == V!VSpec

\* No operation on a vector writes into a block of the rest of the program.
OthersKept == \A b \in others : \A a \in b.data..(b.data + b.size - 1) : mem'[a] = mem[a]

\* In every step the blocks stay apart, and one vector changes as it should.
KeepsElements == TypeOK' /\ Disjoint' /\ OthersKept /\ [V!VNext]_V!vvars
=============================================================================
