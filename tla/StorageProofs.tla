--------------------------- MODULE StorageProofs ---------------------------
(***************************************************************************)
(* The blocks of Storage stay apart and its vectors hold what was put in   *)
(* them, for any vectors, values, sizes and pages; the lists of edges of   *)
(* GraphEdges stay apart in their arena, for any edges.                    *)
(***************************************************************************)
EXTENDS Storage, SequenceTheorems, WellFoundedInduction, TLAPS

CONSTANTS Kinds, WordBits, PageCells, Candidates, MaxFiles, MaxCommands, MaxEdges
VARIABLES files, commands, edges, arena, from, to
E == INSTANCE GraphEdges

Inv == TypeOK /\ Disjoint
-----------------------------------------------------------------------------
(* Rounding up to a page stays inside a reservation of whole pages. *)

LEMMA Division ==
    ASSUME NEW n \in Nat, NEW p \in Nat \ {0}
    PROVE  n % p \in 0..(p - 1) /\ n = p * (n \div p) + (n % p) /\ n \div p \in Nat
  BY SMT

LEMMA WholePages ==
    ASSUME NEW p \in Nat \ {0}, NEW q \in Nat, NEW k \in Nat, NEW r \in 1..(p - 1),
           p * q + r <= p * k
    PROVE  p * q + p <= p * k
<1>1. q < k
  <2>1. SUFFICES ASSUME k <= q PROVE FALSE OBVIOUS
  <2>2. p * k <= p * q BY <2>1, SMT
  <2> QED BY <2>2, SMT
<1>2. p * (q + 1) <= p * k BY <1>1, SMT
<1>3. p * (q + 1) = p * q + p BY SMT
<1> QED BY <1>2, <1>3

LEMMA RoundUpValue ==
    ASSUME NEW n \in Nat, NEW p \in Nat \ {0}
    PROVE  RoundUp(n, p) = IF n % p = 0 THEN n ELSE n + p - (n % p)
<1>1. n % p \in 0..(p - 1) BY Division
<1>2. CASE n % p = 0
  <2>1. p % p = 0 BY SMT
  <2> QED BY <1>2, <2>1 DEF RoundUp
<1>3. CASE n % p # 0
  <2>1. p - (n % p) \in 1..(p - 1) BY <1>1, <1>3
  <2>2. (p - (n % p)) % p = p - (n % p) BY <2>1, SMT
  <2> QED BY <1>1, <1>3, <2>2 DEF RoundUp
<1> QED BY <1>2, <1>3

LEMMA RoundUpBounds ==
    ASSUME NEW n \in Nat, NEW p \in Nat \ {0}
    PROVE  RoundUp(n, p) \in Nat /\ n <= RoundUp(n, p)
<1>1. n % p \in 0..(p - 1) BY Division
<1> QED BY <1>1, RoundUpValue

LEMMA RoundUpStaysInside ==
    ASSUME NEW n \in Nat, NEW p \in Nat \ {0}, NEW m \in Nat, m % p = 0, n <= m
    PROVE  RoundUp(n, p) <= m
<1>1. n % p \in 0..(p - 1) /\ n = p * (n \div p) + (n % p) /\ n \div p \in Nat BY Division
<1>2. m = p * (m \div p) /\ m \div p \in Nat
  <2>1. m = p * (m \div p) + (m % p) /\ m \div p \in Nat BY Division
  <2>2. p * (m \div p) \in Int BY <2>1, SMT
  <2> QED BY <2>1, <2>2
<1>3. CASE n % p = 0 BY <1>3, RoundUpValue
<1>4. CASE n % p # 0
  <2>1. p * (n \div p) + p <= p * (m \div p)
    <3>1. n % p \in 1..(p - 1) BY <1>1, <1>4
    <3>2. p * (n \div p) + (n % p) <= p * (m \div p) BY <1>1, <1>2
    <3> QED BY <1>1, <1>2, <3>1, <3>2, WholePages
  <2>2. n + p - (n % p) = p * (n \div p) + p
    <3>1. p * (n \div p) \in Int BY <1>1, SMT
    <3> QED BY <1>1, <3>1
  <2>3. RoundUp(n, p) = n + p - (n % p) BY <1>4, RoundUpValue
  <2> QED BY <1>2, <2>1, <2>2, <2>3
<1> QED BY <1>3, <1>4

\* What Take leaves.
LEMMA TakeBounds ==
    ASSUME Inv, NEW end \in Nat, Take(end)
    PROVE  used' = end /\ end \in 0..Reserved /\ committed' \in 0..Reserved /\ end <= committed'
<1>1. used \in 0..Reserved /\ committed \in 0..Reserved /\ Reserved \in Nat /\ end <= Reserved
  BY SizesOK DEF Inv, TypeOK, Take
<1>2. RoundUp(end, Page) \in Nat /\ end <= RoundUp(end, Page) /\ RoundUp(end, Page) <= Reserved
  BY <1>1, SizesOK, RoundUpBounds, RoundUpStaysInside
<1> QED BY <1>1, <1>2 DEF Take
-----------------------------------------------------------------------------
(* A vector filled anew in a block that is its own, or fresh, keeps every   *)
(* block apart and every other content as it was.                          *)

\* Where a vector's elements may go: its own block, that block extended at the
\* top, a fresh one.
Admissible(v, home, capacity) ==
    \/ /\ capacity = vec[v].capacity /\ home = vec[v].data
       /\ used' = used /\ committed' = committed
    \/ /\ OnTop(v) /\ home = vec[v].data /\ vec[v].capacity <= capacity
       /\ used' = home + capacity /\ used' \in 0..Reserved
       /\ committed' \in 0..Reserved /\ used' <= committed'
    \/ /\ home = used /\ 0 < capacity
       /\ used' = home + capacity /\ used' \in 0..Reserved
       /\ committed' \in 0..Reserved /\ used' <= committed'

LEMMA ReadsWithin ==
    ASSUME Inv, NEW v \in Vec
    PROVE  /\ vec[v] \in [data : Cells \cup {Null}, capacity : Nat, size : Nat]
           /\ \A i \in 0..(vec[v].size - 1) : vec[v].data + i \in Cells
           /\ Reads(v) \in Contents(vec[v].size)
<1>1. vec[v] \in [data : Cells \cup {Null}, capacity : Nat, size : Nat] BY DEF Inv, TypeOK
<1>2. \A i \in 0..(vec[v].size - 1) : vec[v].data + i \in Cells
  <2>1. SUFFICES ASSUME NEW i \in 0..(vec[v].size - 1) PROVE vec[v].data + i \in Cells
    OBVIOUS
  <2>2. vec[v].capacity > 0 /\ vec[v].size <= vec[v].capacity /\ vec[v].data # Null /\ End(v) <= used
    BY <1>1 DEF Inv, Disjoint, Fits
  <2>3. used \in 0..Reserved /\ Reserved \in Nat BY SizesOK DEF Inv, TypeOK
  <2> QED BY <1>1, <2>2, <2>3 DEF End, Cells, Null
<1>3. Reads(v) \in Contents(vec[v].size)
  <2>1. \A i \in 0..(vec[v].size - 1) : mem[vec[v].data + i] \in Value
    BY <1>2 DEF Inv, TypeOK
  <2> QED BY <2>1 DEF Reads, Contents
<1> QED BY <1>1, <1>2, <1>3

LEMMA FilledKeeps ==
    ASSUME Inv, NEW v \in Vec, NEW capacity \in Nat, NEW n \in 0..capacity, NEW f \in Contents(n),
           NEW home, Admissible(v, home, capacity), Filled(v, home, capacity, n, f)
    PROVE  /\ Inv' /\ OthersKept
           /\ vec'[v].size = n /\ Reads(v)' = f
           /\ \A w \in Vec \ {v} : vec'[w] = vec[w] /\ Reads(w)' = Reads(w)
<1> DEFINE b == [data |-> home, capacity |-> capacity, size |-> n]
<1>1. /\ used \in 0..Reserved /\ committed \in 0..Reserved /\ Reserved \in Nat /\ used <= committed
      /\ mem \in [Cells -> Value]
      /\ \A w \in Vec : vec[w] \in [data : Cells \cup {Null}, capacity : Nat, size : Nat]
      /\ vec \in [Vec -> [data : Cells \cup {Null}, capacity : Nat, size : Nat]]
  BY SizesOK DEF Inv, TypeOK, Disjoint
<1>2. \A w \in Vec : Fits(w) BY DEF Inv, Disjoint
<1>3. /\ vec' = [vec EXCEPT ![v] = b] /\ others' = others
      /\ mem' = [a \in Cells |-> IF a - home \in 0..(n - 1) THEN f[a - home] ELSE mem[a]]
  BY DEF Filled
<1>4. vec'[v] = b /\ \A w \in Vec \ {v} : vec'[w] = vec[w] BY <1>1, <1>3
<1>5. /\ home \in Cells \cup {Null} /\ (home = Null <=> capacity = 0)
      /\ home # Null => home + capacity <= used'
  BY <1>1, <1>2 DEF Admissible, OnTop, Fits, End, Cells, Null
<1>6. used' \in 0..Reserved /\ committed' \in 0..Reserved /\ used' <= committed' /\ used <= used'
  <2>1. CASE OnTop(v) /\ home = vec[v].data /\ vec[v].capacity <= capacity /\ used' = home + capacity
    <3>1. vec[v].data \in Int /\ vec[v].capacity \in Nat BY <1>1 DEF Cells, Null
    <3>2. used <= used' BY <2>1, <3>1 DEF OnTop, End
    <3> QED BY <1>1, <2>1, <3>2 DEF Admissible
  <2> QED BY <1>1, <2>1 DEF Admissible
<1>7. TypeOK'
  <2>1. b \in [data : Cells \cup {Null}, capacity : Nat, size : Nat] BY <1>5
  <2>2. vec' \in [Vec -> [data : Cells \cup {Null}, capacity : Nat, size : Nat]]
    BY <1>1, <1>3, <2>1
  <2>3. mem' \in [Cells -> Value]
    <3>1. \A i \in 0..(n - 1) : f[i] \in Value BY DEF Contents
    <3> QED BY <1>1, <1>3, <3>1
  <2>4. others' \in SUBSET [data : Nat, size : Nat] BY <1>3 DEF Inv, TypeOK
  <2> QED BY <1>6, <2>2, <2>3, <2>4 DEF TypeOK
\* The cells of v's new block were v's own, or no one's.
<1>8. \A w \in Vec \ {v} : vec[w].data # Null /\ home # Null =>
          End(w) <= home \/ home + capacity <= vec[w].data
  <2>1. SUFFICES ASSUME NEW w \in Vec \ {v}, vec[w].data # Null, home # Null
                 PROVE  End(w) <= home \/ home + capacity <= vec[w].data
    OBVIOUS
  <2>2. End(w) <= used /\ vec[w].data \in Nat /\ vec[w].capacity \in Nat \ {0} /\ End(w) \in Nat
    BY <1>1, <1>2, <2>1 DEF Fits, End, Cells, Null
  <2>3. Apart(v, w) BY DEF Inv, Disjoint
  <2>4. CASE home = used BY <2>2, <2>4
  <2>5. CASE home = vec[v].data /\ capacity = vec[v].capacity
    BY <2>1, <2>3, <2>5 DEF Apart, End
  <2>6. CASE OnTop(v) /\ home = vec[v].data
    BY <1>1, <2>1, <2>2, <2>3, <2>6 DEF Apart, OnTop, End
  <2> QED BY <2>4, <2>5, <2>6 DEF Admissible
<1>9. \A o \in others : o.size > 0 /\ home # Null =>
          home + capacity <= o.data \/ o.data + o.size <= home
  <2>1. SUFFICES ASSUME NEW o \in others, o.size > 0, home # Null
                 PROVE  home + capacity <= o.data \/ o.data + o.size <= home
    OBVIOUS
  <2>2. o.data + o.size <= used /\ o.data \in Nat /\ o.size \in Nat /\ Clears(v, o)
    BY <2>1 DEF Inv, TypeOK, Disjoint
  <2>3. CASE home = used BY <2>2, <2>3
  <2>4. CASE home = vec[v].data /\ capacity = vec[v].capacity
    BY <2>1, <2>2, <2>4 DEF Clears, End
  <2>5. CASE OnTop(v) /\ home = vec[v].data
    BY <1>1, <2>1, <2>2, <2>5 DEF Clears, OnTop, End
  <2> QED BY <2>3, <2>4, <2>5 DEF Admissible
<1>10. \A w \in Vec : Fits(w)'
  <2>1. Fits(v)' BY <1>4, <1>5 DEF Fits, End
  <2>2. ASSUME NEW w \in Vec \ {v} PROVE Fits(w)'
    <3>1. Fits(w) BY <1>2
    <3>2. vec[w].data \in Int /\ vec[w].capacity \in Nat BY <1>1 DEF Cells, Null
    <3> QED BY <1>1, <1>4, <1>6, <3>1, <3>2 DEF Fits, End
  <2> QED BY <2>1, <2>2
<1>11. \A w, x \in Vec : w # x => Apart(w, x)'
  <2>1. SUFFICES ASSUME NEW w \in Vec, NEW x \in Vec, w # x PROVE Apart(w, x)'
    OBVIOUS
  <2>2. Apart(w, x) BY <2>1 DEF Inv, Disjoint
  <2>3. CASE w # v /\ x # v BY <1>4, <2>2, <2>3 DEF Apart, End
  <2>4. CASE w = v BY <1>4, <1>8, <2>1, <2>4 DEF Apart, End
  <2>5. CASE x = v BY <1>4, <1>8, <2>1, <2>5 DEF Apart, End
  <2> QED BY <2>3, <2>4, <2>5
<1>12. \A o \in others' : o.size > 0 => o.data + o.size <= used' /\ \A w \in Vec : Clears(w, o)'
  <2>1. SUFFICES ASSUME NEW o \in others, o.size > 0
                 PROVE  o.data + o.size <= used' /\ \A w \in Vec : Clears(w, o)'
    BY <1>3
  <2>2. o.data + o.size <= used /\ o.data \in Nat /\ o.size \in Nat /\ \A w \in Vec : Clears(w, o)
    BY <2>1 DEF Inv, TypeOK, Disjoint
  <2>3. Clears(v, o)' BY <1>4, <1>9, <2>1 DEF Clears, End
  <2>4. \A w \in Vec \ {v} : Clears(w, o)' BY <1>4, <2>2 DEF Clears, End
  <2> QED BY <1>1, <1>6, <2>2, <2>3, <2>4
<1>13. Disjoint' BY <1>6, <1>10, <1>11, <1>12 DEF Disjoint
<1>14. OthersKept
  <2>1. SUFFICES ASSUME NEW o \in others, NEW a \in o.data..(o.data + o.size - 1)
                 PROVE  mem'[a] = mem[a]
    BY DEF OthersKept
  <2>2. o.data + o.size <= used /\ o.data \in Nat /\ o.size \in Nat \ {0}
    BY DEF Inv, TypeOK, Disjoint
  <2>3. a \in Cells BY <1>1, <2>2 DEF Cells
  <2>4. a - home \notin 0..(n - 1) BY <1>5, <1>9, <2>2 DEF Cells, Null
  <2> QED BY <1>3, <2>3, <2>4
<1>15. Reads(v)' = f
  <2>1. \A i \in 0..(n - 1) : home + i \in Cells BY <1>1, <1>5, <1>6 DEF Cells, Null
  <2>2. \A i \in 0..(n - 1) : mem'[home + i] = f[i]
    <3>1. SUFFICES ASSUME NEW i \in 0..(n - 1) PROVE mem'[home + i] = f[i] OBVIOUS
    <3>2. home \in Int BY <1>5 DEF Cells, Null
    <3>3. (home + i) - home = i BY <3>2
    <3> QED BY <1>3, <2>1, <3>3
  <2>3. f = [i \in 0..(n - 1) |-> f[i]] BY DEF Contents
  <2> QED BY <1>4, <2>2, <2>3 DEF Reads
<1>16. \A w \in Vec \ {v} : Reads(w)' = Reads(w)
  <2>1. SUFFICES ASSUME NEW w \in Vec \ {v} PROVE Reads(w)' = Reads(w) OBVIOUS
  <2>2. \A i \in 0..(vec[w].size - 1) : mem'[vec[w].data + i] = mem[vec[w].data + i]
    <3>1. SUFFICES ASSUME NEW i \in 0..(vec[w].size - 1)
                   PROVE  mem'[vec[w].data + i] = mem[vec[w].data + i]
      OBVIOUS
    <3>2. vec[w].data + i \in Cells BY ReadsWithin
    <3>3. vec[w].data # Null /\ vec[w].data \in Nat /\ vec[w].size <= vec[w].capacity
      BY <1>1, <1>2, <3>1 DEF Fits, Cells, Null
    <3>4. (vec[w].data + i) - home \notin 0..(n - 1)
      <4>1. CASE home = Null BY <1>5, <4>1
      <4>2. CASE home # Null
        <5>1. vec[w].data + vec[w].capacity <= home \/ home + capacity <= vec[w].data
          BY <1>8, <3>3, <4>2 DEF End
        <5>2. home \in Int /\ n \in Nat /\ n <= capacity BY <1>5 DEF Cells, Null
        <5>3. vec[w].capacity \in Nat /\ vec[w].size \in Nat BY <1>1
        <5>4. vec[w].data + i < vec[w].data + vec[w].capacity /\ vec[w].data <= vec[w].data + i
          BY <3>3, <5>3
        <5>5. vec[w].data + i < home \/ home + n <= vec[w].data + i BY <3>3, <5>1, <5>2, <5>3, <5>4
        <5> QED BY <3>3, <5>2, <5>5
      <4> QED BY <4>1, <4>2
    <3> QED BY <1>3, <3>2, <3>4
  <2> QED BY <1>4, <2>2 DEF Reads
<1> QED BY <1>4, <1>7, <1>13, <1>14, <1>15, <1>16 DEF Inv

-----------------------------------------------------------------------------
(* Every operation changes one vector as VectorValues says. *)

Lengths  == [w \in Vec |-> vec[w].size]
AllReads == [w \in Vec |-> Reads(w)]
Sets(v, n, f) ==
    /\ Inv' /\ OthersKept
    /\ Lengths' = [Lengths EXCEPT ![v] = n] /\ AllReads' = [AllReads EXCEPT ![v] = f]

LEMMA FilledSets ==
    ASSUME Inv, NEW v \in Vec, NEW capacity \in Nat, NEW n \in 0..capacity, NEW f \in Contents(n),
           NEW home, Admissible(v, home, capacity), Filled(v, home, capacity, n, f)
    PROVE  Sets(v, n, f)
<1>1. /\ Inv' /\ OthersKept
      /\ vec'[v].size = n /\ Reads(v)' = f
      /\ \A w \in Vec \ {v} : vec'[w] = vec[w] /\ Reads(w)' = Reads(w)
  BY FilledKeeps
<1>2. Lengths' = [Lengths EXCEPT ![v] = n] BY <1>1 DEF Lengths
<1>3. AllReads' = [AllReads EXCEPT ![v] = f] BY <1>1 DEF AllReads
<1> QED BY <1>1, <1>2, <1>3 DEF Sets

LEMMA StoredSets ==
    ASSUME Inv, NEW v \in Vec, NEW capacity \in Nat, NEW n \in 0..capacity, NEW f \in Contents(n),
           vec[v].capacity <= capacity, Stored(v, capacity, n, f)
    PROVE  Sets(v, n, f)
<1>1. used \in Nat /\ vec[v].capacity \in Nat /\ vec[v].data \in Int BY DEF Inv, TypeOK, Cells, Null
<1>2. Admissible(v, Home(v, capacity), capacity)
  <2>1. CASE capacity = vec[v].capacity BY <2>1 DEF Stored, Room, Home, Admissible
  <2>2. CASE capacity # vec[v].capacity
    <3>1. Take(Home(v, capacity) + capacity) BY <2>2 DEF Stored, Room
    <3>2. CASE Extends(v, capacity)
      <4>1. Home(v, capacity) = vec[v].data /\ OnTop(v) BY <3>2 DEF Home, Extends
      <4>2. vec[v].data \in Nat BY <4>1 DEF OnTop, Inv, TypeOK, Cells, Null
      <4> QED BY <3>1, <4>1, <4>2, TakeBounds DEF Admissible
    <3>3. CASE ~Extends(v, capacity)
      <4>1. Home(v, capacity) = used BY <2>2, <3>3 DEF Home
      <4>2. capacity > 0 BY <1>1, <2>2
      <4> QED BY <1>1, <3>1, <4>1, <4>2, TakeBounds DEF Admissible
    <3> QED BY <3>2, <3>3
  <2> QED BY <2>1, <2>2
<1>3. Filled(v, Home(v, capacity), capacity, n, f) BY DEF Stored
<1> QED BY <1>2, <1>3, FilledSets

LEMMA CapacitySuffices ==
    ASSUME Inv, NEW v \in Vec, NEW k \in Nat, v \in SortedVec => k = 1
    PROVE  /\ Capacity(v, vec[v].size + k) \in Nat
           /\ vec[v].size + k <= Capacity(v, vec[v].size + k)
           /\ vec[v].capacity <= Capacity(v, vec[v].size + k)
<1>1. vec[v].size \in Nat /\ vec[v].capacity \in Nat /\ vec[v].size <= vec[v].capacity
  BY DEF Inv, TypeOK, Disjoint, Fits
<1>2. vec[v].capacity \div 2 \in Nat BY <1>1
<1>3. CASE v \in SortedVec BY <1>1, <1>3, SizesOK DEF Capacity, SortedCapacity
<1>4. CASE v \notin SortedVec BY <1>1, <1>2, <1>4, SizesOK DEF Capacity, VecCapacity, Larger
<1> QED BY <1>3, <1>4

\* Contents stay contents.
LEMMA InsertedIsContents ==
    ASSUME NEW n \in Nat, NEW f \in Contents(n), NEW k \in Nat, NEW i \in 0..n, NEW g \in Contents(k)
    PROVE  Inserted(f, n, i, g, k) \in Contents(n + k)
<1>1. SUFFICES ASSUME NEW j \in 0..(n + k - 1)
               PROVE  (IF j < i THEN f[j] ELSE IF j < i + k THEN g[j - i] ELSE f[j - k]) \in Value
  BY DEF Inserted, Contents
<1>2. CASE j < i
  <2>1. j \in 0..(n - 1) BY <1>2
  <2> QED BY <1>2, <2>1 DEF Contents
<1>3. CASE ~(j < i) /\ j < i + k
  <2>1. j - i \in 0..(k - 1) BY <1>3
  <2> QED BY <1>3, <2>1 DEF Contents
<1>4. CASE ~(j < i) /\ ~(j < i + k)
  <2>1. j - k \in 0..(n - 1) BY <1>4
  <2> QED BY <1>4, <2>1 DEF Contents
<1> QED BY <1>2, <1>3, <1>4

LEMMA RemovedIsContents ==
    ASSUME NEW n \in Nat, NEW f \in Contents(n), NEW i \in 0..n, NEW r \in 0..(n - i)
    PROVE  Removed(f, n, i, r) \in Contents(n - r)
<1>1. SUFFICES ASSUME NEW j \in 0..(n - r - 1) PROVE (IF j < i THEN f[j] ELSE f[j + r]) \in Value
  BY DEF Removed, Contents
<1>2. j \in 0..(n - 1) /\ (~(j < i) => j + r \in 0..(n - 1)) BY <1>1
<1> QED BY <1>2 DEF Contents

LEMMA InsertSets ==
    ASSUME Inv, NEW v \in Vec, NEW k \in 0..MaxSize, NEW i \in 0..vec[v].size,
           NEW g \in Contents(k), v \in SortedVec => k = 1, InsertAt(v, i, g, k)
    PROVE  Sets(v, vec[v].size + k, Inserted(Reads(v), vec[v].size, i, g, k))
<1> DEFINE size == vec[v].size
<1>1. size \in Nat /\ Reads(v) \in Contents(size) /\ k \in Nat BY ReadsWithin, SizesOK
<1>2. Inserted(Reads(v), size, i, g, k) \in Contents(size + k) BY <1>1, InsertedIsContents
<1>3. Stored(v, Capacity(v, size + k), size + k, Inserted(Reads(v), size, i, g, k)) BY DEF InsertAt
<1> QED BY <1>1, <1>2, <1>3, CapacitySuffices, StoredSets

LEMMA EraseSets ==
    ASSUME Inv, NEW v \in Vec, NEW i \in 0..vec[v].size, NEW r \in 0..(vec[v].size - i),
           EraseAt(v, i, r)
    PROVE  Sets(v, vec[v].size - r, Removed(Reads(v), vec[v].size, i, r))
<1> DEFINE size == vec[v].size
<1>1. size \in Nat /\ Reads(v) \in Contents(size) BY ReadsWithin
<1>2. Removed(Reads(v), size, i, r) \in Contents(size - r) BY <1>1, RemovedIsContents
<1>3. vec[v].capacity \in Nat /\ size - r \in 0..vec[v].capacity
  BY <1>1 DEF Inv, TypeOK, Disjoint, Fits
<1>4. Stored(v, vec[v].capacity, size - r, Removed(Reads(v), size, i, r)) BY DEF EraseAt
<1> QED BY <1>2, <1>3, <1>4, StoredSets

LEMMA CopySets ==
    ASSUME Inv, NEW v \in Vec, NEW w \in Vec, CopyFrom(v, w)
    PROVE  Sets(v, vec[w].size, Reads(w))
<1>1. /\ vec[w].size \in Nat /\ Reads(w) \in Contents(vec[w].size)
      /\ vec[v].capacity \in Nat /\ used \in Nat
  BY ReadsWithin DEF Inv, TypeOK
<1>2. CASE vec[w].size <= vec[v].capacity
  <2>1. Admissible(v, vec[v].data, vec[v].capacity) BY <1>2 DEF CopyFrom, Admissible
  <2> QED BY <1>1, <1>2, <2>1, FilledSets DEF CopyFrom
<1>3. CASE ~(vec[w].size <= vec[v].capacity)
  <2>1. Take(used + vec[w].size) BY <1>3 DEF CopyFrom
  <2>2. Admissible(v, used, vec[w].size) BY <1>1, <1>3, <2>1, TakeBounds DEF Admissible
  <2> QED BY <1>1, <1>3, <2>2, FilledSets DEF CopyFrom
<1> QED BY <1>2, <1>3
-----------------------------------------------------------------------------
(* One lemma for each kind of operation, then the step. *)

Kept == Inv' /\ OthersKept /\ [V!VNext]_V!vvars

LEMMA PutKept ==
    ASSUME Inv, NEW v \in Vec, NEW k \in 0..MaxSize, NEW i \in 0..vec[v].size,
           NEW g \in Contents(k), v \in SortedVec => k = 1, InsertAt(v, i, g, k)
    PROVE  Kept
<1>1. Sets(v, vec[v].size + k, Inserted(Reads(v), vec[v].size, i, g, k)) BY InsertSets
<1>2. V!Put(v)
  <2>1. Lengths[v] = vec[v].size /\ AllReads[v] = Reads(v) BY DEF Lengths, AllReads
  <2>2. V!Inserted(AllReads[v], Lengths[v], i, g, k) = Inserted(Reads(v), vec[v].size, i, g, k)
    BY <2>1 DEF V!Inserted, Inserted
  <2>3. i \in 0..Lengths[v] /\ g \in V!Contents(k) BY <2>1 DEF Contents, V!Contents
  <2>4. \E kk \in 0..MaxSize, ii \in 0..Lengths[v] : \E gg \in V!Contents(kk) :
            /\ Lengths' = [Lengths EXCEPT ![v] = Lengths[v] + kk]
            /\ AllReads' = [AllReads EXCEPT ![v] = V!Inserted(AllReads[v], Lengths[v], ii, gg, kk)]
    BY <1>1, <2>1, <2>2, <2>3 DEF Sets
  <2> QED BY <2>4 DEF V!Put, V!Becomes, Lengths, AllReads
<1> QED BY <1>1, <1>2 DEF Sets, Kept, V!VNext

LEMMA CutKept ==
    ASSUME Inv, NEW v \in Vec, NEW i \in 0..vec[v].size, NEW r \in 0..(vec[v].size - i),
           EraseAt(v, i, r)
    PROVE  Kept
<1>1. Sets(v, vec[v].size - r, Removed(Reads(v), vec[v].size, i, r)) BY EraseSets
<1>2. V!Cut(v)
  <2>1. Lengths[v] = vec[v].size /\ AllReads[v] = Reads(v) BY DEF Lengths, AllReads
  <2>2. V!Removed(AllReads[v], Lengths[v], i, r) = Removed(Reads(v), vec[v].size, i, r)
    BY <2>1 DEF V!Removed, Removed
  <2>3. i \in 0..Lengths[v] /\ r \in 0..(Lengths[v] - i) BY <2>1
  <2>4. \E ii \in 0..Lengths[v] : \E rr \in 0..(Lengths[v] - ii) :
            /\ Lengths' = [Lengths EXCEPT ![v] = Lengths[v] - rr]
            /\ AllReads' = [AllReads EXCEPT ![v] = V!Removed(AllReads[v], Lengths[v], ii, rr)]
    BY <1>1, <2>1, <2>2, <2>3 DEF Sets
  <2> QED BY <2>4 DEF V!Cut, V!Becomes, Lengths, AllReads
<1> QED BY <1>1, <1>2 DEF Sets, Kept, V!VNext

LEMMA CopyKept ==
    ASSUME Inv, NEW v \in Vec, NEW w \in Vec, v # w, CopyFrom(v, w)
    PROVE  Kept
<1>1. Sets(v, vec[w].size, Reads(w)) BY CopySets
<1>2. V!Copy(v, w) BY <1>1 DEF Sets, V!Copy, V!Becomes, Lengths, AllReads
<1> QED BY <1>1, <1>2 DEF Sets, Kept, V!VNext

\* What lies below the top once v's block may have gone back.
LEMMA OthersStayBelow ==
    ASSUME Inv, NEW v \in Vec, GiveBack(v) \/ used' = used
    PROVE  /\ used' \in 0..used
           /\ \A x \in Vec \ {v} : vec[x].data # Null => End(x) <= used'
           /\ \A o \in others : o.size > 0 => o.data + o.size <= used'
<1>1. /\ used \in Nat /\ \A x \in Vec : Fits(x)
      /\ \A x \in Vec : vec[x].data \in Int /\ vec[x].capacity \in Nat /\ (vec[x].data # Null => vec[x].data \in Nat)
      /\ \A o \in others : o.data \in Nat /\ o.size \in Nat
      /\ \A o \in others : o.size > 0 => o.data + o.size <= used /\ Clears(v, o)
      /\ \A x \in Vec \ {v} : Apart(v, x)
  BY DEF Inv, TypeOK, Disjoint, Cells, Null
<1>2. CASE used' = used BY <1>1, <1>2 DEF Fits
<1>3. CASE OnTop(v) /\ used' = vec[v].data
  <2>1. used' \in 0..used BY <1>1, <1>3 DEF OnTop, End
  <2>2. ASSUME NEW x \in Vec \ {v}, vec[x].data # Null PROVE End(x) <= used'
    <3>1. vec[x].capacity > 0 /\ End(x) <= used BY <1>1, <2>2 DEF Fits
    <3> QED BY <1>1, <1>3, <2>2, <3>1 DEF Apart, OnTop, End
  <2>3. ASSUME NEW o \in others, o.size > 0 PROVE o.data + o.size <= used'
    BY <1>1, <1>3, <2>3 DEF Clears, OnTop, End
  <2> QED BY <2>1, <2>2, <2>3
<1> QED BY <1>2, <1>3 DEF GiveBack

LEMMA TakeOverKept ==
    ASSUME Inv, NEW v \in Vec, NEW w \in Vec, v # w, GiveBack(v) \/ used' = used, TakeOver(v, w)
    PROVE  Kept
<1>1. /\ used' \in 0..used
      /\ \A x \in Vec \ {v} : vec[x].data # Null => End(x) <= used'
      /\ \A o \in others : o.size > 0 => o.data + o.size <= used'
  BY OthersStayBelow
<1>2. /\ vec' = [vec EXCEPT ![v] = vec[w], ![w] = Empty]
      /\ committed' = committed /\ mem' = mem /\ others' = others
  BY DEF TakeOver
<1>3. vec \in [Vec -> [data : Cells \cup {Null}, capacity : Nat, size : Nat]] BY DEF Inv, TypeOK
<1>4. vec'[v] = vec[w] /\ vec'[w] = Empty /\ \A x \in Vec \ {v, w} : vec'[x] = vec[x]
  BY <1>2, <1>3
<1>5. TypeOK'
  <2>1. Empty \in [data : Cells \cup {Null}, capacity : Nat, size : Nat] BY DEF Empty
  <2>2. vec' \in [Vec -> [data : Cells \cup {Null}, capacity : Nat, size : Nat]]
    BY <1>2, <1>3, <2>1
  <2> QED BY <1>1, <1>2, <2>2, SizesOK DEF Inv, TypeOK
<1>6. Disjoint'
  <2>1. used' <= committed' BY <1>1, <1>2, SizesOK DEF Inv, TypeOK, Disjoint
  <2>2. \A x \in Vec : Fits(x)'
    <3>1. Fits(v)' BY <1>1, <1>4 DEF Inv, Disjoint, Fits, End
    <3>2. Fits(w)' BY <1>4 DEF Fits, Empty
    <3>3. \A x \in Vec \ {v, w} : Fits(x)' BY <1>1, <1>4 DEF Inv, Disjoint, Fits, End
    <3> QED BY <3>1, <3>2, <3>3
  <2>3. ASSUME NEW x \in Vec, NEW y \in Vec, x # y PROVE Apart(x, y)'
    <3>1. CASE x = w \/ y = w BY <1>4, <3>1 DEF Apart, Empty
    <3>2. CASE x # w /\ y # w
      <4>1. vec'[x] = vec[IF x = v THEN w ELSE x] /\ vec'[y] = vec[IF y = v THEN w ELSE y]
        BY <1>4, <3>2
      <4> QED BY <2>3, <3>2, <4>1 DEF Inv, Disjoint, Apart, End
    <3> QED BY <3>1, <3>2
  <2>4. ASSUME NEW o \in others, o.size > 0, NEW x \in Vec PROVE Clears(x, o)'
    BY <1>4, <2>4 DEF Inv, Disjoint, Clears, End, Empty
  <2> QED BY <1>1, <1>2, <2>1, <2>2, <2>3, <2>4 DEF Disjoint
<1>7. OthersKept BY <1>2 DEF OthersKept
<1>8. V!Move(v, w)
  <2>1. Lengths' = [Lengths EXCEPT ![v] = Lengths[w], ![w] = 0]
    <3>1. vec'[v].size = vec[w].size /\ vec'[w].size = 0 BY <1>4 DEF Empty
    <3>2. \A x \in Vec \ {v, w} : vec'[x].size = vec[x].size BY <1>4
    <3> QED BY <3>1, <3>2 DEF Lengths
  <2>2. Reads(v)' = Reads(w) /\ \A x \in Vec \ {v, w} : Reads(x)' = Reads(x)
    <3>1. Reads(v)' = Reads(w)
      <4>1. vec'[v].size = vec[w].size /\ vec'[v].data = vec[w].data /\ mem' = mem BY <1>2, <1>4
      <4> QED BY <4>1 DEF Reads
    <3>2. ASSUME NEW x \in Vec \ {v, w} PROVE Reads(x)' = Reads(x)
      <4>1. vec'[x].size = vec[x].size /\ vec'[x].data = vec[x].data /\ mem' = mem BY <1>2, <1>4
      <4> QED BY <4>1 DEF Reads
    <3> QED BY <3>1, <3>2
  <2>3. Reads(w)' = V!NoElements BY <1>4 DEF Reads, Empty, V!NoElements
  <2>4. AllReads' = [AllReads EXCEPT ![v] = AllReads[w], ![w] = V!NoElements]
    BY <2>2, <2>3 DEF AllReads
  <2> QED BY <2>1, <2>4 DEF V!Move, Lengths, AllReads
<1> QED BY <1>5, <1>6, <1>7, <1>8 DEF Kept, Inv, V!VNext

LEMMA DestroyKept ==
    ASSUME Inv, NEW v \in Vec, GiveBack(v), vec' = [vec EXCEPT ![v] = Empty],
           UNCHANGED <<committed, mem, others>>
    PROVE  Kept
<1>1. /\ used' \in 0..used
      /\ \A x \in Vec \ {v} : vec[x].data # Null => End(x) <= used'
      /\ \A o \in others : o.size > 0 => o.data + o.size <= used'
  BY OthersStayBelow
<1>2. vec \in [Vec -> [data : Cells \cup {Null}, capacity : Nat, size : Nat]] BY DEF Inv, TypeOK
<1>3. vec'[v] = Empty /\ \A x \in Vec \ {v} : vec'[x] = vec[x] BY <1>2
<1>4. TypeOK'
  <2>1. Empty \in [data : Cells \cup {Null}, capacity : Nat, size : Nat] BY DEF Empty
  <2>2. vec' \in [Vec -> [data : Cells \cup {Null}, capacity : Nat, size : Nat]]
    BY <1>2, <2>1
  <2> QED BY <1>1, <2>2, SizesOK DEF Inv, TypeOK
<1>5. Disjoint'
  <2>1. used' <= committed' BY <1>1, SizesOK DEF Inv, TypeOK, Disjoint
  <2>2. \A x \in Vec : Fits(x)'
    <3>1. Fits(v)' BY <1>3 DEF Fits, Empty
    <3>2. \A x \in Vec \ {v} : Fits(x)' BY <1>1, <1>3 DEF Inv, Disjoint, Fits, End
    <3> QED BY <3>1, <3>2
  <2>3. \A x, y \in Vec : x # y => Apart(x, y)'
    BY <1>3 DEF Inv, Disjoint, Apart, End, Empty
  <2>4. \A o \in others : o.size > 0 => \A x \in Vec : Clears(x, o)'
    BY <1>3 DEF Inv, Disjoint, Clears, End, Empty
  <2> QED BY <1>1, <2>1, <2>2, <2>3, <2>4 DEF Disjoint
<1>6. OthersKept BY DEF OthersKept
<1>7. V!Cut(v)
  <2>1. Lengths[v] = vec[v].size /\ vec[v].size \in Nat BY <1>2 DEF Lengths
  <2>2. Lengths' = [Lengths EXCEPT ![v] = Lengths[v] - Lengths[v]]
    <3>1. vec'[v].size = 0 /\ \A x \in Vec \ {v} : vec'[x].size = vec[x].size
      BY <1>3 DEF Empty
    <3>2. Lengths[v] - Lengths[v] = 0 BY <2>1
    <3>3. Lengths' = [Lengths EXCEPT ![v] = 0]
      <4>1. \A x \in Vec : vec'[x].size = IF x = v THEN 0 ELSE vec[x].size BY <3>1
      <4> QED BY <4>1 DEF Lengths
    <3> QED BY <3>2, <3>3
  <2>3. Reads(v)' = V!Removed(AllReads[v], Lengths[v], 0, Lengths[v])
    BY <1>3, <2>1 DEF Reads, Empty, V!Removed
  <2>4. \A x \in Vec \ {v} : Reads(x)' = Reads(x) BY <1>3 DEF Reads
  <2>5. AllReads' = [AllReads EXCEPT ![v] = V!Removed(AllReads[v], Lengths[v], 0, Lengths[v])]
    BY <2>3, <2>4 DEF AllReads
  <2>6. \E ii \in 0..Lengths[v] : \E rr \in 0..(Lengths[v] - ii) :
            /\ Lengths' = [Lengths EXCEPT ![v] = Lengths[v] - rr]
            /\ AllReads' = [AllReads EXCEPT ![v] = V!Removed(AllReads[v], Lengths[v], ii, rr)]
    <3>1. 0 \in 0..Lengths[v] /\ Lengths[v] \in 0..(Lengths[v] - 0) BY <2>1
    <3> QED BY <2>2, <2>5, <3>1
  <2> QED BY <2>6 DEF V!Cut, V!Becomes, Lengths, AllReads
<1> QED BY <1>4, <1>5, <1>6, <1>7 DEF Kept, Inv, V!VNext

LEMMA AllocateKept ==
    ASSUME Inv, Allocate
    PROVE  Kept
<1>1. PICK r \in Requests :
          /\ Take(RoundUp(used, r.align) + r.size)
          /\ others' = others \cup {[data |-> RoundUp(used, r.align), size |-> r.size]}
          /\ mem' = mem /\ vec' = vec
  BY DEF Allocate
<1> DEFINE data == RoundUp(used, r.align)
<1>2. r.size \in Nat /\ r.align \in Nat \ {0} /\ used \in Nat BY SizesOK DEF Inv, TypeOK
<1>3. data \in Nat /\ used <= data BY <1>2, RoundUpBounds
<1>4. used' = data + r.size /\ used' \in 0..Reserved /\ committed' \in 0..Reserved /\ used' <= committed'
  BY <1>1, <1>2, <1>3, TakeBounds
<1>5. TypeOK'
  <2>1. others' \in SUBSET [data : Nat, size : Nat] BY <1>1, <1>2, <1>3 DEF Inv, TypeOK
  <2> QED BY <1>1, <1>4, <2>1 DEF Inv, TypeOK
<1>6. \A x \in Vec : Fits(x) /\ vec[x].data \in Int /\ vec[x].capacity \in Nat
  BY DEF Inv, TypeOK, Disjoint, Cells, Null
<1>7. Disjoint'
  <2>1. \A x \in Vec : Fits(x)' BY <1>1, <1>2, <1>3, <1>4, <1>6 DEF Fits, End
  <2>2. \A x, y \in Vec : x # y => Apart(x, y)' BY <1>1 DEF Inv, Disjoint, Apart, End
  <2>3. ASSUME NEW o \in others', o.size > 0, NEW x \in Vec
        PROVE  o.data + o.size <= used' /\ Clears(x, o)'
    <3>1. CASE o \in others
      <4>1. o.data + o.size <= used /\ Clears(x, o) /\ o.data \in Nat /\ o.size \in Nat
        BY <2>3, <3>1 DEF Inv, TypeOK, Disjoint
      <4> QED BY <1>1, <1>2, <1>3, <1>4, <4>1 DEF Clears, End
    <3>2. CASE o = [data |-> data, size |-> r.size]
      BY <1>1, <1>2, <1>3, <1>4, <1>6, <3>2 DEF Clears, Fits, End
    <3> QED BY <1>1, <3>1, <3>2
  <2>4. \A o \in others' : o.size > 0 => o.data + o.size <= used'
    <3>1. SUFFICES ASSUME NEW o \in others', o.size > 0 PROVE o.data + o.size <= used' OBVIOUS
    <3>2. CASE o \in others
      BY <1>2, <1>3, <1>4, <3>1, <3>2 DEF Inv, TypeOK, Disjoint
    <3>3. CASE o = [data |-> data, size |-> r.size] BY <1>4, <3>3
    <3> QED BY <1>1, <3>2, <3>3
  <2> QED BY <1>4, <2>1, <2>2, <2>3, <2>4 DEF Disjoint
<1>8. OthersKept BY <1>1 DEF OthersKept
<1>9. UNCHANGED V!vvars BY <1>1 DEF V!vvars, Reads
<1> QED BY <1>5, <1>7, <1>8, <1>9 DEF Kept, Inv
-----------------------------------------------------------------------------
LEMMA InitInv == Init => Inv /\ V!VInit
<1> SUFFICES ASSUME Init PROVE Inv /\ V!VInit OBVIOUS
<1>1. TypeOK BY SizesOK DEF Init, TypeOK, Empty
<1>2. Disjoint BY DEF Init, Disjoint, Fits, Apart, Clears, Empty
<1>3. V!VInit
  <2>1. \A v \in Vec : vec[v].size = 0 /\ Reads(v) = V!NoElements
    <3>1. \A v \in Vec : vec[v].size = 0 BY DEF Init, Empty
    <3>2. ASSUME NEW v \in Vec PROVE Reads(v) = V!NoElements
      <4>1. 0..(vec[v].size - 1) = {} /\ 0..(-1) = {} BY <3>1
      <4> QED BY <4>1 DEF Reads, V!NoElements
    <3> QED BY <3>1, <3>2
  <2> QED BY <2>1 DEF V!VInit
<1> QED BY <1>1, <1>2, <1>3 DEF Inv

LEMMA StepKept == Inv /\ [Next]_vars => Kept
<1> SUFFICES ASSUME Inv, [Next]_vars PROVE Kept OBVIOUS
<1>1. CASE Allocate BY <1>1, AllocateKept
<1>2. CASE PushBack
  <2>1. PICK v \in Vec \ SortedVec : \E g \in Contents(1) : InsertAt(v, vec[v].size, g, 1)
    BY <1>2 DEF PushBack
  <2>2. PICK g \in Contents(1) : InsertAt(v, vec[v].size, g, 1) BY <2>1
  <2>3. vec[v].size \in Nat /\ vec[v].size + 1 <= MaxSize BY <2>2, ReadsWithin DEF InsertAt
  <2> QED BY <2>2, <2>3, PutKept, SizesOK
<1>3. CASE PopBack
  <2>1. PICK v \in Vec \ SortedVec : vec[v].size > 0 /\ EraseAt(v, vec[v].size - 1, 1)
    BY <1>3 DEF PopBack
  <2>2. vec[v].size \in Nat BY ReadsWithin
  <2>3. vec[v].size - 1 \in 0..vec[v].size /\ 1 \in 0..(vec[v].size - (vec[v].size - 1))
    BY <2>1, <2>2
  <2>4. EraseAt(v, vec[v].size - 1, 1) BY <2>1
  <2> QED BY <2>3, <2>4, CutKept
<1>4. CASE Insert
  <2>1. PICK v \in Vec \ SortedVec, k \in 1..MaxSize : \E i \in 0..vec[v].size, g \in Contents(k) :
            InsertAt(v, i, g, k)
    BY <1>4 DEF Insert
  <2> QED BY <2>1, PutKept, SizesOK
<1>5. CASE Erase
  <2>1. PICK v \in Vec \ SortedVec : \E i \in 0..vec[v].size : \E r \in 1..(vec[v].size - i) :
            EraseAt(v, i, r)
    BY <1>5 DEF Erase
  <2>2. PICK i \in 0..vec[v].size : \E r \in 1..(vec[v].size - i) : EraseAt(v, i, r) BY <2>1
  <2>3. PICK r \in 1..(vec[v].size - i) : EraseAt(v, i, r) BY <2>2
  <2>4. r \in 0..(vec[v].size - i) BY ReadsWithin
  <2> QED BY <2>3, <2>4, CutKept
<1>6. CASE Reserve
  <2>1. PICK v \in Vec \ SortedVec, n \in 1..MaxSize :
            n > vec[v].capacity /\ Stored(v, n, vec[v].size, Reads(v))
    BY <1>6 DEF Reserve
  <2>2. /\ vec[v].size \in Nat /\ vec[v].capacity \in Nat /\ vec[v].size <= vec[v].capacity
        /\ Reads(v) \in Contents(vec[v].size) /\ n \in Nat
    BY ReadsWithin, SizesOK DEF Inv, Disjoint, Fits
  <2>3. Sets(v, vec[v].size, Reads(v)) BY <2>1, <2>2, StoredSets
  <2>4. V!Copy(v, v) BY <2>3 DEF Sets, V!Copy, V!Becomes, Lengths, AllReads
  <2>5. UNCHANGED V!vvars
    <3>1. Lengths' = Lengths /\ AllReads' = AllReads BY <2>3 DEF Sets, Lengths, AllReads
    <3> QED BY <3>1 DEF V!vvars, Lengths, AllReads
  <2> QED BY <2>3, <2>5 DEF Sets, Kept
<1>7. CASE Resize
  <2>1. PICK v \in Vec \ SortedVec, n \in 0..MaxSize :
            IF n > vec[v].size THEN InsertAt(v, vec[v].size, Zeros(n - vec[v].size), n - vec[v].size)
            ELSE EraseAt(v, n, vec[v].size - n)
    BY <1>7 DEF Resize
  <2>2. vec[v].size \in Nat BY ReadsWithin
  <2>3. CASE n > vec[v].size
    <3>1. n - vec[v].size \in 0..MaxSize BY <2>2, <2>3, SizesOK
    <3>2. Zeros(n - vec[v].size) \in Contents(n - vec[v].size) BY SizesOK DEF Zeros, Contents
    <3> QED BY <2>1, <2>2, <2>3, <3>1, <3>2, PutKept
  <2>4. CASE ~(n > vec[v].size)
    <3>1. n \in 0..vec[v].size /\ vec[v].size - n \in 0..(vec[v].size - n) BY <2>2, <2>4
    <3> QED BY <2>1, <2>4, <3>1, CutKept
  <2> QED BY <2>3, <2>4
<1>8. CASE Clear
  <2>1. PICK v \in Vec : EraseAt(v, 0, vec[v].size) BY <1>8 DEF Clear
  <2>2. vec[v].size \in Nat BY ReadsWithin
  <2>3. 0 \in 0..vec[v].size /\ vec[v].size \in 0..(vec[v].size - 0) BY <2>2
  <2> QED BY <2>1, <2>3, CutKept
<1>9. CASE Copy BY <1>9, CopyKept DEF Copy
<1>10. CASE Move BY <1>10, TakeOverKept DEF Move
<1>11. CASE Destroy BY <1>11, DestroyKept DEF Destroy
<1>12. CASE SortedInsert
  <2>1. PICK v \in Vec \cap SortedVec : \E i \in 0..vec[v].size, g \in Contents(1) : InsertAt(v, i, g, 1)
    BY <1>12, SizesOK DEF SortedInsert
  <2>2. vec[v].size \in Nat /\ vec[v].size + 1 <= MaxSize BY <2>1, ReadsWithin DEF InsertAt
  <2> QED BY <2>1, <2>2, PutKept, SizesOK
<1>13. CASE SortedRemove
  <2>1. PICK v \in Vec : \E i \in 0..(vec[v].size - 1) : EraseAt(v, i, 1)
    BY <1>13, SizesOK DEF SortedRemove
  <2>2. PICK i \in 0..(vec[v].size - 1) : EraseAt(v, i, 1) BY <2>1
  <2>3. vec[v].size \in Nat BY ReadsWithin
  <2>4. i \in 0..vec[v].size /\ 1 \in 0..(vec[v].size - i) BY <2>3
  <2> QED BY <2>2, <2>4, CutKept
<1>14. CASE SortedMove BY <1>14, TakeOverKept, SizesOK DEF SortedMove
<1>15. CASE UNCHANGED vars
  <2>1. Inv' BY <1>15 DEF vars, Inv, TypeOK, Disjoint, Fits, Apart, Clears, End
  <2>2. OthersKept BY <1>15 DEF vars, OthersKept
  <2>3. UNCHANGED V!vvars BY <1>15 DEF vars, V!vvars, Reads
  <2> QED BY <2>1, <2>2, <2>3 DEF Kept
<1> QED BY <1>1, <1>2, <1>3, <1>4, <1>5, <1>6, <1>7, <1>8, <1>9, <1>10, <1>11, <1>12, <1>13,
           <1>14, <1>15 DEF Next
-----------------------------------------------------------------------------
(***************************************************************************)
(* The blocks of all vectors, and those of the rest of the program, lie    *)
(* apart and below the top of the region, whose cells are committed        *)
(* (bump_alloc, bump_try_extend, bump_try_pop and the vectors that use     *)
(* them).                                                                  *)
(***************************************************************************)
THEOREM BlocksStayApart == Spec => [](TypeOK /\ Disjoint)
<1>1. Init => Inv BY InitInv
<1>2. Inv /\ [Next]_vars => Inv' BY StepKept DEF Kept
<1> QED BY <1>1, <1>2, PTL DEF Spec, Inv

(***************************************************************************)
(* A vector holds what its operations put in it, whatever the others do:   *)
(* growing, moving, copying and dying vectors share one region, and        *)
(* behave as sequences that share nothing (Vec, SortedIdVec).              *)
(***************************************************************************)
THEOREM VectorsAreSequences == Spec => ImplementsVectorValues
<1>1. Init => Inv /\ V!VInit BY InitInv
<1>2. Inv /\ [Next]_vars => Inv' /\ [V!VNext]_V!vvars BY StepKept DEF Kept
<1> QED BY <1>1, <1>2, PTL DEF Spec, ImplementsVectorValues, V!VSpec

(***************************************************************************)
(* All of this of every step, and no operation on a vector writes into     *)
(* memory that operator new gave out.                                      *)
(***************************************************************************)
THEOREM StepsKeepElements == Spec => [][KeepsElements]_vars
<1>1. Init => Inv BY InitInv
<1>2. Inv /\ [Next]_vars => Inv' /\ KeepsElements BY StepKept DEF Kept, KeepsElements, Inv
<1> QED BY <1>1, <1>2, PTL DEF Spec
-----------------------------------------------------------------------------
(* A table reads back what was put in it, and an id's cell and bit are its own. *)

Table == [cells : Seq(Nat), words : Seq(SUBSET Nat)]

GrowsTo(g, s, n, zero) ==
    /\ Len(g) \in Nat /\ Len(g) >= n /\ Len(g) >= Len(s)
    /\ \A k \in 1..Len(g) : g[k] = IF k <= Len(s) THEN s[k] ELSE zero

LEMMA GrownKeeps ==
    ASSUME PageCells \in Nat \ {0}, NEW T, NEW s \in Seq(T), NEW n \in Nat, NEW zero \in T
    PROVE  E!Grown(s, n, zero) \in Seq(T) /\ GrowsTo(E!Grown(s, n, zero), s, n, zero)
<1> DEFINE pages == (n + PageCells - 1) \div PageCells
           m == PageCells * pages - Len(s)
           more == [i \in 1..m |-> zero]
<1>1. CASE n <= Len(s) BY <1>1 DEF E!Grown, GrowsTo
<1>2. CASE ~(n <= Len(s))
  <2>1. pages \in Nat /\ PageCells * pages >= n
    <3>1. n + PageCells - 1 \in Nat BY SMT
    <3>2. /\ (n + PageCells - 1) % PageCells \in 0..(PageCells - 1) /\ pages \in Nat
          /\ n + PageCells - 1 = PageCells * pages + ((n + PageCells - 1) % PageCells)
      BY <3>1, Division
    <3>3. PageCells * pages \in Int BY <3>2, SMT
    <3> HIDE DEF pages
    <3> QED BY <3>2, <3>3
  <2>2. m \in Nat /\ Len(s) \in Nat /\ m + Len(s) >= n
    <3>1. PageCells * pages \in Int BY <2>1, SMT
    <3> HIDE DEF pages
    <3> QED BY <2>1, <3>1, <1>2
  <2>3. E!Grown(s, n, zero) = s \o more BY <1>2 DEF E!Grown
  <2> HIDE DEF m
  <2>4. more \in Seq(T) /\ Len(more) = m /\ \A i \in 1..m : more[i] = zero BY <2>2
  <2> HIDE DEF more
  <2>5. /\ s \o more \in Seq(T) /\ Len(s \o more) = Len(s) + m
        /\ \A k \in 1..(Len(s) + m) : (s \o more)[k] = IF k <= Len(s) THEN s[k] ELSE more[k - Len(s)]
    BY <2>2, <2>4
  <2>6. \A k \in 1..(Len(s) + m) : ~(k <= Len(s)) => k - Len(s) \in 1..m BY <2>2
  <2> QED BY <2>2, <2>3, <2>4, <2>5, <2>6 DEF GrowsTo
<1> QED BY <1>1, <1>2

LEMMA PlaceOfBit ==
    ASSUME WordBits \in Nat \ {0}, NEW i \in Nat
    PROVE  /\ E!WordOf(i) \in Nat \ {0} /\ i % WordBits \in Nat
           /\ \A j \in Nat : E!WordOf(j) = E!WordOf(i) /\ j % WordBits = i % WordBits => j = i
<1>1. /\ i % WordBits \in 0..(WordBits - 1) /\ i \div WordBits \in Nat
      /\ i = WordBits * (i \div WordBits) + (i % WordBits)
  BY Division
<1>2. ASSUME NEW j \in Nat, E!WordOf(j) = E!WordOf(i), j % WordBits = i % WordBits PROVE j = i
  <2>1. j \div WordBits \in Nat /\ j = WordBits * (j \div WordBits) + (j % WordBits) BY Division
  <2>2. j \div WordBits = i \div WordBits BY <1>1, <1>2, <2>1 DEF E!WordOf
  <2> QED BY <1>1, <1>2, <2>1, <2>2
<1> QED BY <1>1, <1>2 DEF E!WordOf

HoldsBit(words, j) == E!WordOf(j) <= Len(words) /\ j % WordBits \in words[E!WordOf(j)]

LEMMA BitsGrown ==
    ASSUME WordBits \in Nat \ {0}, PageCells \in Nat \ {0}, NEW words \in Seq(SUBSET Nat), NEW max \in Nat
    PROVE  LET g == E!ResizeWords(words, max)
           IN  /\ g \in Seq(SUBSET Nat) /\ Len(g) >= E!WordOf(max)
               /\ \A j \in Nat : HoldsBit(g, j) <=> HoldsBit(words, j)
<1> DEFINE g == E!ResizeWords(words, max)
<1>1. E!WordOf(max) \in Nat /\ E!WordOf(max) = (max \div WordBits) + 1 BY PlaceOfBit DEF E!WordOf
<1>2. g = E!Grown(words, E!WordOf(max), {}) BY <1>1 DEF E!ResizeWords
<1>3. {} \in SUBSET Nat OBVIOUS
<1>4. /\ g \in Seq(SUBSET Nat) /\ Len(g) >= E!WordOf(max) /\ Len(g) >= Len(words)
      /\ \A k \in 1..Len(g) : g[k] = IF k <= Len(words) THEN words[k] ELSE {}
  <2> DEFINE W == SUBSET Nat
             G == E!Grown(words, E!WordOf(max), {})
  <2>1. words \in Seq(W) /\ {} \in W /\ E!WordOf(max) \in Nat BY <1>1
  <2>2. g = G BY <1>2
  <2> HIDE DEF W, g
  <2>3. G \in Seq(W) /\ GrowsTo(G, words, E!WordOf(max), {}) BY <2>1, GrownKeeps
  <2> HIDE DEF G
  <2> QED BY <2>2, <2>3 DEF GrowsTo, W
<1>5. Len(g) \in Nat /\ Len(words) \in Nat BY <1>4
<1> HIDE DEF g
<1>6. ASSUME NEW j \in Nat PROVE HoldsBit(g, j) <=> HoldsBit(words, j)
  <2>1. E!WordOf(j) \in Nat \ {0} BY PlaceOfBit
  <2> QED BY <1>4, <1>5, <2>1 DEF HoldsBit
<1> QED BY <1>4, <1>6 DEF g

LEMMA BitInserted ==
    ASSUME WordBits \in Nat \ {0}, PageCells \in Nat \ {0}, NEW words \in Seq(SUBSET Nat), NEW i \in Nat
    PROVE  LET g == E!InsertBit(words, i)
           IN  /\ g \in Seq(SUBSET Nat)
               /\ \A j \in Nat : HoldsBit(g, j) <=> j = i \/ HoldsBit(words, j)
<1> DEFINE roomy == IF E!WordOf(i) > Len(words) THEN E!ResizeWords(words, i) ELSE words
           g == E!InsertBit(words, i)
<1>1. E!WordOf(i) \in Nat \ {0} /\ i % WordBits \in Nat BY PlaceOfBit
<1>2. /\ roomy \in Seq(SUBSET Nat) /\ Len(roomy) >= E!WordOf(i)
      /\ \A j \in Nat : HoldsBit(roomy, j) <=> HoldsBit(words, j)
  <2>1. CASE E!WordOf(i) > Len(words) BY <2>1, BitsGrown
  <2>2. CASE ~(E!WordOf(i) > Len(words)) BY <2>2, <1>1
  <2> QED BY <2>1, <2>2
<1>3. g = [roomy EXCEPT ![E!WordOf(i)] = @ \cup {i % WordBits}] BY DEF E!InsertBit
<1> HIDE DEF roomy
<1>4. E!WordOf(i) \in 1..Len(roomy) BY <1>1, <1>2
<1>5. roomy[E!WordOf(i)] \cup {i % WordBits} \in SUBSET Nat BY <1>1, <1>2, <1>4
<1>6. /\ g \in Seq(SUBSET Nat) /\ Len(g) = Len(roomy)
      /\ \A k \in 1..Len(roomy) :
            g[k] = IF k = E!WordOf(i) THEN roomy[k] \cup {i % WordBits} ELSE roomy[k]
  <2> DEFINE word == roomy[E!WordOf(i)] \cup {i % WordBits}
  <2>1. g = [roomy EXCEPT ![E!WordOf(i)] = word] BY <1>3
  <2> DEFINE W == SUBSET Nat
  <2>2. word \in W /\ roomy \in Seq(W) BY <1>2, <1>5
  <2>3. \A k : k = E!WordOf(i) => word = roomy[k] \cup {i % WordBits} OBVIOUS
  <2> HIDE DEF g, word, W
  <2>4. /\ g \in Seq(W) /\ Len(g) = Len(roomy)
        /\ \A k \in 1..Len(roomy) : g[k] = IF k = E!WordOf(i) THEN word ELSE roomy[k]
    BY <1>4, <2>1, <2>2, ExceptSeq
  <2> QED BY <2>3, <2>4 DEF W
<1> HIDE DEF g
<1>7. ASSUME NEW j \in Nat PROVE HoldsBit(g, j) <=> j = i \/ HoldsBit(roomy, j)
  <2>1. E!WordOf(j) \in Nat \ {0} BY PlaceOfBit
  <2>2. E!WordOf(j) = E!WordOf(i) /\ j % WordBits = i % WordBits => j = i BY PlaceOfBit
  <2>3. CASE E!WordOf(j) <= Len(roomy)
    <3>1. E!WordOf(j) \in 1..Len(roomy) BY <1>2, <2>1, <2>3
    <3> QED BY <1>4, <1>6, <2>2, <2>3, <3>1 DEF HoldsBit
  <2>4. CASE ~(E!WordOf(j) <= Len(roomy)) BY <1>4, <1>6, <2>4 DEF HoldsBit
  <2> QED BY <2>3, <2>4
<1> QED BY <1>2, <1>6, <1>7 DEF g

LEMMA PutKeeps ==
    ASSUME WordBits \in Nat \ {0}, PageCells \in Nat \ {0}, NEW t \in Table, NEW i \in Nat, NEW v \in Nat
    PROVE  LET u == E!Put(t, i, v)
           IN  /\ u \in Table
               /\ \A j \in Nat :
                      /\ E!Cell(u, j) = IF j = i THEN v ELSE E!Cell(t, j)
                      /\ E!Holds(u, j) <=> j = i \/ E!Holds(t, j)
<1> DEFINE u == E!Put(t, i, v)
           short == i >= Len(t.cells)
           cells == IF short THEN E!Grown(t.cells, i + 1, 0) ELSE t.cells
           words == IF short THEN E!ResizeWords(t.words, i) ELSE t.words
<1>1. t.cells \in Seq(Nat) /\ t.words \in Seq(SUBSET Nat) /\ Len(t.cells) \in Nat BY DEF Table
<1>2. u = [cells |-> [cells EXCEPT ![i + 1] = v], words |-> E!InsertBit(words, i)]
  BY DEF E!Put, E!Resize
<1>3. /\ cells \in Seq(Nat) /\ Len(cells) >= i + 1 /\ Len(cells) >= Len(t.cells)
      /\ \A k \in 1..Len(cells) : cells[k] = IF k <= Len(t.cells) THEN t.cells[k] ELSE 0
  <2>1. CASE short
    <3> DEFINE G == E!Grown(t.cells, i + 1, 0)
    <3>1. i + 1 \in Nat /\ 0 \in Nat OBVIOUS
    <3>2. G \in Seq(Nat) /\ GrowsTo(G, t.cells, i + 1, 0) BY <1>1, <3>1, GrownKeeps
    <3>3. cells = G BY <2>1
    <3> HIDE DEF cells, G
    <3> QED BY <3>2, <3>3 DEF GrowsTo
  <2>2. CASE ~short BY <1>1, <2>2
  <2> QED BY <2>1, <2>2
<1>4. words \in Seq(SUBSET Nat) /\ \A j \in Nat : HoldsBit(words, j) <=> HoldsBit(t.words, j)
  <2>1. CASE short BY <1>1, <2>1, BitsGrown
  <2>2. CASE ~short BY <1>1, <2>2
  <2> QED BY <2>1, <2>2
<1> HIDE DEF cells, words
<1>5. /\ E!InsertBit(words, i) \in Seq(SUBSET Nat)
      /\ \A j \in Nat : HoldsBit(E!InsertBit(words, i), j) <=> j = i \/ HoldsBit(words, j)
  BY <1>4, BitInserted
<1>6. i + 1 \in 1..Len(cells) /\ Len(cells) \in Nat BY <1>1, <1>3
<1> DEFINE put == [cells EXCEPT ![i + 1] = v]
<1>7. /\ put \in Seq(Nat) /\ Len(put) = Len(cells)
      /\ \A k \in 1..Len(cells) : put[k] = IF k = i + 1 THEN v ELSE cells[k]
  BY <1>3, <1>6, ExceptSeq
<1>8. u.cells = put /\ u.words = E!InsertBit(words, i) /\ u \in Table BY <1>2, <1>5, <1>7 DEF Table
<1> HIDE DEF u, put
<1>9. ASSUME NEW j \in Nat PROVE E!Cell(u, j) = IF j = i THEN v ELSE E!Cell(t, j)
  <2>1. E!Cell(u, j) = IF j >= Len(put) THEN 0 ELSE put[j + 1] BY <1>8 DEF E!Cell
  <2>2. E!Cell(t, j) = IF j >= Len(t.cells) THEN 0 ELSE t.cells[j + 1] BY DEF E!Cell
  <2>3. CASE j >= Len(cells) BY <1>1, <1>3, <1>6, <1>7, <2>1, <2>2, <2>3
  <2>4. CASE ~(j >= Len(cells))
    <3>1. j + 1 \in 1..Len(cells) BY <1>6, <2>4
    <3>2. put[j + 1] = IF j = i THEN v ELSE cells[j + 1] BY <1>7, <3>1
    <3>3. cells[j + 1] = IF j + 1 <= Len(t.cells) THEN t.cells[j + 1] ELSE 0 BY <1>3, <3>1
    <3> QED BY <1>1, <1>6, <1>7, <2>1, <2>2, <2>4, <3>2, <3>3
  <2> QED BY <2>3, <2>4
<1>10. ASSUME NEW j \in Nat PROVE E!Holds(u, j) <=> j = i \/ E!Holds(t, j)
  BY <1>4, <1>5, <1>8 DEF E!Holds, HoldsBit
<1> QED BY <1>8, <1>9, <1>10 DEF u

Slice == [offset : Nat, length : Nat]
Maps == [Kinds -> Table]
Indexes == [offset : Maps, length : Maps]
Ids == [kind : Kinds, index : Nat]

LEMMA MapSetKeeps ==
    ASSUME WordBits \in Nat \ {0}, PageCells \in Nat \ {0}, NEW m \in Maps, NEW id \in Ids, NEW v \in Nat
    PROVE  /\ E!MapSet(m, id, v) \in Maps
           /\ \A other \in Ids :
                /\ E!MapGet(E!MapSet(m, id, v), other) = IF other = id THEN v ELSE E!MapGet(m, other)
                /\ E!MapHas(E!MapSet(m, id, v), other) <=> other = id \/ E!MapHas(m, other)
<1> DEFINE t == m[id.kind]
           u == E!Put(t, id.index, v)
           n == E!MapSet(m, id, v)
<1>1. id.kind \in Kinds /\ id.index \in Nat /\ t \in Table BY DEF Ids, Maps
<1>2. /\ u \in Table
      /\ \A j \in Nat :
             /\ E!Cell(u, j) = IF j = id.index THEN v ELSE E!Cell(t, j)
             /\ E!Holds(u, j) <=> j = id.index \/ E!Holds(t, j)
  BY <1>1, PutKeeps
<1>3. n = [m EXCEPT ![id.kind] = u] BY DEF E!MapSet
<1> HIDE DEF u, n
<1>4. n \in Maps /\ n[id.kind] = u /\ \A k \in Kinds : k # id.kind => n[k] = m[k]
  BY <1>1, <1>2, <1>3 DEF Maps
<1>5. ASSUME NEW other \in Ids
      PROVE  /\ E!MapGet(n, other) = IF other = id THEN v ELSE E!MapGet(m, other)
             /\ E!MapHas(n, other) <=> other = id \/ E!MapHas(m, other)
  <2>1. other.kind \in Kinds /\ other.index \in Nat BY DEF Ids
  <2>2. other = id <=> other.kind = id.kind /\ other.index = id.index BY DEF Ids
  <2>3. CASE other.kind = id.kind
    <3>1. n[other.kind] = u /\ m[other.kind] = t BY <1>4, <2>3
    <3> HIDE DEF t
    <3>2. E!Cell(u, other.index) = IF other.index = id.index THEN v ELSE E!Cell(t, other.index)
      BY <1>2, <2>1
    <3>3. E!Holds(u, other.index) <=> other.index = id.index \/ E!Holds(t, other.index)
      BY <1>2, <2>1
    <3> QED BY <2>2, <2>3, <3>1, <3>2, <3>3 DEF E!MapGet, E!MapHas
  <2>4. CASE other.kind # id.kind BY <1>4, <2>1, <2>2, <2>4 DEF E!MapGet, E!MapHas
  <2> QED BY <2>3, <2>4
<1> QED BY <1>4, <1>5 DEF n

LEMMA CellIsNatural ==
    ASSUME NEW m \in Maps, NEW id \in Ids
    PROVE  E!MapGet(m, id) \in Nat
<1>1. m[id.kind].cells \in Seq(Nat) /\ id.index \in Nat BY DEF Maps, Ids, Table
<1> DEFINE c == m[id.kind].cells
<1>2. Len(c) \in Nat BY <1>1
<1>3. ~(id.index >= Len(c)) => id.index + 1 \in 1..Len(c) BY <1>1, <1>2
<1>4. E!MapGet(m, id) = IF id.index >= Len(c) THEN 0 ELSE c[id.index + 1] BY DEF E!MapGet, E!Cell
<1> QED BY <1>1, <1>3, <1>4, ElementOfSeq

LEMMA SliceSet ==
    ASSUME WordBits \in Nat \ {0}, PageCells \in Nat \ {0},
           NEW x \in Indexes, NEW id \in Ids, NEW s \in Slice
    PROVE  /\ E!SetSlice(x, id, s) \in Indexes
           /\ \A other \in Ids :
                E!SliceOf(E!SetSlice(x, id, s), other) = IF other = id THEN s ELSE E!SliceOf(x, other)
<1> DEFINE y == E!SetSlice(x, id, s)
<1>1. x.offset \in Maps /\ x.length \in Maps /\ s.offset \in Nat /\ s.length \in Nat
  BY DEF Indexes, Slice
<1>2. /\ y \in Indexes
      /\ y.offset = E!MapSet(x.offset, id, s.offset) /\ y.length = E!MapSet(x.length, id, s.length)
  BY <1>1, MapSetKeeps DEF E!SetSlice, Indexes
<1> HIDE DEF y
<1>3. ASSUME NEW other \in Ids PROVE E!SliceOf(y, other) = IF other = id THEN s ELSE E!SliceOf(x, other)
  <2>1. /\ E!MapGet(y.offset, other) = IF other = id THEN s.offset ELSE E!MapGet(x.offset, other)
        /\ E!MapGet(y.length, other) = IF other = id THEN s.length ELSE E!MapGet(x.length, other)
        /\ E!MapHas(y.offset, other) <=> other = id \/ E!MapHas(x.offset, other)
    BY <1>1, <1>2, MapSetKeeps
  <2>2. s = [offset |-> s.offset, length |-> s.length] BY DEF Slice
  <2> QED BY <2>1, <2>2 DEF E!SliceOf
<1> QED BY <1>2, <1>3 DEF y

LEMMA SliceIsSlice ==
    ASSUME NEW x \in Indexes, NEW id \in Ids
    PROVE  E!SliceOf(x, id) \in Slice
  BY CellIsNatural DEF E!SliceOf, E!NoSlice, Indexes, Slice
-----------------------------------------------------------------------------
(* A list has room for the next power of two, and no list writes into the  *)
(* room of another.                                                        *)

LEMMA LeastOf ==
    ASSUME NEW T \in SUBSET Nat, T # {}
    PROVE  \E n \in T : \A m \in T : n <= m
<1>1. PICK n \in T : \A m \in T : ~(<<m, n>> \in OpToRel(<, Nat))
  BY NatLessThanWellFounded, WFMin
<1>2. \A m \in T : m \in Nat /\ n \in Nat /\ (m < n => <<m, n>> \in OpToRel(<, Nat))
  BY Zenon DEF OpToRel
<1>3. \A m \in T : ~(m < n) BY <1>1, <1>2, Zenon
<1> QED BY <1>3

Powers == E!PowersOfTwo
MostListed == E!MostListed

LEMMA PowersDouble ==
    /\ Powers \subseteq Nat \ {0} /\ 1 \in Powers /\ MostListed \in Powers
    /\ \A p \in Powers : p < MostListed => 2 * p \in Powers
    /\ MostListed \in Nat
  BY SMT DEF Powers, MostListed, E!PowersOfTwo, E!MostListed

\* The cells of a block that holds a list of n elements.
Span(n) == CHOOSE p \in Powers : n <= p /\ \A q \in Powers : n <= q => p <= q

LEMMA RoomFits ==
    ASSUME NEW n \in Nat, n <= MostListed
    PROVE  /\ Span(n) \in Powers /\ Span(n) \in Nat /\ n <= Span(n)
           /\ \A q \in Powers : n <= q => Span(n) <= q
<1> DEFINE Q == {q \in Powers : n <= q}
<1>1. Q \in SUBSET Nat /\ Q # {} BY PowersDouble
<1>2. PICK p \in Q : \A q \in Q : p <= q
  <2> HIDE DEF Q
  <2> QED BY <1>1, LeastOf
<1>3. p \in Powers /\ n <= p /\ \A q \in Powers : n <= q => p <= q BY <1>2
<1> QED BY <1>3, PowersDouble DEF Span

LEMMA RoomForOneMore ==
    ASSUME NEW n \in Nat, n < MostListed
    PROVE  /\ n > 0 /\ n \notin Powers => n + 1 <= Span(n) /\ Span(n + 1) <= Span(n)
           /\ n \in Powers => Span(n + 1) <= 2 * n
           /\ n = 0 => Span(n + 1) <= 1
<1>1. MostListed \in Nat BY PowersDouble
<1>2. \A q \in Powers : n + 1 <= q => Span(n + 1) <= q BY <1>1, RoomFits
<1>3. Span(n) \in Powers /\ Span(n) \in Nat /\ n <= Span(n) BY <1>1, RoomFits
<1>4. n > 0 /\ n \notin Powers => n + 1 <= Span(n) /\ Span(n + 1) <= Span(n) BY <1>2, <1>3
<1>5. n \in Powers => 2 * n \in Powers /\ n + 1 <= 2 * n BY PowersDouble
<1> QED BY <1>2, <1>4, <1>5, PowersDouble

Arenas == [cells : Seq(Nat), size : Nat]

\* A list extended by one element, in place or moved to the top of the arena.
Extended(cells, size, offset, n, v, c, z, o) ==
    /\ size <= z /\ z <= Len(c)
    /\ \/ /\ o = offset /\ z = size /\ n > 0
          /\ n + 1 <= Span(n) /\ Span(n + 1) <= Span(n)
          /\ \A i \in 1..size : i # offset + n + 1 => c[i] = cells[i]
       \/ /\ o = size /\ size + Span(n + 1) <= z
          /\ \A i \in 1..size : c[i] = cells[i]
    /\ \A k \in 1..n : c[o + k] = cells[offset + k]
    /\ c[o + n + 1] = v
Appended(cells, size, offset, n, v) ==
    E!AppendExtend([cells |-> cells, size |-> size], [offset |-> offset, length |-> n], v)

LEMMA AppendExtends ==
    ASSUME PageCells \in Nat \ {0}, NEW cells \in Seq(Nat), NEW size \in Nat, size <= Len(cells),
           NEW offset \in Nat, NEW n \in Nat, n < MostListed, n > 0 => offset + Span(n) <= size,
           NEW v \in Nat
    PROVE  \E c \in Seq(Nat), z \in Nat, o \in Nat :
               /\ Appended(cells, size, offset, n, v) =
                    [arena |-> [cells |-> c, size |-> z], slice |-> [offset |-> o, length |-> n + 1]]
               /\ Extended(cells, size, offset, n, v, c, z, o)
<1> DEFINE s == [offset |-> offset, length |-> n]
           a == [cells |-> cells, size |-> size]
           r == Appended(cells, size, offset, n, v)
<1>0. MostListed \in Nat /\ Len(cells) \in Nat BY PowersDouble
<1>1. CASE E!HasSpare(s)
  <2>1. n > 0 /\ n \notin Powers BY <1>1 DEF E!HasSpare, Powers
  <2>2. n + 1 <= Span(n) /\ Span(n + 1) <= Span(n) /\ Span(n) \in Nat
    BY <1>0, <2>1, RoomForOneMore, RoomFits
  <2> DEFINE at == offset + n + 1
             put == [cells EXCEPT ![at] = v]
  <2>3. at \in 1..Len(cells) /\ at <= size BY <1>0, <2>1, <2>2
  <2>4. /\ put \in Seq(Nat) /\ Len(put) = Len(cells)
        /\ \A i \in 1..Len(cells) : put[i] = IF i = at THEN v ELSE cells[i]
    BY <1>0, <2>3, ExceptSeq
  <2>5. r = [arena |-> [cells |-> put, size |-> size], slice |-> [offset |-> offset, length |-> n + 1]]
    BY <1>1, Zenon DEF E!AppendExtend, Appended
  <2> HIDE DEF put, r, s, a
  <2>7. \A i \in 1..size : i # at => put[i] = cells[i] BY <1>0, <2>4
  <2>8. ASSUME NEW k \in 1..n PROVE put[offset + k] = cells[offset + k]
    <3>1. offset + k \in 1..Len(cells) /\ offset + k # at BY <1>0, <2>3
    <3> QED BY <2>4, <3>1
  <2>9. put[at] = v BY <2>3, <2>4
  <2>10. Extended(cells, size, offset, n, v, put, size, offset)
    BY <1>0, <2>1, <2>2, <2>4, <2>7, <2>8, <2>9 DEF Extended
  <2> QED BY <2>4, <2>5, <2>10 DEF r
<1>2. CASE ~E!HasSpare(s)
  <2>1. n = 0 \/ n \in Powers BY <1>2 DEF E!HasSpare, Powers
  <2> DEFINE block == E!BlockFor(s)
             grown == E!Grown(cells, size + block, 0)
             moved == [i \in DOMAIN grown |->
                          IF i \in (size + 1)..(size + n) THEN grown[offset + i - size]
                          ELSE IF i = size + n + 1 THEN v ELSE grown[i]]
  <2>2. block \in Nat /\ n + 1 <= block /\ Span(n + 1) <= block /\ Span(n + 1) \in Nat
    <3>1. Span(n + 1) \in Nat BY <1>0, RoomFits
    <3>2. CASE n = 0 BY <1>0, <3>1, <3>2, RoomForOneMore DEF E!BlockFor
    <3>3. CASE n # 0
      <4>1. n \in Powers /\ block = 2 * n BY <2>1, <3>3 DEF E!BlockFor
      <4> QED BY <1>0, <3>1, <3>3, <4>1, RoomForOneMore
    <3> QED BY <3>2, <3>3
  <2>3. r = [arena |-> [cells |-> moved, size |-> size + block], slice |-> [offset |-> size, length |-> n + 1]]
    BY <1>2, Zenon DEF E!AppendExtend, Appended
  <2> HIDE DEF block, r, s, a
  <2>4. grown \in Seq(Nat) /\ GrowsTo(grown, cells, size + block, 0)
    <3>1. size + block \in Nat /\ 0 \in Nat BY <2>2
    <3> HIDE DEF block
    <3> QED BY <3>1, GrownKeeps
  <2> HIDE DEF grown
  <2>5. /\ Len(grown) \in Nat /\ Len(grown) >= size + block /\ DOMAIN grown = 1..Len(grown)
        /\ \A i \in 1..Len(grown) : grown[i] \in Nat
        /\ \A i \in 1..size : grown[i] = cells[i]
    <3>1. Len(grown) \in Nat /\ Len(grown) >= size + block /\ DOMAIN grown = 1..Len(grown)
      BY <2>4 DEF GrowsTo
    <3>2. \A i \in 1..Len(grown) : grown[i] \in Nat BY <2>4, ElementOfSeq
    <3>3. ASSUME NEW i \in 1..size PROVE grown[i] = cells[i]
      <4>1. i \in 1..Len(grown) /\ i <= Len(cells) BY <1>0, <2>2, <3>1
      <4> QED BY <2>4, <4>1 DEF GrowsTo
    <3> QED BY <3>1, <3>2, <3>3
  <2>7. \A i \in (size + 1)..(size + n) : offset + i - size \in 1..size
    <3>1. n > 0 => Span(n) \in Nat /\ n <= Span(n) BY <1>0, RoomFits
    <3>2. n > 0 => offset + n <= size BY <3>1
    <3> QED BY <3>2
  <2>8. moved \in Seq(Nat) /\ Len(moved) = Len(grown)
    <3>1. ASSUME NEW i \in 1..Len(grown) PROVE moved[i] \in Nat
      <4>1. CASE i \in (size + 1)..(size + n)
        <5>1. offset + i - size \in 1..size BY <2>7, <4>1
        <5>2. size <= Len(grown) BY <2>2, <2>5
        <5>3. offset + i - size \in 1..Len(grown) BY <2>5, <5>1, <5>2
        <5> QED BY <2>5, <4>1, <5>3
      <4>2. CASE ~(i \in (size + 1)..(size + n)) BY <2>5, <4>2
      <4> QED BY <4>1, <4>2
    <3>2. moved \in [1..Len(grown) -> Nat] BY <2>5, <3>1
    <3> HIDE DEF moved
    <3> QED BY <2>5, <3>2
  <2>9. /\ \A i \in 1..size : moved[i] = cells[i]
        /\ \A k \in 1..n : moved[size + k] = cells[offset + k]
        /\ moved[size + n + 1] = v
    <3>1. ASSUME NEW i \in 1..size PROVE moved[i] = cells[i]
      <4>1. i \in DOMAIN grown /\ ~(i \in (size + 1)..(size + n)) /\ i # size + n + 1
        BY <1>0, <2>2, <2>5
      <4> QED BY <2>5, <4>1
    <3>2. ASSUME NEW k \in 1..n PROVE moved[size + k] = cells[offset + k]
      <4>1. size + k \in DOMAIN grown /\ size + k \in (size + 1)..(size + n)
        BY <1>0, <2>2, <2>5
      <4>2. moved[size + k] = grown[offset + (size + k) - size] BY <4>1
      <4>3. offset + (size + k) - size \in 1..size BY <2>7, <4>1
      <4>4. offset + (size + k) - size = offset + k OBVIOUS
      <4> QED BY <2>5, <4>2, <4>3, <4>4
    <3>3. size + n + 1 \in DOMAIN grown /\ ~(size + n + 1 \in (size + 1)..(size + n))
      BY <1>0, <2>2, <2>5
    <3> QED BY <3>1, <3>2, <3>3
  <2> HIDE DEF moved
  <2>10. Extended(cells, size, offset, n, v, moved, size + block, size)
    BY <1>0, <2>2, <2>5, <2>8, <2>9 DEF Extended
  <2>11. size + block \in Nat BY <2>2
  <2> QED BY <2>3, <2>8, <2>10, <2>11 DEF r
<1> QED BY <1>1, <1>2

Aside(s, t) == s.offset + Span(s.length) <= t.offset \/ t.offset + Span(t.length) <= s.offset

\* Each list has its room in the arena, and no two share any of it.
Laid(a, S) ==
    /\ a \in Arenas /\ a.size <= Len(a.cells)
    /\ \A p \in DOMAIN S :
        /\ S[p] \in Slice /\ S[p].length <= MostListed
        /\ S[p].length > 0 => S[p].offset + Span(S[p].length) <= a.size
    /\ \A p, q \in DOMAIN S :
        p # q /\ S[p].length > 0 /\ S[q].length > 0 => Aside(S[p], S[q])

\* Another list, of m elements at at, still has its room, and they are the same.
Beside(offset, n, at, m) == n > 0 => offset + Span(n) <= at \/ at + Span(m) <= offset
Untouched(cells, c, z, o, n, at, m) ==
    /\ at + Span(m) <= z
    /\ o + Span(n + 1) <= at \/ at + Span(m) <= o
    /\ \A k \in 1..m : c[at + k] = cells[at + k]

LEMMA OtherListKept ==
    ASSUME NEW cells \in Seq(Nat), NEW size \in Nat, NEW offset \in Nat, NEW n \in Nat, n < MostListed,
           NEW v \in Nat, NEW c \in Seq(Nat), NEW z \in Nat, NEW o \in Nat,
           Extended(cells, size, offset, n, v, c, z, o),
           NEW at \in Nat, NEW m \in Nat, 0 < m, m <= MostListed, at + Span(m) <= size,
           Beside(offset, n, at, m)
    PROVE  Untouched(cells, c, z, o, n, at, m)
<1>1. MostListed \in Nat BY PowersDouble
<1>2. Span(n) \in Nat /\ n <= Span(n) /\ Span(n + 1) \in Nat /\ Span(m) \in Nat /\ m <= Span(m)
  BY <1>1, RoomFits
<1>3. at + Span(m) <= z BY <1>2 DEF Extended
<1>4. CASE o = offset /\ n > 0 /\ n + 1 <= Span(n) /\ Span(n + 1) <= Span(n)
           /\ \A i \in 1..size : i # offset + n + 1 => c[i] = cells[i]
  <2>1. o + Span(n + 1) <= at \/ at + Span(m) <= o BY <1>2, <1>4 DEF Beside
  <2>2. ASSUME NEW k \in 1..m PROVE c[at + k] = cells[at + k]
    <3>1. at + k \in 1..size BY <1>2
    <3>2. at + k # offset + n + 1 BY <1>2, <1>4 DEF Beside
    <3> QED BY <1>4, <3>1, <3>2
  <2> QED BY <1>3, <2>1, <2>2 DEF Untouched
<1>5. CASE o = size /\ \A i \in 1..size : c[i] = cells[i]
  <2>1. ASSUME NEW k \in 1..m PROVE c[at + k] = cells[at + k]
    <3>1. at + k \in 1..size BY <1>2
    <3> QED BY <1>5, <3>1
  <2> QED BY <1>3, <1>5, <2>1 DEF Untouched
<1> QED BY <1>4, <1>5 DEF Extended

LEMMA ExtendedListFits ==
    ASSUME NEW cells \in Seq(Nat), NEW size \in Nat, NEW offset \in Nat, NEW n \in Nat, n < MostListed,
           NEW v \in Nat, NEW c \in Seq(Nat), NEW z \in Nat, NEW o \in Nat,
           Extended(cells, size, offset, n, v, c, z, o), n > 0 => offset + Span(n) <= size
    PROVE  /\ size <= z /\ z <= Len(c) /\ o + Span(n + 1) <= z
           /\ n + 1 <= Span(n + 1) /\ n + 1 <= MostListed
<1>1. MostListed \in Nat BY PowersDouble
<1>2. n <= MostListed /\ n + 1 <= MostListed BY <1>1
<1>3. Span(n) \in Nat /\ Span(n + 1) \in Nat /\ n + 1 <= Span(n + 1) BY <1>2, RoomFits
<1>4. o + Span(n + 1) <= z BY <1>3 DEF Extended
<1> QED BY <1>2, <1>3, <1>4 DEF Extended

LEMMA ListsStayApart ==
    ASSUME PageCells \in Nat \ {0}, NEW a, NEW S, Laid(a, S), NEW p \in DOMAIN S,
           S[p].length < MostListed, NEW v \in Nat, NEW r, r = E!AppendExtend(a, S[p], v),
           NEW T, DOMAIN T = DOMAIN S, T[p] = r.slice, \A q \in DOMAIN S : q # p => T[q] = S[q]
    PROVE  /\ Laid(r.arena, T)
           /\ \A q \in DOMAIN S : q # p => E!Listed(r.arena, T[q]) = E!Listed(a, S[q])
           /\ T[p].length = S[p].length + 1
           /\ \A k \in 1..S[p].length : E!Listed(r.arena, T[p])[k] = E!Listed(a, S[p])[k]
           /\ E!Listed(r.arena, T[p])[S[p].length + 1] = v
<1>0. MostListed \in Nat BY PowersDouble
<1>1. PICK cells \in Seq(Nat), size \in Nat : a = [cells |-> cells, size |-> size]
  BY DEF Laid, Arenas
<1>2. PICK offset \in Nat, n \in Nat : S[p] = [offset |-> offset, length |-> n]
  BY DEF Laid, Slice
<1>3. /\ a.cells = cells /\ a.size = size /\ size <= Len(cells)
      /\ S[p].offset = offset /\ S[p].length = n /\ n < MostListed
      /\ n > 0 => offset + Span(n) <= size
  BY <1>1, <1>2 DEF Laid
<1>4. PICK c \in Seq(Nat), z \in Nat, o \in Nat :
          /\ Appended(cells, size, offset, n, v) =
               [arena |-> [cells |-> c, size |-> z], slice |-> [offset |-> o, length |-> n + 1]]
          /\ Extended(cells, size, offset, n, v, c, z, o)
  BY <1>3, AppendExtends
<1>5. r = [arena |-> [cells |-> c, size |-> z], slice |-> [offset |-> o, length |-> n + 1]]
  BY <1>1, <1>2, <1>4 DEF Appended
<1>6. /\ r.arena.cells = c /\ r.arena.size = z /\ r.arena \in Arenas
      /\ T[p].offset = o /\ T[p].length = n + 1 /\ T[p] \in Slice
  BY <1>5 DEF Arenas, Slice
<1>7. /\ size <= z /\ z <= Len(c) /\ o + Span(n + 1) <= z
      /\ n + 1 <= Span(n + 1) /\ n + 1 <= MostListed
  <2>1. Extended(cells, size, offset, n, v, c, z, o) /\ n < MostListed BY <1>3, <1>4
  <2>2. n > 0 => offset + Span(n) <= size BY <1>3
  <2> QED BY <2>1, <2>2, ExtendedListFits, Zenon
<1>8. ASSUME NEW q \in DOMAIN S, q # p
      PROVE  /\ T[q] = S[q] /\ T[q] \in Slice /\ T[q].length <= MostListed
             /\ T[q].length > 0 => T[q].offset + Span(T[q].length) <= z
             /\ T[q].length > 0 => Aside(T[q], T[p]) /\ Aside(T[p], T[q])
             /\ E!Listed(r.arena, T[q]) = E!Listed(a, S[q])
  <2>1. PICK at \in Nat, m \in Nat : S[q] = [offset |-> at, length |-> m] BY DEF Laid, Slice
  <2>2. /\ T[q] = S[q] /\ T[q] \in Slice /\ m <= MostListed
        /\ T[q].offset = at /\ T[q].length = m
        /\ m > 0 => at + Span(m) <= size
        /\ m > 0 => Beside(offset, n, at, m)
    BY <1>3, <1>8, <2>1 DEF Laid, Aside, Beside
  <2>3. m > 0 => Untouched(cells, c, z, o, n, at, m)
    <3> SUFFICES ASSUME m > 0 PROVE Untouched(cells, c, z, o, n, at, m) OBVIOUS
    <3>1. Beside(offset, n, at, m) /\ 0 < m /\ m <= MostListed /\ at + Span(m) <= size BY <2>2
    <3>2. Extended(cells, size, offset, n, v, c, z, o) /\ n < MostListed BY <1>3, <1>4
    <3> QED BY <3>1, <3>2, OtherListKept, Zenon
  <2>4. E!Listed(r.arena, T[q]) = [k \in 1..m |-> c[at + k]] BY <1>6, <2>2 DEF E!Listed
  <2>5. E!Listed(a, S[q]) = [k \in 1..m |-> cells[at + k]] BY <1>3, <2>1, <2>2 DEF E!Listed
  <2>6. \A k \in 1..m : c[at + k] = cells[at + k] BY <2>3 DEF Untouched
  <2>7. E!Listed(r.arena, T[q]) = E!Listed(a, S[q]) BY <2>4, <2>5, <2>6
  <2> QED BY <1>6, <2>2, <2>3, <2>7 DEF Aside, Untouched
<1>9. Laid(r.arena, T)
  <2>1. ASSUME NEW q \in DOMAIN T
        PROVE  /\ T[q] \in Slice /\ T[q].length <= MostListed
               /\ T[q].length > 0 => T[q].offset + Span(T[q].length) <= z
    <3>1. CASE q = p BY <1>6, <1>7, <3>1
    <3>2. CASE q # p BY <1>8, <3>2
    <3> QED BY <3>1, <3>2
  <2>2. ASSUME NEW q \in DOMAIN T, NEW w \in DOMAIN T, q # w, T[q].length > 0, T[w].length > 0
        PROVE  Aside(T[q], T[w])
    <3>1. CASE q = p BY <1>8, <2>2, <3>1
    <3>2. CASE w = p BY <1>8, <2>2, <3>2
    <3>3. CASE q # p /\ w # p
      <4>1. T[q] = S[q] /\ T[w] = S[w] BY <3>3
      <4> QED BY <2>2, <4>1 DEF Laid
    <3> QED BY <3>1, <3>2, <3>3
  <2> QED BY <1>6, <1>7, <2>1, <2>2 DEF Laid
<1>10. /\ \A k \in 1..n : E!Listed(r.arena, T[p])[k] = E!Listed(a, S[p])[k]
       /\ E!Listed(r.arena, T[p])[n + 1] = v
  <2>1. E!Listed(r.arena, T[p]) = [k \in 1..(n + 1) |-> c[o + k]] BY <1>6 DEF E!Listed
  <2>2. E!Listed(a, S[p]) = [k \in 1..n |-> cells[offset + k]] BY <1>3 DEF E!Listed
  <2>3. (\A k \in 1..n : c[o + k] = cells[offset + k]) /\ c[o + (n + 1)] = v
    <3>1. (\A k \in 1..n : c[o + k] = cells[offset + k]) /\ c[o + n + 1] = v BY <1>4 DEF Extended
    <3>2. o + n + 1 = o + (n + 1) OBVIOUS
    <3> QED BY <3>1, <3>2
  <2>4. n + 1 \in 1..(n + 1) /\ \A k \in 1..n : k \in 1..(n + 1) OBVIOUS
  <2> QED BY <2>1, <2>2, <2>3, <2>4
<1> QED BY <1>3, <1>6, <1>8, <1>9, <1>10
-----------------------------------------------------------------------------
(* What Kept keeps of an increasing list, in order.                         *)

Increasing(s) == \A i, j \in 1..Len(s) : i < j => s[i] < s[j]

\* g is what the first n elements of s have in S.
Chosen(g, s, S, n) ==
    /\ g \in Seq(Nat) /\ Increasing(g)
    /\ \A i \in 1..Len(g) : \E m \in 1..n : g[i] = s[m] /\ s[m] \in S
    /\ \A m \in 1..n : s[m] \in S => \E i \in 1..Len(g) : g[i] = s[m]

Step(s, S, f, k) == IF s[k] \in S THEN Append(f[k - 1], s[k]) ELSE f[k - 1]

LEMMA ChosenNext ==
    ASSUME NEW s \in Seq(Nat), Increasing(s), NEW S, NEW n \in 1..Len(s), NEW g, Chosen(g, s, S, n - 1)
    PROVE  Chosen(IF s[n] \in S THEN Append(g, s[n]) ELSE g, s, S, n)
<1>1. Len(s) \in Nat /\ n - 1 \in Nat /\ g \in Seq(Nat) /\ Len(g) \in Nat /\ s[n] \in Nat
  BY DEF Chosen
<1>2. \A m \in 1..n : m = n \/ m \in 1..(n - 1) BY <1>1
<1>3. CASE s[n] \notin S
  <2>1. \A m \in 1..n : s[m] \in S => m \in 1..(n - 1) BY <1>2, <1>3
  <2>2. \A m \in 1..(n - 1) : m \in 1..n BY <1>1
  <2> QED BY <1>3, <2>1, <2>2 DEF Chosen
<1>4. CASE s[n] \in S
  <2> DEFINE h == Append(g, s[n])
  <2>1. /\ h \in Seq(Nat) /\ Len(h) = Len(g) + 1 /\ h[Len(g) + 1] = s[n]
        /\ \A i \in 1..Len(g) : h[i] = g[i]
    BY <1>1
  <2> HIDE DEF h
  <2>2. \A i \in 1..Len(h) : i = Len(g) + 1 \/ i \in 1..Len(g) BY <1>1, <2>1
  <2>3. \A i \in 1..Len(g) : g[i] \in Nat /\ g[i] < s[n]
    <3> SUFFICES ASSUME NEW i \in 1..Len(g) PROVE g[i] \in Nat /\ g[i] < s[n] OBVIOUS
    <3>1. PICK m \in 1..(n - 1) : g[i] = s[m] BY DEF Chosen
    <3>2. m \in 1..Len(s) /\ m < n BY <1>1
    <3> QED BY <3>1, <3>2 DEF Increasing
  <2>4. Increasing(h)
    <3> SUFFICES ASSUME NEW i \in 1..Len(h), NEW j \in 1..Len(h), i < j PROVE h[i] < h[j]
      BY DEF Increasing
    <3>1. i \in 1..Len(g) /\ i # Len(g) + 1
      <4>1. \A l \in Nat : \A x, y \in 1..(l + 1) : x < y => x \in 1..l /\ x # l + 1 OBVIOUS
      <4>2. Len(g) \in Nat /\ i \in 1..(Len(g) + 1) /\ j \in 1..(Len(g) + 1) BY <1>1, <2>1
      <4> HIDE DEF h
      <4> QED BY <4>1, <4>2
    <3>2. CASE j = Len(g) + 1 BY <2>1, <2>3, <3>1, <3>2
    <3>3. CASE j \in 1..Len(g) BY <2>1, <3>1, <3>3 DEF Chosen, Increasing
    <3> QED BY <2>2, <3>2, <3>3
  <2>5. ASSUME NEW i \in 1..Len(h) PROVE \E m \in 1..n : h[i] = s[m] /\ s[m] \in S
    <3>1. CASE i = Len(g) + 1
      <4>1. n \in 1..n BY <1>1
      <4> QED BY <1>4, <2>1, <3>1, <4>1
    <3>2. CASE i \in 1..Len(g)
      <4>1. PICK m \in 1..(n - 1) : g[i] = s[m] /\ s[m] \in S BY <3>2 DEF Chosen
      <4>2. m \in 1..n BY <1>1
      <4> QED BY <2>1, <3>2, <4>1, <4>2
    <3> QED BY <2>2, <3>1, <3>2
  <2>6. ASSUME NEW m \in 1..n, s[m] \in S PROVE \E i \in 1..Len(h) : h[i] = s[m]
    <3>1. CASE m = n
      <4>1. Len(g) + 1 \in 1..Len(h) BY <1>1, <2>1
      <4> QED BY <2>1, <3>1, <4>1
    <3>2. CASE m \in 1..(n - 1)
      <4>1. PICK i \in 1..Len(g) : g[i] = s[m] BY <2>6, <3>2 DEF Chosen
      <4>2. i \in 1..Len(h) BY <1>1, <2>1
      <4> QED BY <2>1, <4>1, <4>2
    <3> QED BY <1>2, <3>1, <3>2
  <2>7. Chosen(h, s, S, n) BY <2>1, <2>4, <2>5, <2>6 DEF Chosen
  <2> QED BY <1>4, <2>7 DEF h
<1> QED BY <1>3, <1>4

\* The values a function of the definition of Kept takes.
Filtering(s, S, f, n) ==
    /\ DOMAIN f = 0..n /\ f[0] = <<>>
    /\ \A k \in 1..n : f[k] = Step(s, S, f, k)

LEMMA FilteringChooses ==
    ASSUME NEW s \in Seq(Nat), Increasing(s), NEW S, NEW n \in 0..Len(s), NEW f, Filtering(s, S, f, n)
    PROVE  \A k \in 0..n : Chosen(f[k], s, S, k)
<1> DEFINE T == {k \in 0..n : ~Chosen(f[k], s, S, k)}
<1> SUFFICES ASSUME T # {} PROVE FALSE OBVIOUS
<1>1. PICK k \in T : \A m \in T : k <= m
  <2>1. T \in SUBSET Nat OBVIOUS
  <2> HIDE DEF T
  <2> QED BY <2>1, LeastOf
<1>2. Len(s) \in Nat /\ k \in 0..n /\ ~Chosen(f[k], s, S, k) OBVIOUS
<1>3. CASE k = 0
  <2>1. f[0] = <<>> BY DEF Filtering
  <2>2. Chosen(<<>>, s, S, 0) BY DEF Chosen, Increasing
  <2> QED BY <1>2, <1>3, <2>1, <2>2
<1>4. CASE k # 0
  <2>1. k \in 1..Len(s) /\ k \in 1..n /\ k - 1 \in 0..n /\ ~(k <= k - 1) BY <1>2, <1>4
  <2>2. Chosen(f[k - 1], s, S, k - 1) BY <1>1, <2>1
  <2>3. f[k] = IF s[k] \in S THEN Append(f[k - 1], s[k]) ELSE f[k - 1] BY <2>1 DEF Filtering, Step
  <2> HIDE DEF T
  <2> QED BY <1>2, <2>1, <2>2, <2>3, ChosenNext
<1> QED BY <1>3, <1>4

LEMMA FilteringExists ==
    ASSUME NEW s, NEW S, NEW N \in Nat
    PROVE  \A n \in 0..N : \E f : Filtering(s, S, f, n)
<1> DEFINE T == {n \in 0..N : ~ \E f : Filtering(s, S, f, n)}
<1> SUFFICES ASSUME T # {} PROVE FALSE OBVIOUS
<1>1. PICK n \in T : \A m \in T : n <= m
  <2>1. T \in SUBSET Nat OBVIOUS
  <2> HIDE DEF T
  <2> QED BY <2>1, LeastOf
<1>2. n \in 0..N /\ ~ \E f : Filtering(s, S, f, n) OBVIOUS
<1>3. CASE n = 0
  <2> DEFINE f == [k \in 0..0 |-> <<>>]
  <2>1. Filtering(s, S, f, 0) BY DEF Filtering
  <2> QED BY <1>2, <1>3, <2>1
<1>4. CASE n # 0
  <2>1. n - 1 \in 0..N /\ ~(n <= n - 1) BY <1>2, <1>4
  <2>2. PICK f : Filtering(s, S, f, n - 1) BY <1>1, <2>1
  <2> DEFINE g == [k \in 0..n |-> IF k = n THEN Step(s, S, f, n) ELSE f[k]]
  <2>3. \A k \in 0..(n - 1) : k \in 0..n /\ g[k] = f[k] BY <1>2
  <2>4. g[n] = Step(s, S, f, n) BY <1>2
  <2>5. DOMAIN g = 0..n OBVIOUS
  <2> HIDE DEF g
  <2>6. g[0] = <<>>
    <3>1. 0 \in 0..(n - 1) BY <1>2, <1>4
    <3> QED BY <2>2, <2>3, <3>1 DEF Filtering
  <2>7. ASSUME NEW k \in 1..n PROVE g[k] = Step(s, S, g, k)
    <3>1. k - 1 \in 0..(n - 1) BY <1>2
    <3>2. Step(s, S, g, k) = Step(s, S, f, k) BY <2>3, <3>1 DEF Step
    <3>3. CASE k = n BY <2>4, <3>2, <3>3
    <3>4. CASE k # n
      <4>1. k \in 1..(n - 1) /\ k \in 0..(n - 1) BY <1>2, <3>4
      <4> QED BY <2>2, <2>3, <3>2, <4>1 DEF Filtering
    <3> QED BY <3>3, <3>4
  <2>8. Filtering(s, S, g, n) BY <2>5, <2>6, <2>7 DEF Filtering
  <2> QED BY <1>2, <2>8
<1> QED BY <1>3, <1>4

\* The definition of Kept picks the one there is.
LEMMA KeptChooses ==
    ASSUME NEW s \in Seq(Nat), Increasing(s), NEW S
    PROVE  Chosen(E!Kept(s, S), s, S, Len(s))
<1> DEFINE N == Len(s)
           Eqn(f) == f = [k \in 0..Len(s) |->
                            IF k = 0 THEN <<>>
                            ELSE IF s[k] \in S THEN Append(f[k - 1], s[k]) ELSE f[k - 1]]
<1>1. N \in Nat /\ N \in 0..N OBVIOUS
<1>2. PICK h : Filtering(s, S, h, N) BY <1>1, FilteringExists
<1>3. Eqn([k \in 0..N |-> h[k]])
  <2> DEFINE f == [k \in 0..N |-> h[k]]
  <2>1. ASSUME NEW k \in 0..N
        PROVE  f[k] = IF k = 0 THEN <<>>
                      ELSE IF s[k] \in S THEN Append(f[k - 1], s[k]) ELSE f[k - 1]
    <3>1. k # 0 => k \in 1..N /\ k - 1 \in 0..N BY <1>1
    <3> HIDE DEF N
    <3> QED BY <1>2, <3>1 DEF Filtering, Step
  <2> QED BY <2>1
<1>4. PICK g : g = CHOOSE f : Eqn(f) OBVIOUS
<1>5. Eqn(g) BY <1>3, <1>4
<1>6. E!Kept(s, S) = g[N] BY <1>4 DEF E!Kept
<1>7. Filtering(s, S, g, N)
  <2>1. DOMAIN g = 0..N BY <1>5
  <2>2. \A k \in 0..N : g[k] = IF k = 0 THEN <<>>
                               ELSE IF s[k] \in S THEN Append(g[k - 1], s[k]) ELSE g[k - 1]
    BY <1>5
  <2>3. 0 \in 0..N /\ \A k \in 1..N : k \in 0..N /\ k # 0 BY <1>1
  <2> HIDE DEF N, Eqn
  <2> QED BY <2>1, <2>2, <2>3 DEF Filtering, Step
<1> HIDE DEF N
<1>8. Chosen(g[N], s, S, N) BY <1>1, <1>7, FilteringChooses DEF N
<1> QED BY <1>6, <1>8 DEF N

\* An increasing list is known by its elements: where two first differ, neither
\* can have the other's element later on.
Rising(f, n) ==
    /\ \A i \in 1..n : f[i] \in Nat
    /\ \A i, j \in 1..n : i < j => f[i] < f[j]
Within(f, m, g, n) == \A i \in 1..m : \E j \in 1..n : g[j] = f[i]

LEMMA NotBefore ==
    ASSUME NEW M \in Nat, NEW N \in Nat, NEW f, NEW g,
           Rising(f, M), Rising(g, N), NEW k \in 1..M, \A m \in 1..(k - 1) : f[m] = g[m],
           NEW j \in 1..N, g[j] = f[k]
    PROVE  k \in 1..N /\ g[k] <= f[k]
<1>1. ~(j < k)
  <2> SUFFICES ASSUME j < k PROVE FALSE OBVIOUS
  <2>1. j \in 1..(k - 1) /\ j \in 1..M OBVIOUS
  <2>2. f[j] = g[j] BY <2>1
  <2>3. f[j] < f[k] BY <2>1 DEF Rising
  <2>4. f[j] \in Nat /\ f[k] \in Nat BY <2>1 DEF Rising
  <2> QED BY <2>2, <2>3, <2>4
<1>2. k \in 1..N /\ (k < j \/ k = j) BY <1>1
<1>3. g[k] \in Nat /\ g[j] \in Nat BY <1>2 DEF Rising
<1>4. k < j => g[k] < g[j] BY <1>2 DEF Rising
<1> QED BY <1>2, <1>3, <1>4

LEMMA RisingOnce ==
    ASSUME NEW M \in Nat, NEW N \in Nat, NEW f, NEW g,
           Rising(f, M), Rising(g, N), Within(f, M, g, N), Within(g, N, f, M)
    PROVE  M = N /\ \A k \in 1..M : f[k] = g[k]
<1> DEFINE Same(k) == k \in 1..M /\ k \in 1..N /\ f[k] = g[k]
           Differ == {k \in Nat : (k \in 1..M \/ k \in 1..N) /\ ~Same(k)}
<1>1. Differ = {}
  <2> SUFFICES ASSUME Differ # {} PROVE FALSE OBVIOUS
  <2>1. PICK k \in Differ : \A m \in Differ : k <= m
    <3>1. Differ \in SUBSET Nat OBVIOUS
    <3> HIDE DEF Differ
    <3> QED BY <3>1, LeastOf
  <2>2. k \in Nat /\ (k \in 1..M \/ k \in 1..N) /\ ~Same(k) OBVIOUS
  <2>3. ASSUME NEW m \in 1..(k - 1) PROVE f[m] = g[m]
    <3>1. m \in Nat /\ ~(k <= m) /\ (m \in 1..M \/ m \in 1..N) BY <2>2
    <3>2. m \notin Differ BY <2>1, <3>1
    <3> QED BY <3>1, <3>2
  <2>4. \A m \in 1..(k - 1) : g[m] = f[m] BY <2>3
  <2> HIDE DEF Differ
  <2>5. k \in 1..M => k \in 1..N /\ g[k] <= f[k] BY <2>3, NotBefore DEF Within
  <2>6. k \in 1..N => k \in 1..M /\ f[k] <= g[k] BY <2>4, NotBefore DEF Within
  <2>7. k \in 1..M /\ k \in 1..N /\ g[k] <= f[k] /\ f[k] <= g[k] BY <2>2, <2>5, <2>6
  <2>8. f[k] \in Nat /\ g[k] \in Nat BY <2>7 DEF Rising
  <2>9. f[k] = g[k] BY <2>7, <2>8
  <2> QED BY <2>2, <2>7, <2>9
<1>2. \A k \in Nat : (k \in 1..M \/ k \in 1..N) => Same(k) BY <1>1
<1>3. ~(M < N)
  <2>1. M < N => M + 1 \in 1..N /\ M + 1 \notin 1..M OBVIOUS
  <2> QED BY <1>2, <2>1
<1>4. ~(N < M)
  <2>1. N < M => N + 1 \in 1..M /\ N + 1 \notin 1..N OBVIOUS
  <2> QED BY <1>2, <2>1
<1>5. \A k \in 1..M : f[k] = g[k] BY <1>2
<1> QED BY <1>3, <1>4, <1>5

LEMMA IncreasingOnce ==
    ASSUME NEW f \in Seq(Nat), NEW g \in Seq(Nat), Increasing(f), Increasing(g),
           Within(f, Len(f), g, Len(g)), Within(g, Len(g), f, Len(f))
    PROVE  f = g
<1>1. PICK M \in Nat : M = Len(f) /\ f \in [1..M -> Nat] BY LenProperties
<1>2. PICK N \in Nat : N = Len(g) /\ g \in [1..N -> Nat] BY LenProperties
<1>3. Rising(f, M) /\ Rising(g, N) BY <1>1, <1>2 DEF Rising, Increasing
<1>4. Within(f, M, g, N) /\ Within(g, N, f, M) BY <1>1, <1>2
<1>5. f \in [1..M -> Nat] /\ g \in [1..N -> Nat] BY <1>1, <1>2
<1>6. M = N /\ \A k \in 1..M : f[k] = g[k] BY <1>3, <1>4, <1>5, RisingOnce
<1> QED BY <1>5, <1>6
-----------------------------------------------------------------------------
(* Each node's list names its own edges, whatever is added and grows in turn. *)

EndOf(e, side) == IF side = "from" THEN e.from ELSE e.to
Slots == {"from", "to"} \X Ids
ListsOf(f, t) == [p \in Slots |-> E!SliceOf(IF p[1] = "from" THEN f ELSE t, p[2])]

\* The list of the edges of es that have the node at this end.
Names(list, p, es) ==
    /\ list \in Seq(Nat) /\ Increasing(list)
    /\ \A k \in 1..Len(list) : list[k] < Len(es) /\ EndOf(es[list[k] + 1], p[1]) = p[2]
    /\ \A i \in 1..Len(es) : EndOf(es[i], p[1]) = p[2] => \E k \in 1..Len(list) : list[k] = i - 1

EInv ==
    /\ files \in Nat /\ commands \in Nat
    /\ edges \in Seq(Candidates) /\ Len(edges) <= MaxEdges
    /\ from \in Indexes /\ to \in Indexes
    /\ Laid(arena, ListsOf(from, to))
    /\ \A p \in Slots :
        /\ ListsOf(from, to)[p].length <= Len(edges)
        /\ Names(E!Listed(arena, ListsOf(from, to)[p]), p, edges)

\* One list is another, and the rest are as they were.
OnlyAt(new, old, p, s) == new[p] = s /\ \A x \in Slots : x # p => new[x] = old[x]

LEMMA SlotSet ==
    ASSUME WordBits \in Nat \ {0}, PageCells \in Nat \ {0},
           NEW f \in Indexes, NEW t \in Indexes, NEW id \in Ids, NEW s \in Slice
    PROVE  /\ OnlyAt(ListsOf(E!SetSlice(f, id, s), t), ListsOf(f, t), <<"from", id>>, s)
           /\ OnlyAt(ListsOf(f, E!SetSlice(t, id, s)), ListsOf(f, t), <<"to", id>>, s)
<1>1. <<"from", id>> \in Slots /\ <<"to", id>> \in Slots BY DEF Slots
<1>2. /\ \A other \in Ids : E!SliceOf(E!SetSlice(f, id, s), other) = IF other = id THEN s ELSE E!SliceOf(f, other)
      /\ \A other \in Ids : E!SliceOf(E!SetSlice(t, id, s), other) = IF other = id THEN s ELSE E!SliceOf(t, other)
  BY SliceSet
<1>3. \A p \in Slots : p[1] \in {"from", "to"} /\ p[2] \in Ids /\ p = <<p[1], p[2]>> BY DEF Slots
<1> QED BY <1>1, <1>2, <1>3 DEF ListsOf, OnlyAt

\* The list stays true when an edge of another node is added.
LEMMA StillNames ==
    ASSUME NEW es \in Seq(Candidates), NEW e \in Candidates, NEW p, NEW list, Names(list, p, es),
           EndOf(e, p[1]) # p[2]
    PROVE  Names(list, p, Append(es, e))
<1> DEFINE new == Append(es, e)
<1>1. /\ Len(es) \in Nat /\ Len(new) = Len(es) + 1 /\ new[Len(es) + 1] = e
      /\ \A i \in 1..Len(es) : new[i] = es[i]
  OBVIOUS
<1> HIDE DEF new
<1>2. list \in Seq(Nat) /\ \A k \in 1..Len(list) : list[k] \in Nat BY ElementOfSeq DEF Names
<1>3. ASSUME NEW k \in 1..Len(list) PROVE list[k] < Len(new) /\ EndOf(new[list[k] + 1], p[1]) = p[2]
  <2>1. list[k] < Len(es) /\ EndOf(es[list[k] + 1], p[1]) = p[2] BY DEF Names
  <2>2. list[k] \in Nat BY <1>2
  <2>3. list[k] + 1 \in 1..Len(es) BY <1>1, <2>1, <2>2
  <2> QED BY <1>1, <2>1, <2>2, <2>3
<1>4. ASSUME NEW i \in 1..Len(new), EndOf(new[i], p[1]) = p[2]
      PROVE  \E k \in 1..Len(list) : list[k] = i - 1
  <2>1. i # Len(es) + 1 BY <1>1, <1>4
  <2>2. i \in 1..Len(es) BY <1>1, <2>1
  <2> QED BY <1>1, <1>4, <2>2 DEF Names
<1> QED BY <1>2, <1>3, <1>4 DEF Names, new

\* So does it when the edge is its own and its index comes last.
LEMMA NamesOneMore ==
    ASSUME NEW es \in Seq(Candidates), NEW e \in Candidates, NEW p, NEW list, Names(list, p, es),
           EndOf(e, p[1]) = p[2], NEW more, more = [k \in 1..(Len(list) + 1) |-> more[k]],
           \A k \in 1..Len(list) : more[k] = list[k], more[Len(list) + 1] = Len(es)
    PROVE  Names(more, p, Append(es, e)) /\ Len(more) = Len(list) + 1
<1> DEFINE new == Append(es, e)
           h == Append(list, Len(es))
<1>1. /\ Len(es) \in Nat /\ Len(new) = Len(es) + 1 /\ new[Len(es) + 1] = e
      /\ \A i \in 1..Len(es) : new[i] = es[i]
  OBVIOUS
<1>2. /\ list \in Seq(Nat) /\ Len(list) \in Nat
      /\ \A k \in 1..Len(list) : list[k] \in Nat /\ list[k] < Len(es)
  BY ElementOfSeq DEF Names
<1>3. /\ h \in Seq(Nat) /\ Len(h) = Len(list) + 1 /\ h[Len(list) + 1] = Len(es)
      /\ \A k \in 1..Len(list) : h[k] = list[k]
  BY <1>1, <1>2
<1> HIDE DEF new, h
<1>4. PICK n \in Nat : n = Len(list) BY <1>2
<1>5. \A k \in 1..(n + 1) : k = n + 1 \/ k \in 1..n OBVIOUS
<1>6. Increasing(h)
  <2> SUFFICES ASSUME NEW i \in 1..(n + 1), NEW j \in 1..(n + 1), i < j PROVE h[i] < h[j]
    BY <1>3, <1>4 DEF Increasing
  <2>1. i \in 1..n OBVIOUS
  <2>2. h[i] = list[i] /\ list[i] < Len(es) BY <1>2, <1>3, <1>4, <2>1
  <2>3. CASE j = n + 1 BY <1>3, <1>4, <2>2, <2>3
  <2>4. CASE j \in 1..n
    <3>1. list[i] < list[j] BY <1>4, <2>1, <2>4 DEF Names, Increasing
    <3>2. h[j] = list[j] BY <1>3, <1>4, <2>4
    <3> QED BY <2>2, <3>1, <3>2
  <2> QED BY <1>5, <2>3, <2>4
<1>7. ASSUME NEW k \in 1..(n + 1) PROVE h[k] < Len(new) /\ EndOf(new[h[k] + 1], p[1]) = p[2]
  <2>1. CASE k = n + 1 BY <1>1, <1>3, <1>4, <2>1
  <2>2. CASE k \in 1..n
    <3>1. h[k] = list[k] /\ list[k] \in Nat /\ list[k] < Len(es) BY <1>2, <1>3, <1>4, <2>2
    <3>2. EndOf(es[list[k] + 1], p[1]) = p[2] BY <1>4, <2>2 DEF Names
    <3>3. list[k] + 1 \in 1..Len(es) BY <1>1, <3>1
    <3> QED BY <1>1, <3>1, <3>2, <3>3
  <2> QED BY <1>5, <2>1, <2>2
<1>8. ASSUME NEW i \in 1..Len(new), EndOf(new[i], p[1]) = p[2]
      PROVE  \E k \in 1..(n + 1) : h[k] = i - 1
  <2>1. CASE i = Len(es) + 1
    <3>1. n + 1 \in 1..(n + 1) /\ h[n + 1] = Len(es) BY <1>3, <1>4
    <3>2. i - 1 = Len(es) BY <1>1, <2>1
    <3> QED BY <3>1, <3>2
  <2>2. CASE i # Len(es) + 1
    <3>1. i \in 1..Len(es) BY <1>1, <2>2
    <3>2. PICK k \in 1..n : list[k] = i - 1 BY <1>1, <1>4, <1>8, <3>1 DEF Names
    <3>3. k \in 1..(n + 1) /\ h[k] = list[k] BY <1>3, <1>4
    <3> QED BY <3>2, <3>3
  <2> QED BY <2>1, <2>2
<1>9. more = h
  <2>1. h \in [1..(n + 1) -> Nat] BY <1>3, <1>4, LenProperties
  <2>2. \A k \in 1..(n + 1) : more[k] = h[k] BY <1>3, <1>4, <1>5
  <2>3. more = [k \in 1..(n + 1) |-> more[k]] BY <1>4
  <2>4. h = [k \in 1..(n + 1) |-> h[k]] BY <2>1
  <2> QED BY <2>2, <2>3, <2>4
<1>10. Len(h) = n + 1 BY <1>3, <1>4
<1> QED BY <1>3, <1>6, <1>7, <1>8, <1>9, <1>10 DEF Names, new

LEMMA EInitHolds == E!GraphAssumption /\ E!Init => EInv
<1> SUFFICES ASSUME E!GraphAssumption, E!Init PROVE EInv OBVIOUS
<1>1. /\ files = 2 /\ commands = 0 /\ edges = <<>> /\ arena = [cells |-> <<>>, size |-> 0]
      /\ from = E!NoIndex /\ to = E!NoIndex
  BY DEF E!Init
<1>2. E!NoIndex \in Indexes
  BY DEF E!NoIndex, E!NoMap, E!NoCells, Indexes, Maps, Table
<1>3. ASSUME NEW id \in Ids PROVE E!SliceOf(E!NoIndex, id) = E!NoSlice
  <2>1. id.kind \in Kinds /\ id.index \in Nat BY DEF Ids
  <2>2. E!WordOf(id.index) \in Nat \ {0} BY <2>1, PlaceOfBit DEF E!GraphAssumption
  <2>3. E!NoIndex.offset[id.kind] = E!NoCells BY <2>1 DEF E!NoIndex, E!NoMap
  <2>4. Len(E!NoCells.words) = 0 BY DEF E!NoCells
  <2>5. ~E!MapHas(E!NoIndex.offset, id) BY <2>2, <2>3, <2>4 DEF E!MapHas, E!Holds
  <2> QED BY <2>5 DEF E!SliceOf
<1>4. \A p \in Slots : p[1] \in {"from", "to"} /\ p[2] \in Ids BY DEF Slots
<1> DEFINE L == ListsOf(from, to)
<1>5. DOMAIN L = Slots /\ \A p \in Slots : L[p] = [offset |-> 0, length |-> 0]
  BY <1>1, <1>3, <1>4 DEF ListsOf, E!NoSlice
<1> HIDE DEF L
<1>6. \A p \in Slots : L[p].length = 0 /\ L[p] \in Slice /\ L[p].length <= MostListed
  BY <1>5, PowersDouble DEF Slice
<1>7. Laid(arena, L)
  <2>1. arena \in Arenas /\ arena.size <= Len(arena.cells) BY <1>1 DEF Arenas
  <2>2. \A p \in Slots : ~(L[p].length > 0) BY <1>6
  <2> QED BY <1>5, <1>6, <2>1, <2>2 DEF Laid
<1>8. ASSUME NEW p \in Slots PROVE L[p].length <= Len(edges) /\ Names(E!Listed(arena, L[p]), p, edges)
  <2>1. E!Listed(arena, L[p]) = <<>>
    <3>1. E!Listed(arena, L[p]) = [k \in 1..0 |-> arena.cells[L[p].offset + k]] BY <1>6 DEF E!Listed
    <3>2. 1..0 = {} OBVIOUS
    <3> QED BY <3>1, <3>2
  <2>2. Names(<<>>, p, <<>>) BY DEF Names, Increasing
  <2>3. Len(edges) = 0 BY <1>1
  <2> QED BY <1>1, <1>6, <2>1, <2>2, <2>3
<1>9. Len(edges) <= MaxEdges /\ edges \in Seq(Candidates) BY <1>1, PowersDouble DEF E!GraphAssumption, MostListed
<1> QED BY <1>1, <1>2, <1>7, <1>8, <1>9 DEF EInv, L

\* One list of one node takes the index of the new edge.
LEMMA EnteredOnce ==
    ASSUME PageCells \in Nat \ {0},
           NEW es \in Seq(Candidates), NEW e \in Candidates, NEW a, NEW S, DOMAIN S = Slots, Laid(a, S),
           NEW p \in Slots, S[p].length < MostListed,
           Names(E!Listed(a, S[p]), p, es), EndOf(e, p[1]) = p[2],
           NEW r, r = E!AppendExtend(a, S[p], Len(es)),
           NEW T, DOMAIN T = Slots, T[p] = r.slice, \A q \in Slots : q # p => T[q] = S[q]
    PROVE  /\ Laid(r.arena, T) /\ T[p].length = S[p].length + 1
           /\ Names(E!Listed(r.arena, T[p]), p, Append(es, e))
           /\ \A q \in Slots : q # p => E!Listed(r.arena, T[q]) = E!Listed(a, S[q])
<1>1. Len(es) \in Nat OBVIOUS
<1>2. /\ Laid(r.arena, T)
      /\ \A q \in Slots : q # p => E!Listed(r.arena, T[q]) = E!Listed(a, S[q])
      /\ T[p].length = S[p].length + 1
      /\ \A k \in 1..S[p].length : E!Listed(r.arena, T[p])[k] = E!Listed(a, S[p])[k]
      /\ E!Listed(r.arena, T[p])[S[p].length + 1] = Len(es)
  BY <1>1, ListsStayApart
<1> DEFINE list == E!Listed(a, S[p])
           more == E!Listed(r.arena, T[p])
<1>3. PICK n \in Nat : n = S[p].length BY DEF Laid, Slice
<1>4. list = [k \in 1..n |-> list[k]] /\ list \in Seq(Nat)
  <2>1. list = [k \in 1..n |-> a.cells[S[p].offset + k]] BY <1>3 DEF E!Listed
  <2>2. \A k \in 1..n : list[k] = a.cells[S[p].offset + k] BY <2>1
  <2> QED BY <2>1, <2>2 DEF Names
<1>5. more = [k \in 1..(n + 1) |-> more[k]]
  <2>1. more = [k \in 1..(n + 1) |-> r.arena.cells[T[p].offset + k]] BY <1>2, <1>3 DEF E!Listed
  <2>2. \A k \in 1..(n + 1) : more[k] = r.arena.cells[T[p].offset + k] BY <2>1
  <2> QED BY <2>1, <2>2
<1>6. Names(list, p, es) OBVIOUS
<1>7. (\A k \in 1..n : more[k] = list[k]) /\ more[n + 1] = Len(es) BY <1>2, <1>3
<1> HIDE DEF list, more
<1>8. Len(list) = n BY <1>4
<1>9. Names(more, p, Append(es, e)) BY <1>5, <1>6, <1>7, <1>8, NamesOneMore
<1> QED BY <1>2, <1>9 DEF more

LEMMA AddEdgeKeeps == E!GraphAssumption /\ EInv /\ E!AddEdge => EInv'
<1> SUFFICES ASSUME E!GraphAssumption, EInv, E!AddEdge PROVE EInv' OBVIOUS
<1>0. /\ WordBits \in Nat \ {0} /\ PageCells \in Nat \ {0}
      /\ MaxEdges \in Nat /\ MaxEdges <= MostListed /\ MostListed \in Nat
  BY PowersDouble DEF E!GraphAssumption, MostListed
<1>1. PICK e \in Candidates :
        /\ Len(edges) < MaxEdges /\ edges' = Append(edges, e)
        /\ arena' = E!Enter(to, E!Enter(from, arena, e.from).arena, e.to).arena
        /\ from' = E!SetSlice(from, e.from, E!Enter(from, arena, e.from).slice)
        /\ to' = E!SetSlice(to, e.to, E!Enter(to, E!Enter(from, arena, e.from).arena, e.to).slice)
        /\ files' = files /\ commands' = commands
  BY DEF E!AddEdge
<1> DEFINE N == Len(edges)
           p == <<"from", e.from>>
           q == <<"to", e.to>>
           first == E!Enter(from, arena, e.from)
           second == E!Enter(to, first.arena, e.to)
           S == ListsOf(from, to)
           T == ListsOf(from', to)
           U == ListsOf(from', to')
<1>2. e.from \in Ids /\ e.to \in Ids BY DEF E!GraphAssumption, Ids
<1>3. /\ p \in Slots /\ q \in Slots /\ p # q
      /\ p[1] = "from" /\ p[2] = e.from /\ q[1] = "to" /\ q[2] = e.to
  BY <1>2 DEF Slots
<1>4. /\ edges \in Seq(Candidates) /\ N \in Nat /\ N < MostListed
      /\ from \in Indexes /\ to \in Indexes
      /\ Laid(arena, S) /\ DOMAIN S = Slots /\ DOMAIN T = Slots /\ DOMAIN U = Slots
      /\ \A x \in Slots : S[x].length \in Nat /\ S[x].length <= N /\ Names(E!Listed(arena, S[x]), x, edges)
  <2>1. DOMAIN S = Slots /\ DOMAIN T = Slots /\ DOMAIN U = Slots BY DEF ListsOf
  <2>2. edges \in Seq(Candidates) /\ N \in Nat /\ from \in Indexes /\ to \in Indexes /\ Laid(arena, S)
    BY DEF EInv
  <2>3. \A x \in Slots : S[x].length \in Nat BY <2>1, <2>2 DEF Laid, Slice
  <2>4. N < MostListed BY <1>0, <1>1, <2>2
  <2> QED BY <2>1, <2>2, <2>3, <2>4 DEF EInv
<1>5. first = E!AppendExtend(arena, S[p], N) /\ S[p].length < MostListed
  <2>1. S[p] = E!SliceOf(from, e.from) BY <1>3 DEF ListsOf
  <2>2. S[p].length \in Nat /\ S[p].length <= N BY <1>3, <1>4
  <2>3. S[p].length < MostListed BY <1>0, <1>4, <2>2
  <2> QED BY <2>1, <2>3 DEF E!Enter
<1>6. EndOf(e, p[1]) = p[2] /\ EndOf(e, q[1]) = q[2] BY <1>3 DEF EndOf
<1> HIDE DEF S, T, U, first, second, p, q
<1> DEFINE F == [x \in Slots |-> IF x = p THEN first.slice ELSE S[x]]
<1>7. DOMAIN F = Slots /\ F[p] = first.slice /\ \A x \in Slots : x # p => F[x] = S[x] BY <1>3
<1> HIDE DEF F
<1>8. /\ Laid(first.arena, F) /\ F[p].length = S[p].length + 1
      /\ Names(E!Listed(first.arena, F[p]), p, Append(edges, e))
      /\ \A x \in Slots : x # p => E!Listed(first.arena, F[x]) = E!Listed(arena, S[x])
  BY <1>0, <1>3, <1>4, <1>5, <1>6, <1>7, EnteredOnce DEF N
<1>9. T = F
  <2>1. first.slice \in Slice BY <1>3, <1>7, <1>8 DEF Laid
  <2>2. from' = E!SetSlice(from, e.from, first.slice) BY <1>1 DEF first
  <2>3. T[p] = first.slice /\ \A x \in Slots : x # p => T[x] = S[x]
    <3>1. e.from \in Ids /\ from \in Indexes /\ to \in Indexes BY <1>2, <1>4
    <3>2. OnlyAt(ListsOf(E!SetSlice(from, e.from, first.slice), to), ListsOf(from, to), <<"from", e.from>>, first.slice)
      BY <1>0, <2>1, <3>1, SlotSet
    <3>3. T = ListsOf(E!SetSlice(from, e.from, first.slice), to) BY <2>2 DEF T
    <3> QED BY <3>2, <3>3 DEF S, p, OnlyAt
  <2>4. \A x \in Slots : T[x] = F[x] BY <1>7, <2>3
  <2>5. T = [x \in Slots |-> T[x]] /\ F = [x \in Slots |-> F[x]] BY DEF T, F, ListsOf
  <2> QED BY <2>4, <2>5
<1>10. from' \in Indexes
  <2>1. first.slice \in Slice BY <1>3, <1>7, <1>8 DEF Laid
  <2>2. from' = E!SetSlice(from, e.from, first.slice) BY <1>1 DEF first
  <2> QED BY <1>0, <1>2, <1>4, <2>1, <2>2, SliceSet
<1>11. /\ second = E!AppendExtend(first.arena, T[q], N) /\ T[q].length < MostListed
       /\ T[q] = S[q] /\ Names(E!Listed(first.arena, T[q]), q, edges)
  <2>1. T[q] = S[q] BY <1>3, <1>7, <1>9
  <2>2. T[q] = E!SliceOf(to, e.to) BY <1>3 DEF T, ListsOf
  <2>3. S[q].length \in Nat /\ S[q].length <= N /\ Names(E!Listed(arena, S[q]), q, edges) BY <1>3, <1>4
  <2>4. S[q].length < MostListed BY <1>0, <1>4, <2>3
  <2>5. E!Listed(first.arena, T[q]) = E!Listed(arena, S[q]) BY <1>3, <1>8, <1>9
  <2> QED BY <2>1, <2>2, <2>3, <2>4, <2>5 DEF second, E!Enter
<1> DEFINE W == [x \in Slots |-> IF x = q THEN second.slice ELSE T[x]]
<1>12. DOMAIN W = Slots /\ W[q] = second.slice /\ \A x \in Slots : x # q => W[x] = T[x] BY <1>3
<1> HIDE DEF W
<1>13. /\ Laid(second.arena, W) /\ W[q].length = T[q].length + 1
       /\ Names(E!Listed(second.arena, W[q]), q, Append(edges, e))
       /\ \A x \in Slots : x # q => E!Listed(second.arena, W[x]) = E!Listed(first.arena, T[x])
  <2>1. Laid(first.arena, T) BY <1>8, <1>9
  <2> QED BY <1>0, <1>3, <1>4, <1>6, <1>11, <1>12, <2>1, EnteredOnce DEF N
<1>14. second.slice \in Slice BY <1>3, <1>12, <1>13 DEF Laid
<1>15. to' = E!SetSlice(to, e.to, second.slice) /\ arena' = second.arena BY <1>1 DEF first, second
<1>16. U = W
  <2>1. U[q] = second.slice /\ \A x \in Slots : x # q => U[x] = T[x]
    <3>1. e.to \in Ids /\ to \in Indexes BY <1>2, <1>4
    <3>2. OnlyAt(ListsOf(from', E!SetSlice(to, e.to, second.slice)), ListsOf(from', to), <<"to", e.to>>, second.slice)
      BY <1>0, <1>10, <1>14, <3>1, SlotSet
    <3>3. U = ListsOf(from', E!SetSlice(to, e.to, second.slice)) BY <1>15 DEF U
    <3> QED BY <3>2, <3>3 DEF T, q, OnlyAt
  <2>2. \A x \in Slots : U[x] = W[x] BY <1>12, <2>1
  <2>3. U = [x \in Slots |-> U[x]] /\ W = [x \in Slots |-> W[x]] BY DEF U, W, ListsOf
  <2> QED BY <2>2, <2>3
<1>17. to' \in Indexes BY <1>0, <1>2, <1>4, <1>14, <1>15, SliceSet
<1>18. edges' \in Seq(Candidates) /\ Len(edges') = N + 1 /\ Len(edges') <= MaxEdges
  BY <1>0, <1>1, <1>4 DEF N
<1>19. ASSUME NEW x \in Slots
       PROVE  U[x].length <= Len(edges') /\ Names(E!Listed(arena', U[x]), x, edges')
  <2>1. S[x].length \in Nat /\ S[x].length <= N BY <1>4
  <2>2. CASE x = p
    <3>1. U[x] = F[p] BY <1>3, <1>9, <1>12, <1>16, <2>2
    <3>2. U[x].length <= N + 1 BY <1>4, <1>8, <2>1, <2>2, <3>1
    <3>3. E!Listed(arena', U[x]) = E!Listed(first.arena, F[p])
      BY <1>3, <1>9, <1>13, <1>15, <1>16, <2>2
    <3> QED BY <1>1, <1>8, <1>18, <2>2, <3>2, <3>3
  <2>3. CASE x = q
    <3>1. U[x] = W[q] /\ U[x].length = S[q].length + 1 BY <1>11, <1>13, <1>16, <2>3
    <3>2. U[x].length <= N + 1 BY <1>4, <2>1, <2>3, <3>1
    <3> QED BY <1>1, <1>13, <1>15, <1>18, <2>3, <3>1, <3>2
  <2>4. CASE x # p /\ x # q
    <3>1. U[x] = S[x] BY <1>7, <1>9, <1>12, <1>16, <2>4
    <3>2. E!Listed(arena', U[x]) = E!Listed(arena, S[x])
      BY <1>8, <1>9, <1>13, <1>15, <1>16, <2>4
    <3>3. EndOf(e, x[1]) # x[2] BY <2>4 DEF EndOf, Slots, p, q
    <3>4. Names(E!Listed(arena, S[x]), x, edges) BY <1>4
    <3>5. Names(E!Listed(arena, S[x]), x, Append(edges, e)) BY <1>4, <3>3, <3>4, StillNames
    <3>6. U[x].length <= N + 1 BY <1>4, <2>1, <3>1
    <3> QED BY <1>1, <1>18, <3>2, <3>5, <3>6
  <2> QED BY <2>2, <2>3, <2>4
<1>20. Laid(arena', U) BY <1>13, <1>15, <1>16
<1>21. files' \in Nat /\ commands' \in Nat BY <1>1 DEF EInv
<1> QED BY <1>10, <1>17, <1>18, <1>19, <1>20, <1>21 DEF EInv, U

LEMMA EStepKept == E!GraphAssumption /\ EInv /\ [E!Next]_E!vars => EInv'
<1> SUFFICES ASSUME E!GraphAssumption, EInv, [E!Next]_E!vars PROVE EInv' OBVIOUS
<1>1. CASE E!AddFileNode BY <1>1 DEF E!AddFileNode, EInv
<1>2. CASE E!AddCommandNode BY <1>2 DEF E!AddCommandNode, EInv
<1>3. CASE E!AddEdge BY <1>3, AddEdgeKeeps
<1>4. CASE UNCHANGED E!vars BY <1>4 DEF E!vars, EInv
<1> QED BY <1>1, <1>2, <1>3, <1>4 DEF E!Next

SameKept(list, O, p, es) ==
    E!Kept(list, O) = E!Kept([i \in 1..Len(es) |-> i - 1], {i \in O : EndOf(es[i + 1], p[1]) = p[2]})

\* What a query filters out of a list is what it would filter out of all edges.
LEMMA EdgesOfAre ==
    ASSUME NEW es, NEW list, NEW p, es \in Seq(Candidates), Names(list, p, es),
           NEW O, O \subseteq 0..(Len(es) - 1)
    PROVE  SameKept(list, O, p, es)
<1> DEFINE all == [i \in 1..Len(es) |-> i - 1]
           P == {i \in O : EndOf(es[i + 1], p[1]) = p[2]}
           f == E!Kept(list, O)
           g == E!Kept(all, P)
<1>1. PICK n \in Nat : n = Len(es) OBVIOUS
<1>2. all \in Seq(Nat) /\ Len(all) = n /\ \A i \in 1..n : all[i] = i - 1
  <2>1. all = [i \in 1..n |-> i - 1] BY <1>1
  <2>2. \A i \in 1..n : i - 1 \in Nat OBVIOUS
  <2>3. all \in [1..n -> Nat] BY <2>1, <2>2
  <2> QED BY <2>1, <2>3
<1>3. Increasing(all) BY <1>2 DEF Increasing
<1>4. Chosen(g, all, P, n) BY <1>2, <1>3, KeptChooses
<1>5. list \in Seq(Nat) /\ Increasing(list) BY DEF Names
<1>6. Chosen(f, list, O, Len(list)) BY <1>5, KeptChooses
<1>7. /\ \A k \in 1..Len(list) : list[k] \in Nat /\ list[k] < n /\ EndOf(es[list[k] + 1], p[1]) = p[2]
      /\ \A i \in 1..n : EndOf(es[i], p[1]) = p[2] => \E k \in 1..Len(list) : list[k] = i - 1
  BY <1>1, <1>5, ElementOfSeq DEF Names
<1> HIDE DEF f, g
<1>8. Within(f, Len(f), g, Len(g))
  <2> SUFFICES ASSUME NEW i \in 1..Len(f) PROVE \E j \in 1..Len(g) : g[j] = f[i] BY DEF Within
  <2>1. PICK m \in 1..Len(list) : f[i] = list[m] /\ list[m] \in O BY <1>6 DEF Chosen
  <2>2. list[m] \in P /\ list[m] \in Nat /\ list[m] < n BY <1>7, <2>1
  <2>3. list[m] + 1 \in 1..n /\ all[list[m] + 1] = list[m] BY <1>2, <2>2
  <2> HIDE DEF P
  <2>4. PICK j \in 1..Len(g) : g[j] = all[list[m] + 1] BY <1>4, <2>2, <2>3 DEF Chosen
  <2> QED BY <2>1, <2>3, <2>4
<1>9. Within(g, Len(g), f, Len(f))
  <2> SUFFICES ASSUME NEW j \in 1..Len(g) PROVE \E i \in 1..Len(f) : f[i] = g[j] BY DEF Within
  <2>1. PICK m \in 1..n : g[j] = all[m] /\ all[m] \in P BY <1>4 DEF Chosen
  <2>2. all[m] = m - 1 /\ all[m] \in O /\ (m - 1) + 1 = m BY <1>2, <2>1
  <2>3. EndOf(es[m], p[1]) = p[2] BY <2>1, <2>2
  <2>4. PICK k \in 1..Len(list) : list[k] = m - 1 BY <1>7, <2>3
  <2>5. PICK i \in 1..Len(f) : f[i] = list[k] BY <1>6, <2>2, <2>4 DEF Chosen
  <2> QED BY <2>1, <2>2, <2>4, <2>5
<1>10. f \in Seq(Nat) /\ g \in Seq(Nat) /\ Increasing(f) /\ Increasing(g) BY <1>4, <1>6 DEF Chosen
<1>11. f = g BY <1>8, <1>9, <1>10, IncreasingOnce
<1> QED BY <1>11 DEF f, g, SameKept

LEMMA EInvFinds == E!GraphAssumption /\ EInv => E!EdgesAreFound
<1> SUFFICES ASSUME E!GraphAssumption, EInv,
                    NEW id \in E!NodesFound, NEW types \in SUBSET {e.type : e \in Candidates}
             PROVE  /\ E!Forward(id, types) =
                         [k \in DOMAIN E!Leaving(id, types) |-> edges[E!Leaving(id, types)[k] + 1].to]
                    /\ E!Backward(id, types) =
                         [k \in DOMAIN E!Entering(id, types) |-> edges[E!Entering(id, types)[k] + 1].from]
  BY DEF E!EdgesAreFound
<1> DEFINE O == E!OfTypes(types)
           p == <<"from", id>>
           q == <<"to", id>>
<1>1. id \in Ids
  <2>1. files \in Nat /\ commands \in Nat BY DEF EInv
  <2>2. \A i \in 0..(files - 1) : i \in Nat BY <2>1
  <2>3. \A i \in 1..(commands - 1) : i \in Nat BY <2>1
  <2> QED BY <2>2, <2>3 DEF E!NodesFound, E!NodeOf, E!GraphAssumption, Ids
<1>2. p \in Slots /\ q \in Slots /\ p[1] = "from" /\ p[2] = id /\ q[1] = "to" /\ q[2] = id
  BY <1>1 DEF Slots
<1>3. /\ ListsOf(from, to)[p] = E!SliceOf(from, id) /\ ListsOf(from, to)[q] = E!SliceOf(to, id)
  BY <1>2 DEF ListsOf
<1>4. /\ edges \in Seq(Candidates)
      /\ Names(E!Listed(arena, E!SliceOf(from, id)), p, edges)
      /\ Names(E!Listed(arena, E!SliceOf(to, id)), q, edges)
  BY <1>2, <1>3 DEF EInv
<1>5. O \subseteq 0..(Len(edges) - 1) /\ E!InOrder = [i \in 1..Len(edges) |-> i - 1]
  BY DEF E!OfTypes, E!Indices, E!InOrder
<1> HIDE DEF O
<1>6. E!EdgesOf(from, id, types) = E!Leaving(id, types)
  <2>1. E!Kept(E!Listed(arena, E!SliceOf(from, id)), O)
          = E!Kept(E!InOrder, {i \in O : EndOf(edges[i + 1], p[1]) = p[2]})
    <3>1. SameKept(E!Listed(arena, E!SliceOf(from, id)), O, p, edges)
      <4> HIDE DEF p
      <4> QED BY <1>4, <1>5, EdgesOfAre
    <3> QED BY <1>5, <3>1 DEF SameKept
  <2>2. {i \in O : EndOf(edges[i + 1], p[1]) = p[2]} = {i \in O : edges[i + 1].from = id}
    BY <1>2 DEF EndOf
  <2> QED BY <2>1, <2>2 DEF E!EdgesOf, E!Leaving, O
<1>7. E!EdgesOf(to, id, types) = E!Entering(id, types)
  <2>1. E!Kept(E!Listed(arena, E!SliceOf(to, id)), O)
          = E!Kept(E!InOrder, {i \in O : EndOf(edges[i + 1], q[1]) = q[2]})
    <3>1. SameKept(E!Listed(arena, E!SliceOf(to, id)), O, q, edges)
      <4> HIDE DEF q
      <4> QED BY <1>4, <1>5, EdgesOfAre
    <3> QED BY <1>5, <3>1 DEF SameKept
  <2>2. {i \in O : EndOf(edges[i + 1], q[1]) = q[2]} = {i \in O : edges[i + 1].to = id}
    BY <1>2 DEF EndOf
  <2> QED BY <2>1, <2>2 DEF E!EdgesOf, E!Entering, O
<1> QED BY <1>6, <1>7 DEF E!Forward, E!Backward

(***************************************************************************)
(* However many edges are added, in whatever order, every node finds the   *)
(* far ends of its own, in the order they were added (add_edge,            *)
(* append_extend, edges_for_each).                                         *)
(***************************************************************************)
THEOREM EveryNodeFindsItsEdges ==
    ASSUME E!GraphAssumption
    PROVE  E!Spec => []E!EdgesAreFound
<1>1. E!Init => EInv BY EInitHolds
<1>2. EInv /\ [E!Next]_(E!vars) => EInv' BY EStepKept
<1>3. EInv => E!EdgesAreFound BY EInvFinds
<1>4. QED BY <1>1, <1>2, <1>3, PTL DEF E!Spec
=============================================================================
