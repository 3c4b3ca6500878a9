------------------------------- MODULE IdMaps -------------------------------
(***************************************************************************)
(* Three ways the program keeps values by id, doing the same work side by  *)
(* side: the arrays of IdTables, the sorted pairs of SortedPairVec found   *)
(* by halving, and the sorted ids of SortedIdVec, which keep no value.     *)
(***************************************************************************)
EXTENDS IdTables

CONSTANTS Ids, Payloads, MaxIndex

VARIABLES
    table,   \* NodeIdMap32
    pairs,   \* SortedPairVec: a sequence of [key, value]
    ids,     \* SortedIdVec
    held     \* history: the function they stand for

vars == <<table, pairs, ids, held>>
-----------------------------------------------------------------------------
\* The key of an id in one space: files below commands, as their tags are.
Rank(kind) == IF kind = "file" THEN 0 ELSE 1
KeyOf(id) == Rank(id.kind) * (MaxIndex + 1) + id.index

\* Mutant: the half above keeps its middle out of reach.
RECURSIVE Halve(_, _, _, _)
Halve(keys, k, lo, hi) ==
    LET mid == lo + ((hi - lo) \div 2)
    IN  IF lo >= hi THEN lo
        ELSE IF keys[mid + 1] < k THEN Halve(keys, k, mid + 1, hi) ELSE Halve(keys, k, lo, mid)
LowerBound(keys, k) == Halve(keys, k, 0, Len(keys))
IsAt(keys, k, pos) == pos < Len(keys) /\ keys[pos + 1] = k
HasKey(keys, k) == IsAt(keys, k, LowerBound(keys, k))

\* insert() of an id that is there changes nothing.
InsertId(s, k) ==
    IF HasKey(s, k) THEN s ELSE InsertAt(s, LowerBound(s, k) + 1, k)
RemoveId(s, k) ==
    IF HasKey(s, k) THEN RemoveAt(s, LowerBound(s, k) + 1) ELSE s
MergeFrom(s, other) == FoldLeft(InsertId, s, other)

KeysOf(ps) == [i \in DOMAIN ps |-> ps[i].key]
InsertPair(ps, k, v) ==
    IF HasKey(KeysOf(ps), k) THEN [ps EXCEPT ![LowerBound(KeysOf(ps), k) + 1].value = v]
    ELSE InsertAt(ps, LowerBound(KeysOf(ps), k) + 1, [key |-> k, value |-> v])
FindPair(ps, k) ==
    IF HasKey(KeysOf(ps), k) THEN {ps[LowerBound(KeysOf(ps), k) + 1].value} ELSE {}
RemovePair(ps, k) ==
    IF HasKey(KeysOf(ps), k) THEN RemoveAt(ps, LowerBound(KeysOf(ps), k) + 1) ELSE ps
-----------------------------------------------------------------------------
Init == table = NoMap /\ pairs = <<>> /\ ids = <<>> /\ held = <<>>

Set ==
    \E id \in Ids, v \in Payloads :
        /\ table' = MapSet(table, id, v)
        /\ pairs' = InsertPair(pairs, KeyOf(id), v)
        /\ ids' = InsertId(ids, KeyOf(id))
        /\ held' = [i \in DOMAIN held \cup {id} |-> IF i = id THEN v ELSE held[i]]

Without(S) == [i \in DOMAIN held \ S |-> held[i]]
TakeOut ==
    \E id \in Ids :
        /\ table' = MapRemove(table, id)
        /\ pairs' = RemovePair(pairs, KeyOf(id))
        /\ ids' = RemoveId(ids, KeyOf(id))
        /\ held' = Without({id})

\* Several ids at once, a SortedIdVec of theirs merged in.
Merge ==
    \E S \in SUBSET Ids, v \in Payloads :
        /\ Cardinality(S) = 2
        /\ table' = FoldSet(LAMBDA id, m : MapSet(m, id, v), table, S)
        /\ pairs' = FoldSet(LAMBDA id, ps : InsertPair(ps, KeyOf(id), v), pairs, S)
        /\ ids' = MergeFrom(ids, Ascending({KeyOf(id) : id \in S}))
        /\ held' = [i \in DOMAIN held \cup S |-> IF i \in S THEN v ELSE held[i]]

Clear ==
    /\ table' = MapClear(table) /\ pairs' = <<>> /\ ids' = <<>> /\ held' = <<>>

\* Room made ahead shows in no answer.
Presize ==
    \E kind \in Kinds :
        /\ table' = MapResize(table, kind, MaxIndex) /\ UNCHANGED <<pairs, ids, held>>

Next == Set \/ TakeOut \/ Merge \/ Clear \/ Presize
Spec == Init /\ [][Next]_vars
-----------------------------------------------------------------------------
(***************************************************************************)
(* Each of the three answers as the function they stand for: which ids are *)
(* in it, in order and how many, and with which value, whatever was        *)
(* removed, put back and cleared before (NodeIdMap32, SortedPairVec,       *)
(* SortedIdVec).                                                           *)
(***************************************************************************)
MapsAgree ==
    /\ \A id \in Ids :
           /\ MapHas(table, id) <=> id \in DOMAIN held
           /\ id \in DOMAIN held => MapGet(table, id) = held[id]
           /\ FindPair(pairs, KeyOf(id)) = {held[i] : i \in DOMAIN held \cap {id}}
           /\ HasKey(ids, KeyOf(id)) <=> id \in DOMAIN held
    /\ MapSize(table) = Cardinality(DOMAIN held)
    /\ KeysOf(pairs) = ids /\ ids = Ascending({KeyOf(id) : id \in DOMAIN held})
    /\ \A kind \in Kinds :
           IdsOf(table[kind]) = Ascending({id.index : id \in {i \in DOMAIN held : i.kind = kind}})
=============================================================================
