------------------------------ MODULE IdTables ------------------------------
(***************************************************************************)
(* The arrays that hold something for each id: IdBitSet, IdArray32, and    *)
(* NodeIdMap32, one array for each kind of node.  Arrays grow by whole     *)
(* pages of zeros; what is removed stays in its cell.                      *)
(***************************************************************************)
EXTENDS Integers, FiniteSets, SequencesExt

CONSTANTS
    Kinds,      \* "file", "command", "condition", "phi", as the tag of an id says
    WordBits,   \* 64
    PageCells   \* values, or words, in a page
-----------------------------------------------------------------------------
\* A table: cells for the values, and the words of the bits that say which ids
\* are in it, a word as the set of its bits.
NoCells == [cells |-> <<>>, words |-> <<>>]
Grown(s, n, zero) ==
    LET pages == (n + PageCells - 1) \div PageCells
    IN  IF n <= Len(s) THEN s ELSE s \o [i \in 1..(PageCells * pages - Len(s)) |-> zero]
ResizeWords(words, max) == Grown(words, (max \div WordBits) + 1, {})
Resize(t, max) ==
    [cells |-> Grown(t.cells, max + 1, 0), words |-> ResizeWords(t.words, max)]

WordOf(i) == (i \div WordBits) + 1
InsertBit(words, i) ==
    [IF WordOf(i) > Len(words) THEN ResizeWords(words, i) ELSE words
        EXCEPT ![WordOf(i)] = @ \cup {i % WordBits}]
RemoveBit(words, i) ==
    IF WordOf(i) > Len(words) THEN words ELSE [words EXCEPT ![WordOf(i)] = @ \ {i % WordBits}]

Put(t, i, v) ==
    LET roomy == IF i >= Len(t.cells) THEN Resize(t, i) ELSE t
    IN  [cells |-> [roomy.cells EXCEPT ![i + 1] = v], words |-> InsertBit(roomy.words, i)]
\* get() does not ask whether the id is there.
Cell(t, i) == IF i >= Len(t.cells) THEN 0 ELSE t.cells[i + 1]
Holds(t, i) == WordOf(i) <= Len(t.words) /\ i % WordBits \in t.words[WordOf(i)]
\* Mutant: the bit goes, and its whole word with it.
DropWord(t, i) ==
    [t EXCEPT !.words = IF WordOf(i) > Len(@) THEN @ ELSE [@ EXCEPT ![WordOf(i)] = {}]]
Drop(t, i) == [t EXCEPT !.words = RemoveBit(@, i)]
Emptied(t) ==
    [cells |-> [i \in DOMAIN t.cells |-> 0], words |-> [i \in DOMAIN t.words |-> {}]]
CountOf(t) == FoldLeft(LAMBDA n, word : n + Cardinality(word), 0, t.words)
Ascending(S) == SortSeq(FoldSet(LAMBDA x, s : Append(s, x), <<>>, S), <)
\* for_each: word by word, the lowest bit first.
IdsOf(t) ==
    FlattenSeq([w \in DOMAIN t.words |->
        LET bits == Ascending(t.words[w]) IN [k \in DOMAIN bits |-> (w - 1) * WordBits + bits[k]]])
-----------------------------------------------------------------------------
\* A NodeIdMap32; an id is [kind, index].
NoMap == [k \in Kinds |-> NoCells]
MapSet(m, id, v) == [m EXCEPT ![id.kind] = Put(@, id.index, v)]
MapGet(m, id) == Cell(m[id.kind], id.index)
MapHas(m, id) == Holds(m[id.kind], id.index)
MapRemove(m, id) == [m EXCEPT ![id.kind] = Drop(@, id.index)]
MapClear(m) == [k \in Kinds |-> Emptied(m[k])]
MapResize(m, kind, max) == [m EXCEPT ![kind] = Resize(@, max)]
MapSize(m) == FoldSet(LAMBDA k, n : n + CountOf(m[k]), 0, Kinds)
=============================================================================
