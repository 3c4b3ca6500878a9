-------------------------- MODULE IndexFileProofs --------------------------
(***************************************************************************)
(* What a reader may rely on, proved for every set of records a build may  *)
(* save, every damage to a saved image, and every point at which a save    *)
(* fails or the machine goes down.                                         *)
(***************************************************************************)
EXTENDS IndexFile, TLAPS, SequenceTheorems, NaturalsInduction, WellFoundedInduction

(***************************************************************************)
(* Reading.  The header of an image that opens describes sections inside   *)
(* the file, and every position a reader derives is checked against them.  *)
(***************************************************************************)
\* What an image that opens has passed.
LEMMA OpenMeans ==
    ASSUME NEW img, NEW floor, img # NoImage, img.cells \in Seq(Nat)
    PROVE  /\ Opened(img, floor) \in {"damaged", "version", "open"}
           /\ Opened(img, floor) = "open" <=>
                /\ Len(img.cells) >= HeaderSize
                /\ Header(img).magic = Magic /\ Header(img).version \in floor..Version
                /\ DeclaredLayoutFits(img) /\ ChecksumHolds(img)
<1>1. CASE Len(img.cells) < HeaderSize
  <2>1. ~(Len(img.cells) >= HeaderSize)
    BY <1>1 DEF HeaderSize
  <2>2. Opened(img, floor) = "damaged"
    BY <1>1, <2>1 DEF Opened
  <2> QED
    BY <2>1, <2>2
<1>2. CASE Len(img.cells) >= HeaderSize
  <2>1. ~(Len(img.cells) < HeaderSize)
    BY <1>2 DEF HeaderSize
  <2>2. CASE Header(img).magic # Magic
    <3>1. Opened(img, floor) = "damaged"
      BY <1>2, <2>1, <2>2 DEF Opened
    <3> QED
      BY <2>2, <3>1
  <2>3. CASE Header(img).magic = Magic /\ Header(img).version \notin floor..Version
    <3>1. Opened(img, floor) = "version"
      BY <1>2, <2>1, <2>3 DEF Opened
    <3> QED
      BY <2>3, <3>1
  <2>4. CASE Header(img).magic = Magic /\ Header(img).version \in floor..Version
    <3>1. Opened(img, floor) = IF DeclaredLayoutFits(img) /\ ChecksumHolds(img) THEN "open" ELSE "damaged"
      BY <1>2, <2>1, <2>4 DEF Opened
    <3> QED
      BY <1>2, <2>4, <3>1
  <2> QED
    BY <2>2, <2>3, <2>4
<1> QED
  BY <1>1, <1>2 DEF HeaderSize

\* A header is twelve words.
LEMMA HeaderWords ==
    ASSUME NEW img, img.cells \in Seq(Nat), Len(img.cells) >= 12,
           NEW h, h = Header(img)
    PROVE  /\ h.files \in Nat /\ h.commands \in Nat /\ h.edges \in Nat /\ h.string_size \in Nat
           /\ h.file_offset \in Nat /\ h.command_offset \in Nat /\ h.edge_offset \in Nat
           /\ h.table_offset \in Nat /\ h.data_offset \in Nat /\ h.string_offset \in Nat
<1>1. \A i \in 1..12 : img.cells[i] \in Nat
  OBVIOUS
<1> QED
  BY <1>1 DEF Header

\* A cell inside the file is a word.
LEMMA CellWords ==
    ASSUME NEW img, img.cells \in Seq(Nat), NEW a \in 0..(Len(img.cells) - 1)
    PROVE  Cell(img, a) \in Nat
<1>1. img.cells[a + 1] \in Nat
  OBVIOUS
<1> QED
  BY <1>1 DEF Cell

\* What fits lies inside.
LEMMA FitsInside ==
    ASSUME NEW end \in Nat, NEW off \in Nat, NEW size \in Nat, Fits(end, off, size)
    PROVE  off + size <= end
BY DEF Fits

LEMMA SpanInside ==
    ASSUME NEW end \in Nat, NEW off \in Nat, NEW size \in Nat, off + size <= end
    PROVE  Span(off, size) \subseteq 0..(end - 1)
BY DEF Span

\* Ahead of what is inside.
LEMMA Within ==
    ASSUME NEW end \in Nat, NEW last \in Nat, NEW more \in Nat, last + more <= end,
           NEW off \in Nat, NEW size \in Nat, off + size <= last
    PROVE  off + size <= end
OBVIOUS

\* The strings of a table.
LEMMA TableArithmetic ==
    ASSUME NEW end \in Nat, NEW off \in Nat, NEW size \in Nat, off + size <= end,
           NEW pos \in Nat, pos + 1 <= off + size
    PROVE  /\ pos \in 0..(end - 1)
           /\ \A len \in Nat : pos + 1 + len <= off + size => Span(pos, 1 + len) \subseteq 0..(end - 1)
BY DEF Span

LEMMA TablePosition ==
    ASSUME NEW end \in Nat, NEW off \in Nat, NEW size \in Nat, off + size <= end,
           NEW at \in Nat, off + at + 1 <= off + size
    PROVE  off + at \in Span(off, size) /\ off + at \in 0..(end - 1)
BY DEF Span

LEMMA TableString ==
    ASSUME NEW off \in Nat, NEW size \in Nat, NEW at \in Nat, NEW len \in Nat,
           NEW first, first = off + at + 1, first + len <= off + size
    PROVE  first..(first + len - 1) \subseteq Span(off, size)
BY DEF Span

\* An entry of a table of single cells.
LEMMA EntryInside ==
    ASSUME NEW end \in Nat, NEW off \in Nat, NEW rows \in Nat, off + rows <= end, NEW i \in 1..rows
    PROVE  off + i - 1 \in 0..(end - 1)
OBVIOUS

\* The six words a record of operands begins with, and its length.
LEMMA HeadInside ==
    ASSUME NEW end \in Nat, NEW pos \in Nat, pos + 6 <= end, NEW k \in 1..6
    PROVE  pos + k - 1 \in 0..(end - 1)
OBVIOUS

LEMMA RecordArithmetic ==
    ASSUME NEW end \in Nat, NEW last \in Nat, NEW more \in Nat, last + more <= end,
           NEW pos \in Nat, pos + 6 <= last,
           NEW head, \A k \in 1..6 : head[k] \in Nat,
           NEW size, size = 6 + head[1] + head[2] + head[5] + (head[3] + 1) + (head[4] + 1) + (head[6] + 1)
    PROVE  /\ size \in Nat
           /\ Span(pos, 6) \subseteq 0..(end - 1)
           /\ pos + size <= last => Span(pos, size) \subseteq 0..(end - 1)
<1>1. /\ head[1] \in Nat /\ head[2] \in Nat /\ head[3] \in Nat
      /\ head[4] \in Nat /\ head[5] \in Nat /\ head[6] \in Nat
  OBVIOUS
<1>2. size \in Nat
  BY <1>1
<1>3. Span(pos, 6) \subseteq 0..(end - 1)
  BY DEF Span
<1>4. pos + size <= last => Span(pos, size) \subseteq 0..(end - 1)
  BY <1>2 DEF Span
<1> QED
  BY <1>2, <1>3, <1>4

\* A cell of a row of a table of rows of five.
LEMMA RowInside ==
    ASSUME NEW end \in Nat, NEW off \in Nat, NEW rows \in Nat, off + rows * 5 <= end,
           NEW i \in 1..rows, NEW j \in 1..5
    PROVE  off + (i - 1) * 5 + j - 1 \in 0..(end - 1)
OBVIOUS

LEMMA RowStarts ==
    ASSUME NEW off \in Nat, NEW rows \in Nat, NEW i \in 1..rows
    PROVE  off + (i - 1) * 5 \in Nat
OBVIOUS

LEMMA RowCells ==
    ASSUME NEW off \in Nat, NEW rows \in Nat, NEW i \in 1..rows, NEW at, at = off + (i - 1) * 5
    PROVE  at..(at + 5 - 1) \subseteq Span(off, rows * 5)
BY DEF Span

LEMMA SpanOfWords ==
    ASSUME NEW off \in Nat, NEW size \in Nat
    PROVE  Span(off, size) \subseteq Int
BY DEF Span

LEMMA Multiples ==
    ASSUME NEW n \in Nat
    PROVE  n * 5 \in Nat /\ n * 3 \in Nat
OBVIOUS

\* An image whose declared layout has been checked.
Sound(img) == img.cells \in Seq(Nat) /\ Len(img.cells) >= 12 /\ DeclaredLayoutFits(img)

\* Its header, its cells.
LEMMA SoundWords ==
    ASSUME NEW img, Sound(img), NEW h, h = Header(img)
    PROVE  /\ h.files \in Nat /\ h.commands \in Nat /\ h.edges \in Nat /\ h.string_size \in Nat
           /\ h.file_offset \in Nat /\ h.command_offset \in Nat /\ h.edge_offset \in Nat
           /\ h.table_offset \in Nat /\ h.data_offset \in Nat /\ h.string_offset \in Nat
           /\ Len(img.cells) \in Nat
           /\ \A a \in 0..(Len(img.cells) - 1) : Cell(img, a) \in Nat
<1>1. img.cells \in Seq(Nat) /\ Len(img.cells) >= 12
  BY DEF Sound
<1> QED
  BY <1>1, HeaderWords, CellWords, LenProperties

\* Every section lies inside the file.
LEMMA SectionsInside ==
    ASSUME NEW img, Sound(img),
           NEW h, h = Header(img)
    PROVE  /\ h.file_offset + h.files * 5 <= Len(img.cells)
           /\ h.command_offset + h.commands * 5 <= Len(img.cells)
           /\ h.edge_offset + h.edges * 3 <= Len(img.cells)
           /\ h.table_offset + h.commands <= Len(img.cells)
           /\ h.string_offset + h.string_size <= Len(img.cells)
<1> PICK end \in Nat : end = Len(img.cells)
  BY SoundWords
<1>1. /\ Fits(end, h.file_offset, h.files * 5)
      /\ Fits(end, h.command_offset, h.commands * 5)
      /\ Fits(end, h.edge_offset, h.edges * 3)
      /\ Fits(end, h.table_offset, h.commands)
      /\ Fits(end, h.string_offset, h.string_size)
  BY DEF Sound, DeclaredLayoutFits, FileSize, CommandSize, EdgeSize
<1>2. h.files \in Nat /\ h.commands \in Nat /\ h.edges \in Nat
  BY SoundWords
<1>3. h.files * 5 \in Nat /\ h.commands * 5 \in Nat /\ h.edges * 3 \in Nat
  BY <1>2, Multiples
<1>4. h.file_offset + h.files * 5 <= end
  BY <1>1, <1>3, SoundWords, FitsInside
<1>5. h.command_offset + h.commands * 5 <= end
  BY <1>1, <1>3, SoundWords, FitsInside
<1>6. h.edge_offset + h.edges * 3 <= end
  BY <1>1, <1>3, SoundWords, FitsInside
<1>7. h.table_offset + h.commands <= end
  BY <1>1, SoundWords, FitsInside
<1>8. h.string_offset + h.string_size <= end
  BY <1>1, SoundWords, FitsInside
<1> QED
  BY <1>4, <1>5, <1>6, <1>7, <1>8

\* A string that is read lies in the table, and so in the file.
LEMMA StringInside ==
    ASSUME NEW img, Sound(img),
           NEW offset \in Nat
    PROVE  StringTouches(img, offset) \subseteq 0..(Len(img.cells) - 1)
<1> PICK end \in Nat : end = Len(img.cells)
  BY SoundWords
<1> PICK h : h = Header(img)
  OBVIOUS
<1> PICK so \in Nat : so = h.string_offset
  BY SoundWords
<1> PICK ss \in Nat : ss = h.string_size
  BY SoundWords
<1>2. so + ss <= end
  BY SectionsInside
<1> PICK pos \in Nat : pos = so + offset
  OBVIOUS
<1>3. pos = StringPos(img, offset) /\ TableEnd(img) = so + ss
  BY DEF StringPos, TableEnd
<1>4. CASE ~StringStarts(img, offset)
  BY <1>4 DEF StringTouches
<1>5. CASE StringStarts(img, offset)
  <2>1. pos + 1 <= so + ss
    BY <1>3, <1>5 DEF StringStarts
  <2>2. /\ pos \in 0..(end - 1)
        /\ \A len \in Nat : pos + 1 + len <= so + ss => Span(pos, 1 + len) \subseteq 0..(end - 1)
    BY <1>2, <2>1, TableArithmetic
  <2> PICK len \in Nat : len = Cell(img, pos)
    BY <2>2, SoundWords
  <2>3. StringEnds(img, offset) => pos + 1 + len <= so + ss
    BY <1>3 DEF StringEnds
  <2>4. StringEnds(img, offset) => Span(pos, 1 + len) \subseteq 0..(end - 1)
    BY <2>2, <2>3
  <2> QED
    BY <1>3, <1>5, <2>2, <2>4 DEF StringTouches
<1> QED
  BY <1>4, <1>5

\* The operands of a command that are read lie ahead of the strings.
LEMMA RecordInside ==
    ASSUME NEW img, Sound(img),
           NEW i \in 1..Header(img).commands
    PROVE  RecordTouches(img, i) \subseteq 0..(Len(img.cells) - 1)
<1> PICK end \in Nat : end = Len(img.cells)
  BY SoundWords
<1> PICK h : h = Header(img)
  OBVIOUS
<1> PICK so \in Nat : so = h.string_offset
  BY SoundWords
<1> PICK ss \in Nat : ss = h.string_size
  BY SoundWords
<1> PICK to \in Nat : to = h.table_offset
  BY SoundWords
<1> PICK n \in Nat : n = h.commands
  BY SoundWords
<1> PICK do \in Nat : do = h.data_offset
  BY SoundWords
<1>1. so + ss <= end
  BY SectionsInside
<1>2. to + n <= end
  BY SectionsInside
<1>3. i \in 1..n
  OBVIOUS
<1> PICK a : a = to + i - 1
  OBVIOUS
<1>4. a \in 0..(end - 1)
  BY <1>2, <1>3, EntryInside
<1> PICK c \in Nat : c = Cell(img, a)
  BY <1>4, SoundWords
<1> PICK pos \in Nat : pos = do + c
  OBVIOUS
<1>5. pos = RecordPos(img, i)
  BY DEF RecordPos
<1>6. CASE ~RecordStarts(img, i)
  BY <1>6 DEF RecordTouches
<1>7. CASE RecordStarts(img, i)
  <2>1. pos + 6 <= so
    BY <1>5, <1>7 DEF RecordStarts, HeadWords
  <2>2. pos + 6 <= end
    BY <1>1, <2>1, Within
  <2> PICK head : head = HeadOf(img, i)
    OBVIOUS
  <2>3. ASSUME NEW k \in 1..6
        PROVE  head[k] \in Nat
    <3> PICK b : b = pos + k - 1
      OBVIOUS
    <3>1. b \in 0..(end - 1)
      BY <2>2, HeadInside
    <3>2. head[k] = Cell(img, b)
      BY <1>5 DEF HeadOf, Cells, HeadWords
    <3> QED
      BY <3>1, <3>2, SoundWords
  <2>4. RecordSize(img, i) = 6 + head[1] + head[2] + head[5] + (head[3] + 1) + (head[4] + 1) + (head[6] + 1)
    BY DEF RecordSize, HeadWords
  <2> PICK size : size = RecordSize(img, i)
    OBVIOUS
  <2>5. /\ Span(pos, 6) \subseteq 0..(end - 1)
        /\ pos + size <= so => Span(pos, size) \subseteq 0..(end - 1)
    BY <1>1, <2>1, <2>3, <2>4, RecordArithmetic
  <2>6. CASE ~RecordEnds(img, i)
    BY <1>5, <1>7, <2>5, <2>6 DEF RecordTouches, HeadWords
  <2>7. CASE RecordEnds(img, i)
    <3>1. pos + size <= so
      BY <1>5, <2>7 DEF RecordEnds
    <3> QED
      BY <1>5, <1>7, <2>5, <2>7, <3>1 DEF RecordTouches
  <2> QED
    BY <2>6, <2>7
<1> QED
  BY <1>6, <1>7

\* The fields of a row of a table that fits are words.
LEMMA RowWords ==
    ASSUME NEW img, Sound(img), NEW off \in Nat, NEW rows \in Nat,
           off + rows * 5 <= Len(img.cells), NEW i \in 1..rows, NEW j \in 1..5
    PROVE  Cells(img, off + (i - 1) * 5, 5)[j] \in Nat
<1> PICK end \in Nat : end = Len(img.cells)
  BY SoundWords
<1> PICK a : a = off + (i - 1) * 5 + j - 1
  OBVIOUS
<1>1. a \in 0..(end - 1)
  BY RowInside
<1>2. Cells(img, off + (i - 1) * 5, 5)[j] = Cell(img, a)
  BY DEF Cells
<1> QED
  BY <1>1, <1>2, SoundWords

\* No record, whatever it declares, leads a reader out of the file.
LEMMA ReaderStaysInside ==
    ASSUME NEW img, img # NoImage, img.cells \in Seq(Nat)
    PROVE  Touched(img) \subseteq 0..(Len(img.cells) - 1)
<1> PICK end \in Nat : end = Len(img.cells)
  OBVIOUS
<1> PICK h : h = Header(img)
  OBVIOUS
<1>1. CASE Opened(img, LayoutFloor) # "open"
  BY <1>1 DEF Touched
<1>2. CASE Opened(img, LayoutFloor) = "open"
  <2>1. Sound(img)
    BY <1>2, OpenMeans DEF Sound, HeaderSize
  <2> PICK nf \in Nat : nf = h.files
    BY <2>1, SoundWords
  <2> PICK nc \in Nat : nc = h.commands
    BY <2>1, SoundWords
  <2> PICK ne \in Nat : ne = h.edges
    BY <2>1, SoundWords
  <2> PICK fo \in Nat : fo = h.file_offset
    BY <2>1, SoundWords
  <2> PICK co \in Nat : co = h.command_offset
    BY <2>1, SoundWords
  <2> PICK eo \in Nat : eo = h.edge_offset
    BY <2>1, SoundWords
  <2> PICK to \in Nat : to = h.table_offset
    BY <2>1, SoundWords
  <2>2. /\ fo + nf * 5 <= end /\ co + nc * 5 <= end /\ eo + ne * 3 <= end
        /\ to + nc <= end
    BY <2>1, SectionsInside
  <2>3. Span(h.file_offset, h.files * FileSize) \subseteq 0..(end - 1)
    BY <2>2, SpanInside, Multiples DEF FileSize
  <2>4. Span(h.command_offset, h.commands * CommandSize) \subseteq 0..(end - 1)
    BY <2>2, SpanInside, Multiples DEF CommandSize
  <2>5. Span(h.edge_offset, h.edges * EdgeSize) \subseteq 0..(end - 1)
    BY <2>2, SpanInside, Multiples DEF EdgeSize
  <2>6. Span(h.table_offset, h.commands) \subseteq 0..(end - 1)
    BY <2>2, SpanInside
  <2>7. ASSUME NEW i \in 1..h.files
        PROVE  StringTouches(img, RawFile(img, i)[2]) \subseteq 0..(end - 1)
    <3>1. \A j \in 1..5 : Cells(img, fo + (i - 1) * 5, 5)[j] \in Nat
      BY <2>1, <2>2, RowWords
    <3>2. RawFile(img, i)[2] \in Nat
      BY <3>1 DEF RawFile, FileSize
    <3> QED
      BY <2>1, <3>2, StringInside
  <2>8. ASSUME NEW i \in 1..h.commands, NEW j \in 2..4
        PROVE  StringTouches(img, RawCommand(img, i)[j]) \subseteq 0..(end - 1)
    <3>1. j \in 1..5
      OBVIOUS
    <3>2. Cells(img, co + (i - 1) * 5, 5)[j] \in Nat
      BY <2>1, <2>2, <3>1, RowWords
    <3>3. RawCommand(img, i)[j] \in Nat
      BY <3>2 DEF RawCommand, CommandSize
    <3> QED
      BY <2>1, <3>3, StringInside
  <2>9. \A i \in 1..h.commands : RecordTouches(img, i) \subseteq 0..(end - 1)
    BY <2>1, RecordInside
  <2> QED
    BY <1>2, <2>3, <2>4, <2>5, <2>6, <2>7, <2>8, <2>9 DEF Touched
<1> QED
  BY <1>1, <1>2

(***************************************************************************)
(* The round trip.  A sequence stands in another behind a number of cells. *)
(***************************************************************************)
Stands(s, a, t) ==
    /\ a \in Nat /\ a + Len(t) <= Len(s)
    /\ \A j \in 1..Len(t) : s[a + j] = t[j]

LEMMA StandsIn ==
    ASSUME NEW S, NEW s \in Seq(S), NEW t \in Seq(S), NEW u \in Seq(S), NEW a, NEW b,
           Stands(s, a, t), Stands(t, b, u)
    PROVE  Stands(s, a + b, u)
<1>1. a \in Nat /\ b \in Nat /\ Len(s) \in Nat /\ Len(t) \in Nat /\ Len(u) \in Nat
  BY DEF Stands
<1>2. a + b \in Nat /\ a + b + Len(u) <= Len(s)
  BY <1>1 DEF Stands
<1>3. ASSUME NEW j \in 1..Len(u)
      PROVE  s[a + b + j] = u[j]
  <2>1. b + j \in 1..Len(t)
    BY <1>1 DEF Stands
  <2>2. s[a + (b + j)] = t[b + j] /\ t[b + j] = u[j]
    BY <2>1 DEF Stands
  <2>3. a + b + j = a + (b + j)
    BY <1>1
  <2> QED
    BY <2>2, <2>3
<1> QED
  BY <1>2, <1>3 DEF Stands

LEMMA Behind ==
    ASSUME NEW S, NEW p \in Seq(S), NEW q \in Seq(S)
    PROVE  /\ p \o q \in Seq(S) /\ Len(p \o q) = Len(p) + Len(q)
           /\ Stands(p \o q, 0, p) /\ Stands(p \o q, Len(p), q)
<1>1. /\ p \o q \in Seq(S) /\ Len(p \o q) = Len(p) + Len(q)
      /\ \A i \in 1..(Len(p) + Len(q)) : (p \o q)[i] = IF i <= Len(p) THEN p[i] ELSE q[i - Len(p)]
  BY ConcatProperties
<1>2. Len(p) \in Nat /\ Len(q) \in Nat
  OBVIOUS
<1>3. Stands(p \o q, 0, p)
  BY <1>1, <1>2 DEF Stands
<1>4. Stands(p \o q, Len(p), q)
  <2>1. ASSUME NEW j \in 1..Len(q)
        PROVE  (p \o q)[Len(p) + j] = q[j]
    <3>1. Len(p) + j \in 1..(Len(p) + Len(q)) /\ ~(Len(p) + j <= Len(p)) /\ Len(p) + j - Len(p) = j
      BY <1>2
    <3> QED
      BY <1>1, <3>1
  <2> QED
    BY <1>1, <1>2, <2>1 DEF Stands
<1> QED
  BY <1>1, <1>3, <1>4

\* What is appended moves nothing.
LEMMA StandsAhead ==
    ASSUME NEW S, NEW p \in Seq(S), NEW q \in Seq(S), NEW t \in Seq(S), NEW a, Stands(p, a, t)
    PROVE  Stands(p \o q, a, t)
<1>1. p \o q \in Seq(S) /\ Stands(p \o q, 0, p)
  BY Behind
<1>2. Stands(p \o q, 0 + a, t)
  BY <1>1, StandsIn
<1> QED
  BY <1>2 DEF Stands

\* Seven in a row.
InARow(w, a, b, c, d, e, f, g) ==
    LET n1 == Len(a)
        n2 == n1 + Len(b)
        n3 == n2 + Len(c)
        n4 == n3 + Len(d)
        n5 == n4 + Len(e)
        n6 == n5 + Len(f)
    IN  /\ w \in Seq(Nat) /\ Len(w) = n6 + Len(g)
        /\ Stands(w, 0, a) /\ Stands(w, n1, b) /\ Stands(w, n2, c) /\ Stands(w, n3, d)
        /\ Stands(w, n4, e) /\ Stands(w, n5, f) /\ Stands(w, n6, g)
LEMMA SevenInARow ==
    ASSUME NEW a \in Seq(Nat), NEW b \in Seq(Nat), NEW c \in Seq(Nat), NEW d \in Seq(Nat),
           NEW e \in Seq(Nat), NEW f \in Seq(Nat), NEW g \in Seq(Nat)
    PROVE  InARow(a \o b \o c \o d \o e \o f \o g, a, b, c, d, e, f, g)
<1> PICK w : w = a \o b \o c \o d \o e \o f \o g
  OBVIOUS
<1> DEFINE n1 == Len(a)
           n2 == n1 + Len(b)
           n3 == n2 + Len(c)
           n4 == n3 + Len(d)
           n5 == n4 + Len(e)
           n6 == n5 + Len(f)
<1> PICK p2 : p2 = a \o b
  OBVIOUS
<1>2. p2 \in Seq(Nat) /\ Len(p2) = n2 /\ Stands(p2, 0, a) /\ Stands(p2, n1, b)
  BY Behind
<1> PICK p3 : p3 = p2 \o c
  OBVIOUS
<1> HIDE DEF n2
<1>3. p3 \in Seq(Nat) /\ Len(p3) = n3 /\ Stands(p3, 0, a) /\ Stands(p3, n1, b) /\ Stands(p3, n2, c)
  BY <1>2, Behind, StandsAhead
<1> PICK p4 : p4 = p3 \o d
  OBVIOUS
<1> HIDE DEF n3
<1>4. /\ p4 \in Seq(Nat) /\ Len(p4) = n4 /\ Stands(p4, 0, a) /\ Stands(p4, n1, b) /\ Stands(p4, n2, c)
      /\ Stands(p4, n3, d)
  BY <1>3, Behind, StandsAhead
<1> PICK p5 : p5 = p4 \o e
  OBVIOUS
<1> HIDE DEF n4
<1>5. /\ p5 \in Seq(Nat) /\ Len(p5) = n5 /\ Stands(p5, 0, a) /\ Stands(p5, n1, b) /\ Stands(p5, n2, c)
      /\ Stands(p5, n3, d) /\ Stands(p5, n4, e)
  BY <1>4, Behind, StandsAhead
<1> PICK p6 : p6 = p5 \o f
  OBVIOUS
<1> HIDE DEF n5
<1>6. /\ p6 \in Seq(Nat) /\ Len(p6) = n6 /\ Stands(p6, 0, a) /\ Stands(p6, n1, b) /\ Stands(p6, n2, c)
      /\ Stands(p6, n3, d) /\ Stands(p6, n4, e) /\ Stands(p6, n5, f)
  BY <1>5, Behind, StandsAhead
<1>w. w = p6 \o g
  OBVIOUS
<1> HIDE DEF n6
<1>7. /\ w \in Seq(Nat) /\ Len(w) = n6 + Len(g)
      /\ Stands(w, 0, a) /\ Stands(w, n1, b) /\ Stands(w, n2, c)
      /\ Stands(w, n3, d) /\ Stands(w, n4, e) /\ Stands(w, n5, f) /\ Stands(w, n6, g)
  <2>1. w \in Seq(Nat) /\ Len(w) = n6 + Len(g) /\ Stands(w, n6, g)
    <3>1. p6 \in Seq(Nat) /\ Len(p6) = n6
      BY <1>6
    <3>2. /\ p6 \o g \in Seq(Nat) /\ Len(p6 \o g) = Len(p6) + Len(g)
          /\ Stands(p6 \o g, Len(p6), g)
      BY <3>1, Behind
    <3> QED
      BY <1>w, <3>1, <3>2
  <2>2. Stands(w, 0, a) /\ Stands(w, n1, b) /\ Stands(w, n2, c)
    BY <1>6, <1>w, StandsAhead
  <2>3. Stands(w, n3, d) /\ Stands(w, n4, e) /\ Stands(w, n5, f)
    BY <1>6, <1>w, StandsAhead
  <2> QED
    BY <2>1, <2>2, <2>3
<1> QED
  BY <1>7 DEF InARow, n2, n3, n4, n5, n6

(***************************************************************************)
(* Rows laid end to end: what the first ones come to, one by one.          *)
(***************************************************************************)
LEMMA LeastOf ==
    ASSUME NEW T \in SUBSET Nat, T # {}
    PROVE  \E n \in T : \A m \in T : n <= m
<1>1. PICK n \in T : \A m \in T : ~(<<m, n>> \in OpToRel(<, Nat))
  BY NatLessThanWellFounded, WFMin
<1>2. \A m \in T : m \in Nat /\ n \in Nat /\ (m < n => <<m, n>> \in OpToRel(<, Nat))
  BY Zenon DEF OpToRel
<1>3. \A m \in T : ~(m < n)
  BY <1>1, <1>2, Zenon
<1> QED
  BY <1>3

Piles(S, rows, n) ==
    {f \in [1..n -> Seq(S)] : \A k \in 1..n : f[k] = IF k = 1 THEN rows[k] ELSE f[k - 1] \o rows[k]}

LEMMA PilesExist ==
    ASSUME NEW S, NEW rows \in Seq(Seq(S)), NEW N \in 0..Len(rows)
    PROVE  Piles(S, rows, N) # {}
<1> DEFINE T == {n \in 0..Len(rows) : Piles(S, rows, n) = {}}
<1> SUFFICES ASSUME T # {}
             PROVE  FALSE
  OBVIOUS
<1>1. PICK n \in T : \A m \in T : n <= m
  <2>1. T \in SUBSET Nat
    OBVIOUS
  <2> HIDE DEF T
  <2> QED
    BY <2>1, LeastOf
<1>2. CASE n = 0
  <2> DEFINE g == [k \in 1..0 |-> rows[k]]
  <2>1. g \in Piles(S, rows, 0)
    BY DEF Piles
  <2> QED
    BY <2>1, <1>1, <1>2
<1>3. CASE n # 0
  <2>0. Len(rows) \in Nat /\ n \in 0..Len(rows)
    OBVIOUS
  <2>1. n - 1 \in 0..Len(rows) /\ n - 1 \notin T
    <3>1. n - 1 \in 0..Len(rows) /\ ~(n <= n - 1)
      BY <2>0, <1>3
    <3> QED
      BY <1>1, <3>1
  <2>2. PICK f \in Piles(S, rows, n - 1) : TRUE
    BY <2>1
  <2>3. /\ f \in [1..(n - 1) -> Seq(S)]
        /\ \A k \in 1..(n - 1) : f[k] = IF k = 1 THEN rows[k] ELSE f[k - 1] \o rows[k]
    BY <2>2 DEF Piles
  <2> DEFINE last == IF n = 1 THEN rows[n] ELSE f[n - 1] \o rows[n]
             g == [k \in 1..n |-> IF k = n THEN last ELSE f[k]]
  <2>4. n \in Nat /\ n \in 1..Len(rows) /\ (n # 1 => n - 1 \in 1..(n - 1))
    BY <1>1, <1>3
  <2>5. last \in Seq(S)
    <3>1. rows[n] \in Seq(S)
      BY <2>4
    <3>2. CASE n = 1
      BY <3>1, <3>2
    <3>3. CASE n # 1
      <4>1. f[n - 1] \in Seq(S)
        BY <2>3, <2>4, <3>3
      <4>2. f[n - 1] \o rows[n] \in Seq(S)
        BY <3>1, <4>1, ConcatProperties
      <4> QED
        BY <3>3, <4>2
    <3> QED
      BY <3>2, <3>3
  <2>6. \A k \in 1..n : k # n => k \in 1..(n - 1)
    BY <2>4
  <2> HIDE DEF last
  <2>7. g \in [1..n -> Seq(S)]
    BY <2>3, <2>5, <2>6
  <2>8. ASSUME NEW k \in 1..n
        PROVE  g[k] = IF k = 1 THEN rows[k] ELSE g[k - 1] \o rows[k]
    <3>1. CASE k = n
      <4>1. g[k] = last
        BY <3>1
      <4>2. CASE k = 1
        BY <3>1, <4>1, <4>2 DEF last
      <4>3. CASE k # 1
        <5>1. k - 1 \in 1..n /\ k - 1 # n
          BY <4>3, <2>4
        <5>2. g[k - 1] = f[k - 1]
          BY <5>1
        <5> QED
          BY <3>1, <4>1, <4>3, <5>2 DEF last
      <4> QED
        BY <4>2, <4>3
    <3>2. CASE k # n
      <4>1. k \in 1..(n - 1) /\ g[k] = f[k]
        BY <3>2, <2>6
      <4>2. CASE k = 1
        BY <4>1, <4>2, <2>3
      <4>3. CASE k # 1
        <5>1. k - 1 \in 1..n /\ k - 1 # n
          BY <4>3, <2>4
        <5>2. g[k - 1] = f[k - 1]
          BY <5>1
        <5> QED
          BY <4>1, <4>3, <5>2, <2>3
      <4> QED
        BY <4>2, <4>3
    <3> QED
      BY <3>1, <3>2
  <2> HIDE DEF g
  <2>9. g \in Piles(S, rows, n)
    BY <2>7, <2>8 DEF Piles
  <2> QED
    BY <2>9, <1>1
<1> QED
  BY <1>2, <1>3

\* FlattenSeq picks the pile of its length.
LEMMA FlattenIs ==
    ASSUME NEW S, NEW rows \in Seq(Seq(S)), Len(rows) # 0, NEW h \in Piles(S, rows, Len(rows))
    PROVE  FlattenSeq(rows) = h[Len(rows)]
<1> DEFINE N == Len(rows)
           Eqn(f) == f = [k \in 1..N |-> IF k = 1 THEN rows[k] ELSE f[k - 1] \o rows[k]]
<1>1. N \in Nat /\ N \in 1..N
  OBVIOUS
<1>2. /\ h \in [1..N -> Seq(S)]
      /\ \A k \in 1..N : h[k] = IF k = 1 THEN rows[k] ELSE h[k - 1] \o rows[k]
  BY DEF Piles
<1>3. Eqn(h)
  <2> HIDE DEF N
  <2> QED
    BY <1>2
<1> PICK g : g = CHOOSE f : Eqn(f)
  OBVIOUS
<1>4. Eqn(g)
  BY <1>3
<1>5. FlattenSeq(rows) = g[N]
  BY DEF FlattenSeq
<1>6. /\ DOMAIN g = 1..N /\ g = [k \in 1..N |-> g[k]]
      /\ \A k \in 1..N : g[k] = IF k = 1 THEN rows[k] ELSE g[k - 1] \o rows[k]
  <2> HIDE DEF N
  <2>1. g = [k \in 1..N |-> IF k = 1 THEN rows[k] ELSE g[k - 1] \o rows[k]]
    BY <1>4
  <2>2. DOMAIN g = 1..N
    BY <2>1
  <2>3. \A k \in 1..N : g[k] = IF k = 1 THEN rows[k] ELSE g[k - 1] \o rows[k]
    BY <2>1
  <2>4. g = [k \in 1..N |-> g[k]]
    BY <2>1, <2>2
  <2> QED
    BY <2>2, <2>3, <2>4, Zenon
<1> HIDE DEF N, Eqn
<1>7. \A k \in 1..N : g[k] = h[k]
  <2> DEFINE T == {k \in 1..N : g[k] # h[k]}
  <2> SUFFICES ASSUME T # {}
               PROVE  FALSE
    OBVIOUS
  <2>1. PICK k \in T : \A m \in T : k <= m
    <3>1. T \in SUBSET Nat
      OBVIOUS
    <3> HIDE DEF T
    <3> QED
      BY <3>1, LeastOf
  <2>2. k # 1
    BY <1>2, <1>6
  <2>3. k - 1 \in 1..N /\ k - 1 \notin T
    BY <2>1, <2>2, <1>1
  <2>4. g[k - 1] = h[k - 1]
    BY <2>3
  <2>5. g[k] = g[k - 1] \o rows[k] /\ h[k] = h[k - 1] \o rows[k]
    BY <2>2, <1>2, <1>6
  <2> QED
    BY <2>1, <2>4, <2>5
<1> QED
  BY <1>1, <1>5, <1>7 DEF N

\* What the first k rows come to.
Pile(rows, k) == FlattenSeq(SubSeq(rows, 1, k))
LEMMA PilesGrow ==
    ASSUME NEW S, NEW rows \in Seq(Seq(S))
    PROVE  /\ Pile(rows, 0) = <<>> /\ Pile(rows, Len(rows)) = FlattenSeq(rows)
           /\ \A k \in 0..Len(rows) : Pile(rows, k) \in Seq(S)
           /\ \A k \in 1..Len(rows) : Pile(rows, k) = Pile(rows, k - 1) \o rows[k]
<1> DEFINE N == Len(rows)
<1>1. N \in Nat
  OBVIOUS
<1>2. PICK h \in Piles(S, rows, N) : TRUE
  BY <1>1, PilesExist
<1>3. /\ h \in [1..N -> Seq(S)]
      /\ \A k \in 1..N : h[k] = IF k = 1 THEN rows[k] ELSE h[k - 1] \o rows[k]
  BY <1>2 DEF Piles
<1>4. ASSUME NEW k \in 1..N
      PROVE  Pile(rows, k) = h[k]
  <2> PICK part : part = SubSeq(rows, 1, k)
    OBVIOUS
  <2>1. part \in Seq(Seq(S)) /\ Len(part) = k /\ \A j \in 1..k : part[j] = rows[j]
    BY SubSeqProperties
  <2>2. PICK g : g = [j \in 1..k |-> h[j]]
    OBVIOUS
  <2>3. \A j \in 1..k : j \in 1..N /\ (j # 1 => j - 1 \in 1..k)
    BY <1>1
  <2>4. g \in Piles(S, part, k)
    <3>1. g \in [1..k -> Seq(S)]
      <4> HIDE DEF N
      <4> QED
        BY <1>3, <2>2, <2>3
    <3>2. \A j \in 1..k : g[j] = IF j = 1 THEN part[j] ELSE g[j - 1] \o part[j]
      <4> HIDE DEF N
      <4> QED
        BY <1>3, <2>1, <2>2, <2>3
    <3> QED
      BY <3>1, <3>2 DEF Piles
  <2>5. FlattenSeq(part) = g[k]
    <3>1. Len(part) # 0 /\ g \in Piles(S, part, Len(part))
      BY <2>1, <2>4
    <3>2. FlattenSeq(part) = g[Len(part)]
      BY <2>1, <3>1, FlattenIs
    <3> QED
      BY <2>1, <3>2
  <2> QED
    BY <2>2, <2>5 DEF Pile
<1>5. Pile(rows, 0) = <<>>
  <2> PICK part : part = SubSeq(rows, 1, 0)
    OBVIOUS
  <2>1. Len(part) = 0 /\ part = <<>>
    OBVIOUS
  <2>2. FlattenSeq(part) = part
    BY <2>1 DEF FlattenSeq
  <2> QED
    BY <2>1, <2>2 DEF Pile
<1>6. Pile(rows, N) = FlattenSeq(rows)
  <2>1. SubSeq(rows, 1, N) = rows
    OBVIOUS
  <2> QED
    BY <2>1 DEF Pile
<1> HIDE DEF N
<1>7. \A k \in 0..N : Pile(rows, k) \in Seq(S)
  <2>1. <<>> \in Seq(S)
    OBVIOUS
  <2>2. \A k \in 0..N : k # 0 => k \in 1..N
    BY <1>1
  <2>3. \A k \in 1..N : h[k] \in Seq(S)
    BY <1>3
  <2> QED
    BY <1>4, <1>5, <2>1, <2>2, <2>3
<1>8. ASSUME NEW k \in 1..N
      PROVE  Pile(rows, k) = Pile(rows, k - 1) \o rows[k]
  <2>1. CASE k = 1
    <3>1. rows[1] \in Seq(S)
      BY <2>1 DEF N
    <3>2. <<>> \o rows[1] = rows[1]
      BY <3>1, ConcatEmptySeq
    <3>3. h[k] = rows[1] /\ Pile(rows, k) = h[k] /\ k - 1 = 0
      <4>1. h[k] = rows[k]
        BY <1>3, <2>1
      <4>2. Pile(rows, k) = h[k]
        BY <1>4
      <4> QED
        BY <2>1, <4>1, <4>2
    <3> QED
      BY <1>5, <2>1, <3>2, <3>3
  <2>2. CASE k # 1
    <3>1. k - 1 \in 1..N
      BY <1>1, <2>2
    <3> QED
      BY <1>3, <1>4, <2>2, <3>1
  <2> QED
    BY <2>1, <2>2
<1> QED
  BY <1>5, <1>6, <1>7, <1>8 DEF N

\* Each row stands behind those before it.
LEMMA RowsStand ==
    ASSUME NEW S, NEW rows \in Seq(Seq(S)), NEW k \in 1..Len(rows)
    PROVE  Stands(FlattenSeq(rows), Len(Pile(rows, k - 1)), rows[k])
<1> DEFINE N == Len(rows)
           T == {m \in k..N : ~Stands(Pile(rows, m), Len(Pile(rows, k - 1)), rows[k])}
<1>1. N \in Nat /\ N \in k..N
  OBVIOUS
<1>2. rows[k] \in Seq(S)
  OBVIOUS
<1>3. T = {}
  <2> SUFFICES ASSUME T # {}
               PROVE  FALSE
    OBVIOUS
  <2>1. PICK m \in T : \A n \in T : m <= n
    <3>1. T \in SUBSET Nat
      OBVIOUS
    <3> HIDE DEF T
    <3> QED
      BY <3>1, LeastOf
  <2>2. m \in 1..Len(rows) /\ m - 1 \in 0..Len(rows) /\ m \in k..N
    BY <1>1
  <2>3. /\ Pile(rows, m) = Pile(rows, m - 1) \o rows[m] /\ Pile(rows, m - 1) \in Seq(S)
        /\ rows[m] \in Seq(S)
    <3>1. Pile(rows, m) = Pile(rows, m - 1) \o rows[m] /\ Pile(rows, m - 1) \in Seq(S)
      BY <2>2, PilesGrow
    <3>2. rows[m] \in Seq(S)
      BY <2>2
    <3> QED
      BY <3>1, <3>2
  <2>4. CASE m = k
    BY <2>3, <2>4, Behind
  <2>5. CASE m # k
    <3>1. m - 1 \in k..N /\ m - 1 \notin T
      BY <2>1, <2>2, <2>5
    <3>2. Stands(Pile(rows, m - 1), Len(Pile(rows, k - 1)), rows[k])
      BY <3>1
    <3> QED
      BY <1>2, <2>3, <3>2, StandsAhead
  <2> QED
    BY <2>4, <2>5
<1> QED
  BY <1>1, <1>3, PilesGrow

\* Rows of one length.
LEMMA EvenRows ==
    ASSUME NEW S, NEW rows \in Seq(Seq(S)), NEW w \in {3, 5},
           \A k \in 1..Len(rows) : Len(rows[k]) = w
    PROVE  \A k \in 0..Len(rows) : Len(Pile(rows, k)) = k * w
<1> DEFINE N == Len(rows)
           T == {k \in 0..N : Len(Pile(rows, k)) # k * w}
<1> SUFFICES ASSUME T # {}
             PROVE  FALSE
  OBVIOUS
<1>1. PICK k \in T : \A m \in T : k <= m
  <2>1. T \in SUBSET Nat
    OBVIOUS
  <2> HIDE DEF T
  <2> QED
    BY <2>1, LeastOf
<1>2. k # 0
  <2>1. Len(Pile(rows, 0)) = 0 * w
    <3>1. Pile(rows, 0) = <<>>
      BY PilesGrow
    <3>2. Len(<<>>) = 0 /\ 0 * w = 0
      OBVIOUS
    <3> QED
      BY <3>1, <3>2
  <2> QED
    BY <2>1
<1>3. k \in 1..N /\ k - 1 \in 0..N /\ k - 1 \notin T
  BY <1>1, <1>2
<1>4. Len(Pile(rows, k - 1)) = (k - 1) * w
  BY <1>3
<1>5. /\ Pile(rows, k) = Pile(rows, k - 1) \o rows[k] /\ Pile(rows, k - 1) \in Seq(S)
      /\ rows[k] \in Seq(S) /\ Len(rows[k]) = w
  <2>1. k \in 1..Len(rows) /\ k - 1 \in 0..Len(rows)
    BY <1>3
  <2>2. Pile(rows, k) = Pile(rows, k - 1) \o rows[k] /\ Pile(rows, k - 1) \in Seq(S)
    BY <2>1, PilesGrow
  <2>3. rows[k] \in Seq(S) /\ Len(rows[k]) = w
    BY <2>1
  <2> QED
    BY <2>2, <2>3
<1>6. Len(Pile(rows, k)) = (k - 1) * w + w
  <2> PICK p : p = Pile(rows, k - 1)
    OBVIOUS
  <2> PICK q : q = rows[k]
    OBVIOUS
  <2>1. p \in Seq(S) /\ q \in Seq(S) /\ Pile(rows, k) = p \o q /\ Len(p) = (k - 1) * w /\ Len(q) = w
    BY <1>4, <1>5
  <2>2. Len(p \o q) = Len(p) + Len(q)
    BY <2>1, ConcatProperties
  <2> QED
    BY <2>1, <2>2
<1>7. (k - 1) * w + w = k * w
  BY <1>3
<1> QED
  BY <1>6, <1>7

\* A reader finds what stands there.
LEMMA ReadsCells ==
    ASSUME NEW img, img.cells \in Seq(Nat), NEW t \in Seq(Nat), NEW a, Stands(img.cells, a, t)
    PROVE  /\ Cells(img, a, Len(t)) = t
           /\ \A j \in 1..Len(t) : Cell(img, a + j - 1) = t[j]
<1> PICK c \in Seq(Nat) : c = img.cells
  OBVIOUS
<1>1. Len(c) \in Nat /\ Len(t) \in Nat /\ a \in Nat /\ a + Len(t) <= Len(c)
  BY DEF Stands
<1>2. ASSUME NEW j \in 1..Len(t)
      PROVE  Cell(img, a + j - 1) = t[j]
  <2>1. a + j - 1 \in 0..(Len(c) - 1) /\ a + j - 1 + 1 = a + j
    BY <1>1
  <2>2. c[a + j] = t[j]
    BY DEF Stands
  <2> QED
    BY <2>1, <2>2 DEF Cell
<1>3. Cells(img, a, Len(t)) = t
  <2>1. \A j \in 1..Len(t) : Cells(img, a, Len(t))[j] = t[j]
    BY <1>2 DEF Cells
  <2>2. t = [j \in 1..Len(t) |-> t[j]]
    OBVIOUS
  <2>3. Cells(img, a, Len(t)) = [j \in 1..Len(t) |-> Cell(img, a + j - 1)]
    BY DEF Cells
  <2>4. [j \in 1..Len(t) |-> Cell(img, a + j - 1)] = [j \in 1..Len(t) |-> t[j]]
    BY <1>2
  <2> QED
    BY <2>2, <2>3, <2>4
<1> QED
  BY <1>2, <1>3

LEMMA FunctionsAreSequences ==
    ASSUME NEW S, NEW n \in Nat, NEW f \in [1..n -> S]
    PROVE  f \in Seq(S) /\ Len(f) = n /\ DOMAIN f = 1..n
OBVIOUS

\* What a build saves.
LEMMA GoodTypes ==
    ASSUME NEW ix \in Good
    PROVE  /\ ix.files \in Seq(SavedFile) /\ ix.commands \in Seq(SavedCommand) /\ ix.edges \in Seq(SavedEdge)
           /\ \A i \in DOMAIN ix.commands :
                 LET c == ix.commands[i] IN
                 /\ c.ins.starts # <<>> /\ c.outs.starts # <<>> /\ c.order.starts # <<>>
                 /\ FromStarts(c.ins) /\ FromStarts(c.outs) /\ FromStarts(c.order)
<1>1. ix \in Records
  BY DEF Good
<1>2. ix \in [files : Seq(SavedFile), commands : Seq(SavedCommand), edges : Seq(SavedEdge)]
  BY <1>1, RecordsAssumption
<1>3. \A i \in DOMAIN ix.commands :
          \A list \in {ix.commands[i].ins, ix.commands[i].outs, ix.commands[i].order} :
              list.starts # <<>> /\ FromStarts(list)
  BY <1>1, RecordsAssumption
<1>4. \A i \in DOMAIN ix.commands :
                 LET c == ix.commands[i] IN
                 /\ c.ins.starts # <<>> /\ c.outs.starts # <<>> /\ c.order.starts # <<>>
                 /\ FromStarts(c.ins) /\ FromStarts(c.outs) /\ FromStarts(c.order)
  BY <1>3
<1> QED
  BY <1>2, <1>4

LEMMA DisplayWords ==
    ASSUME NEW s \in Seq(Nat)
    PROVE  Display(s) \in Seq(Nat)
<1>1. CASE Len(s) <= MaxString
  BY <1>1 DEF Display
<1>2. CASE ~(Len(s) <= MaxString)
  <2>1. MaxString - 1 \in 0..Len(s)
    BY <1>2, RecordsAssumption
  <2>2. SubSeq(s, 1, MaxString - 1) \in Seq(Nat)
    BY <2>1, SubSeqProperties
  <2>3. Marker \in Nat
    BY DEF Marker
  <2>4. Append(SubSeq(s, 1, MaxString - 1), Marker) \in Seq(Nat)
    BY <2>2, <2>3, AppendProperties
  <2> QED
    BY <1>2, <2>4 DEF Display
<1> QED
  BY <1>1, <1>2

\* The strings of a record.
Names(ix) == [i \in DOMAIN ix.files |-> ix.files[i].name]
Texts(ix) ==
    [i \in DOMAIN ix.commands |->
        <<Display(ix.commands[i].text), Display(ix.commands[i].display), ix.commands[i].env>>]
HasString(ix, s) == \E k \in DOMAIN Strings(ix) : Strings(ix)[k] = s

LEMMA Triple ==
    ASSUME NEW S, NEW a \in S, NEW b \in S, NEW c \in S
    PROVE  /\ <<a, b, c>> \in Seq(S) /\ Len(<<a, b, c>>) = 3
           /\ <<a, b, c>>[1] = a /\ <<a, b, c>>[2] = b /\ <<a, b, c>>[3] = c
OBVIOUS

LEMMA StringsAre ==
    ASSUME NEW ix \in Good
    PROVE  /\ Strings(ix) \in Seq(Seq(Nat))
           /\ \A i \in DOMAIN ix.files : HasString(ix, ix.files[i].name)
           /\ \A i \in DOMAIN ix.commands :
                 /\ HasString(ix, Display(ix.commands[i].text))
                 /\ HasString(ix, Display(ix.commands[i].display))
                 /\ HasString(ix, ix.commands[i].env)
<1> PICK files \in Seq(SavedFile) : files = ix.files
  BY GoodTypes
<1> PICK commands \in Seq(SavedCommand) : commands = ix.commands
  BY GoodTypes
<1> PICK names : names = Names(ix)
  OBVIOUS
<1> PICK texts : texts = Texts(ix)
  OBVIOUS
<1>1. names \in Seq(Seq(Nat)) /\ Len(names) = Len(files) /\ \A i \in 1..Len(files) : names[i] = files[i].name
  <2>1. \A i \in 1..Len(files) : files[i].name \in Seq(Nat)
    <3>1. \A i \in 1..Len(files) : files[i] \in SavedFile
      OBVIOUS
    <3> QED
      BY <3>1 DEF SavedFile
  <2>2. names = [i \in 1..Len(files) |-> files[i].name]
    BY DEF Names
  <2> QED
    BY <2>1, <2>2
<1>2. /\ texts \in Seq(Seq(Seq(Nat))) /\ Len(texts) = Len(commands)
      /\ \A i \in 1..Len(commands) : texts[i] = <<Display(commands[i].text), Display(commands[i].display), commands[i].env>>
  <2>1. ASSUME NEW i \in 1..Len(commands)
        PROVE  <<Display(commands[i].text), Display(commands[i].display), commands[i].env>> \in Seq(Seq(Nat))
    <3>1. commands[i].text \in Seq(Nat) /\ commands[i].display \in Seq(Nat) /\ commands[i].env \in Seq(Nat)
      <4>1. commands[i] \in SavedCommand
        OBVIOUS
      <4> QED
        BY <4>1 DEF SavedCommand
    <3>2. Display(commands[i].text) \in Seq(Nat) /\ Display(commands[i].display) \in Seq(Nat)
      BY <3>1, DisplayWords
    <3> QED
      BY <3>1, <3>2, Triple
  <2>2. texts = [i \in 1..Len(commands) |-> <<Display(commands[i].text), Display(commands[i].display), commands[i].env>>]
    BY DEF Texts
  <2>3. texts \in [1..Len(commands) -> Seq(Seq(Nat))]
    BY <2>1, <2>2
  <2>4. texts \in Seq(Seq(Seq(Nat)))
    BY <2>3
  <2> QED
    BY <2>2, <2>4
<1> PICK flat : flat = FlattenSeq(texts)
  OBVIOUS
<1> PICK all : all = Strings(ix)
  OBVIOUS
<1>3. all = names \o flat
  BY DEF Strings, Names, Texts
<1>4. flat \in Seq(Seq(Nat))
  <2>1. Len(texts) \in 0..Len(texts)
    BY <1>2
  <2> QED
    BY <1>2, <2>1, PilesGrow
<1>5. all \in Seq(Seq(Nat)) /\ Stands(all, 0, names) /\ Stands(all, Len(names), flat)
  BY <1>1, <1>3, <1>4, Behind
<1>6. ASSUME NEW t \in Seq(Seq(Nat)), NEW a, Stands(all, a, t), NEW j \in 1..Len(t)
      PROVE  HasString(ix, t[j])
  <2>1. a + j \in 1..Len(all) /\ all[a + j] = t[j]
    <3>1. Len(all) \in Nat /\ Len(t) \in Nat /\ a \in Nat /\ a + Len(t) <= Len(all)
      BY <1>5, <1>6 DEF Stands
    <3>2. a + j \in 1..Len(all)
      BY <3>1
    <3> QED
      BY <1>6, <3>2 DEF Stands
  <2>2. DOMAIN all = 1..Len(all)
    BY <1>5
  <2> QED
    BY <2>1, <2>2 DEF HasString
<1>7. ASSUME NEW i \in DOMAIN ix.files
      PROVE  HasString(ix, ix.files[i].name)
  <2>1. i \in 1..Len(names) /\ names[i] = ix.files[i].name
    <3>1. i \in 1..Len(files)
      OBVIOUS
    <3> QED
      BY <1>1, <3>1
  <2>2. HasString(ix, names[i])
    BY <1>1, <1>5, <1>6, <2>1
  <2> QED
    BY <2>1, <2>2
<1>8. ASSUME NEW i \in DOMAIN ix.commands
      PROVE  /\ HasString(ix, Display(ix.commands[i].text))
             /\ HasString(ix, Display(ix.commands[i].display))
             /\ HasString(ix, ix.commands[i].env)
  <2>1. i \in 1..Len(texts) /\ i \in 1..Len(commands)
    BY <1>2
  <2> PICK row : row = texts[i]
    OBVIOUS
  <2>2. row \in Seq(Seq(Nat)) /\ row = <<Display(commands[i].text), Display(commands[i].display), commands[i].env>>
    BY <1>2, <2>1
  <2>3. Stands(flat, Len(Pile(texts, i - 1)), row)
    BY <1>2, <2>1, RowsStand
  <2>4. Stands(all, Len(names) + Len(Pile(texts, i - 1)), row)
    BY <1>4, <1>5, <2>2, <2>3, StandsIn
  <2>5. /\ row[1] = Display(commands[i].text) /\ row[2] = Display(commands[i].display)
        /\ row[3] = commands[i].env /\ Len(row) = 3
    BY <2>2
  <2>6. \A j \in 1..3 : HasString(ix, row[j])
    BY <1>6, <2>2, <2>4, <2>5
  <2>7. HasString(ix, row[1]) /\ HasString(ix, row[2]) /\ HasString(ix, row[3])
    BY <2>6
  <2> QED
    BY <2>5, <2>7
<1> QED
  BY <1>5, <1>7, <1>8

\* An entry is a length and the letters.
LEMMA EntryWords ==
    ASSUME NEW s \in Seq(Nat)
    PROVE  /\ Entry(s) \in Seq(Nat) /\ Len(Entry(s)) = 1 + Len(s) /\ Entry(s)[1] = Len(s)
           /\ Stands(Entry(s), 1, s)
<1>1. <<Len(s)>> \in Seq(Nat) /\ Len(<<Len(s)>>) = 1 /\ <<Len(s)>>[1] = Len(s)
  OBVIOUS
<1> PICK h \in Seq(Nat) : h = <<Len(s)>>
  BY <1>1
<1>2. /\ h \o s \in Seq(Nat) /\ Len(h \o s) = 1 + Len(s) /\ Stands(h \o s, 0, h) /\ Stands(h \o s, 1, s)
  <2>1. /\ h \o s \in Seq(Nat) /\ Len(h \o s) = Len(h) + Len(s)
        /\ Stands(h \o s, 0, h) /\ Stands(h \o s, Len(h), s)
    BY Behind
  <2> QED
    BY <1>1, <2>1
<1>3. (h \o s)[1] = Len(s)
  <2>1. (h \o s)[0 + 1] = h[1]
    BY <1>1, <1>2 DEF Stands
  <2> QED
    BY <1>1, <2>1
<1> QED
  BY <1>2, <1>3 DEF Entry

\* The table of strings holds each at its offset.
LEMMA StringsStand ==
    ASSUME NEW ix \in Good, NEW s, HasString(ix, s)
    PROVE  /\ s \in Seq(Nat) /\ StringData(ix) \in Seq(Nat)
           /\ Offset(ix, s) \in Nat /\ Stands(StringData(ix), Offset(ix, s), Entry(s))
<1> PICK all \in Seq(Seq(Nat)) : all = Strings(ix)
  BY StringsAre
<1>1. PICK k \in 1..Len(all) : all[k] = s
  BY DEF HasString
<1>2. s \in Seq(Nat) /\ all # <<>>
  BY <1>1
<1> PICK rows : rows = Entries(ix)
  OBVIOUS
<1>3. /\ rows \in Seq(Seq(Nat)) /\ Len(rows) = Len(all)
      /\ \A i \in 1..Len(all) : rows[i] = IF IsNew(all, i) THEN Entry(all[i]) ELSE <<>>
  <2>1. ASSUME NEW i \in 1..Len(all)
        PROVE  (IF IsNew(all, i) THEN Entry(all[i]) ELSE <<>>) \in Seq(Nat)
    <3>1. all[i] \in Seq(Nat)
      OBVIOUS
    <3>2. Entry(all[i]) \in Seq(Nat)
      BY <3>1, EntryWords
    <3>3. <<>> \in Seq(Nat)
      OBVIOUS
    <3> QED
      BY <3>2, <3>3
  <2>2. rows = [i \in 1..Len(all) |-> IF IsNew(all, i) THEN Entry(all[i]) ELSE <<>>]
    BY DEF Entries
  <2>3. rows \in [1..Len(all) -> Seq(Nat)]
    BY <2>1, <2>2
  <2>4. rows \in Seq(Seq(Nat)) /\ Len(rows) = Len(all)
    <3> PICK n \in Nat : n = Len(all)
      OBVIOUS
    <3>1. rows \in [1..n -> Seq(Nat)]
      BY <2>3
    <3> QED
      BY <3>1, FunctionsAreSequences
  <2> QED
    BY <2>2, <2>4
<1> PICK flat : flat = FlattenSeq(rows)
  OBVIOUS
<1>4. flat \in Seq(Nat)
  <2>1. Len(rows) \in 0..Len(rows)
    BY <1>3
  <2> QED
    BY <1>3, <2>1, PilesGrow
<1> PICK data : data = StringData(ix)
  OBVIOUS
<1> PICK zero \in Seq(Nat) : zero = <<0>> /\ Len(zero) = 1
  <2>1. <<0>> \in Seq(Nat) /\ Len(<<0>>) = 1
    OBVIOUS
  <2> QED
    BY <2>1
<1>5. data = zero \o flat
  BY <1>2 DEF StringData
<1>6. data \in Seq(Nat) /\ Stands(data, 0, zero) /\ Stands(data, 1, flat)
  <2>1. /\ zero \o flat \in Seq(Nat) /\ Stands(zero \o flat, 0, zero) /\ Stands(zero \o flat, Len(zero), flat)
    BY <1>4, Behind
  <2>2. Len(zero) = 1
    OBVIOUS
  <2> QED
    BY <1>5, <2>1, <2>2
<1>7. CASE s = <<>>
  <2>1. Offset(ix, s) = 0
    BY <1>7 DEF Offset
  <2>2. Entry(s) = zero
    <3>1. Len(s) = 0 /\ zero \o s = zero
      BY <1>7, ConcatEmptySeq
    <3> QED
      BY <3>1 DEF Entry
  <2> QED
    BY <1>2, <1>6, <2>1, <2>2
<1>8. CASE s # <<>>
  <2> DEFINE T == {i \in 1..Len(all) : all[i] = s}
  <2>1. \E i \in 1..Len(all) : all[i] = s /\ IsNew(all, i)
    <3>1. T \in SUBSET Nat /\ T # {}
      <4>1. k \in T
        BY <1>1
      <4>2. T \in SUBSET Nat
        OBVIOUS
      <4> QED
        BY <4>1, <4>2
    <3>2. PICK i \in T : \A m \in T : i <= m
      <4> HIDE DEF T
      <4> QED
        BY <3>1, LeastOf
    <3>3. ASSUME NEW j \in 1..(i - 1)
          PROVE  all[j] # all[i]
      <4>1. j \in 1..Len(all) /\ ~(i <= j)
        BY <3>2
      <4> QED
        BY <3>2, <4>1
    <3> QED
      BY <1>8, <3>2, <3>3 DEF IsNew
  <2> PICK i : i = CHOOSE n \in DOMAIN Strings(ix) : Strings(ix)[n] = s /\ IsNew(Strings(ix), n)
    OBVIOUS
  <2>2. i \in 1..Len(all) /\ all[i] = s /\ IsNew(all, i)
    BY <2>1
  <2>3. Offset(ix, s) = 1 + Len(Pile(rows, i - 1))
    BY <1>8 DEF Offset, Pile
  <2>4. rows[i] = Entry(s)
    BY <1>3, <2>2
  <2>5. Stands(flat, Len(Pile(rows, i - 1)), rows[i])
    <3>1. i \in 1..Len(rows)
      BY <1>3, <2>2
    <3> QED
      BY <1>3, <3>1, RowsStand
  <2>6. Entry(s) \in Seq(Nat)
    BY <1>2, EntryWords
  <2>7. Stands(data, 1 + Len(Pile(rows, i - 1)), Entry(s))
    BY <1>4, <1>6, <2>4, <2>5, <2>6, StandsIn
  <2>8. Offset(ix, s) \in Nat
    BY <2>3, <2>7 DEF Stands
  <2> QED
    BY <1>2, <1>6, <2>3, <2>7, <2>8
<1> QED
  BY <1>7, <1>8

LEMMA StringDataWords ==
    ASSUME NEW ix \in Good
    PROVE  StringData(ix) \in Seq(Nat)
<1>1. CASE Strings(ix) = <<>>
  BY <1>1 DEF StringData
<1>2. CASE Strings(ix) # <<>>
  <2> PICK all \in Seq(Seq(Nat)) : all = Strings(ix)
    BY StringsAre
  <2>1. 1 \in 1..Len(all)
    BY <1>2
  <2>2. HasString(ix, all[1])
    BY <2>1 DEF HasString
  <2> QED
    BY <2>2, StringsStand
<1> QED
  BY <1>1, <1>2

(***************************************************************************)
(* Edges can be put in order: the first places at a time, each by the      *)
(* least of what is left.                                                  *)
(***************************************************************************)
LEMMA LeastEdge ==
    ASSUME NEW S \in SUBSET SavedEdge, S # {}
    PROVE  \E e \in S : \A d \in S : ~EdgeBefore(d, e)
<1>0. \A e \in S : e.from \in Nat /\ e.to \in Nat /\ e.type \in Nat
  BY DEF SavedEdge, Links
<1> DEFINE A == {e.from : e \in S}
<1>1. PICK a \in A : \A x \in A : a <= x
  <2>1. A \in SUBSET Nat /\ A # {}
    BY <1>0
  <2> HIDE DEF A
  <2> QED
    BY <2>1, LeastOf
<1> DEFINE SA == {e \in S : e.from = a}
           B == {e.to : e \in SA}
<1>2. PICK b \in B : \A x \in B : b <= x
  <2>1. B \in SUBSET Nat /\ B # {}
    BY <1>0, <1>1
  <2> HIDE DEF B
  <2> QED
    BY <2>1, LeastOf
<1> DEFINE SB == {e \in SA : e.to = b}
           C == {e.type : e \in SB}
<1>3. PICK c \in C : \A x \in C : c <= x
  <2>1. C \in SUBSET Nat /\ C # {}
    BY <1>0, <1>2
  <2> HIDE DEF C
  <2> QED
    BY <2>1, LeastOf
<1>4. PICK e \in S : e.from = a /\ e.to = b /\ e.type = c
  BY <1>3
<1>5. ASSUME NEW d \in S
      PROVE  ~EdgeBefore(d, e)
  <2>1. a <= d.from
    BY <1>1
  <2>2. d.from = a => b <= d.to
    BY <1>2
  <2>3. d.from = a /\ d.to = b => c <= d.type
    BY <1>3
  <2>4. d.from \in Nat /\ d.to \in Nat /\ d.type \in Nat /\ a \in Nat /\ b \in Nat /\ c \in Nat
    BY <1>0, <1>4
  <2> QED
    BY <1>4, <2>1, <2>2, <2>3, <2>4 DEF EdgeBefore
<1> QED
  BY <1>5

\* Permutations that put the first k in their places.
Partly(edges, n, k) ==
    {p \in [1..n -> 1..n] :
        /\ \A v \in 1..n : \E i \in 1..n : p[i] = v
        /\ \A i, j \in 1..n : i < j /\ i <= k => ~EdgeBefore(edges[p[j]], edges[p[i]])}

LEMMA OneMoreInPlace ==
    ASSUME NEW n \in Nat, NEW edges \in [1..n -> SavedEdge], NEW k \in 1..n,
           NEW p \in Partly(edges, n, k - 1)
    PROVE  Partly(edges, n, k) # {}
<1>1. /\ p \in [1..n -> 1..n] /\ \A v \in 1..n : \E i \in 1..n : p[i] = v
      /\ \A i, j \in 1..n : i < j /\ i <= k - 1 => ~EdgeBefore(edges[p[j]], edges[p[i]])
  BY DEF Partly
<1>2. PICK m \in k..n : \A j \in k..n : ~EdgeBefore(edges[p[j]], edges[p[m]])
  <2> DEFINE S == {edges[p[j]] : j \in k..n}
  <2>1. S \in SUBSET SavedEdge /\ S # {}
    <3>1. \A j \in k..n : edges[p[j]] \in SavedEdge
      <4>1. \A j \in k..n : j \in 1..n
        OBVIOUS
      <4> QED
        BY <1>1, <4>1
    <3>2. k \in k..n
      OBVIOUS
    <3> QED
      BY <3>1, <3>2
  <2>2. PICK e \in S : \A d \in S : ~EdgeBefore(d, e)
    <3> HIDE DEF S
    <3> QED
      BY <2>1, LeastEdge
  <2> QED
    BY <2>2
<1> DEFINE to(i) == IF i = k THEN m ELSE IF i = m THEN k ELSE i
           q == [i \in 1..n |-> p[to(i)]]
<1>3. \A i \in 1..n : /\ to(i) \in 1..n /\ to(to(i)) = i
                      /\ i < k => to(i) = i
                      /\ i >= k => to(i) \in k..n
  OBVIOUS
<1>4. to(k) = m /\ m \in 1..n
  OBVIOUS
<1>5. q \in [1..n -> 1..n] /\ \A i \in 1..n : q[i] = p[to(i)]
  <2>1. \A i \in 1..n : p[to(i)] \in 1..n
    <3> HIDE DEF to
    <3> QED
      BY <1>1, <1>3
  <2> HIDE DEF to
  <2> QED
    BY <2>1
<1> HIDE DEF to, q
<1>6. ASSUME NEW v \in 1..n
      PROVE  \E i \in 1..n : q[i] = v
  <2>1. PICK i \in 1..n : p[i] = v
    BY <1>1
  <2>2. to(i) \in 1..n /\ q[to(i)] = p[to(to(i))] /\ to(to(i)) = i
    BY <1>3, <1>5
  <2> QED
    BY <2>1, <2>2
<1>7. ASSUME NEW i \in 1..n, NEW j \in 1..n, i < j, i <= k
      PROVE  ~EdgeBefore(edges[q[j]], edges[q[i]])
  <2>1. CASE i < k
    <3>1. to(i) = i /\ to(j) \in 1..n /\ i < to(j) /\ i <= k - 1
      <4>1. CASE j < k
        BY <1>3, <1>7, <2>1, <4>1
      <4>2. CASE j >= k
        BY <1>3, <1>7, <2>1, <4>2
      <4> QED
        BY <4>1, <4>2
    <3>2. ~EdgeBefore(edges[p[to(j)]], edges[p[i]])
      BY <1>1, <3>1
    <3> QED
      BY <1>5, <3>1, <3>2
  <2>2. CASE i = k
    <3>1. to(j) \in k..n
      BY <1>3, <1>7, <2>2
    <3> QED
      BY <1>2, <1>4, <1>5, <2>2, <3>1
  <2> QED
    BY <1>7, <2>1, <2>2
<1> QED
  BY <1>5, <1>6, <1>7 DEF Partly

LEMMA OrdersExist ==
    ASSUME NEW edges \in Seq(SavedEdge)
    PROVE  Orders(edges) # {}
<1> PICK n \in Nat : n = Len(edges)
  OBVIOUS
<1> PICK f \in [1..n -> SavedEdge] : f = edges
  OBVIOUS
<1> DEFINE T == {k \in 0..n : Partly(f, n, k) = {}}
<1>1. T = {}
  <2> SUFFICES ASSUME T # {}
               PROVE  FALSE
    OBVIOUS
  <2>1. PICK k \in T : \A m \in T : k <= m
    <3>1. T \in SUBSET Nat
      OBVIOUS
    <3> HIDE DEF T
    <3> QED
      BY <3>1, LeastOf
  <2>2. k # 0
    <3> DEFINE g == [i \in 1..n |-> i]
    <3>1. g \in Partly(f, n, 0)
      BY DEF Partly
    <3> QED
      BY <2>1, <3>1
  <2>3. k \in 1..n /\ k - 1 \in 0..n /\ ~(k <= k - 1)
    BY <2>2
  <2>4. PICK p \in Partly(f, n, k - 1) : TRUE
    BY <2>1, <2>3
  <2> QED
    BY <2>1, <2>3, <2>4, OneMoreInPlace
<1>2. PICK p \in Partly(f, n, n) : TRUE
  <2>1. n \in 0..n
    OBVIOUS
  <2> QED
    BY <1>1, <2>1
<1>3. p \in Orders(edges)
  <2>1. DOMAIN edges = 1..n
    OBVIOUS
  <2>2. /\ p \in [1..n -> 1..n] /\ \A v \in 1..n : \E i \in 1..n : p[i] = v
        /\ \A i, j \in 1..n : i < j /\ i <= n => ~EdgeBefore(f[p[j]], f[p[i]])
    BY <1>2 DEF Partly
  <2>3. \A i, j \in 1..n : i < j => ~EdgeBefore(f[p[j]], f[p[i]])
    BY <2>2
  <2> QED
    BY <2>1, <2>2, <2>3 DEF Orders
<1> QED
  BY <1>3

LEMMA SortedEdges ==
    ASSUME NEW edges \in Seq(SavedEdge)
    PROVE  Sorted(edges) \in Seq(SavedEdge) /\ Len(Sorted(edges)) = Len(edges)
<1> PICK n \in Nat : n = Len(edges)
  OBVIOUS
<1> PICK p : p = CHOOSE q \in Orders(edges) : TRUE
  OBVIOUS
<1>1. p \in Orders(edges)
  BY OrdersExist
<1>2. DOMAIN edges = 1..n
  OBVIOUS
<1>3. p \in [1..n -> 1..n]
  BY <1>1, <1>2 DEF Orders
<1>4. \A i \in 1..n : edges[p[i]] \in SavedEdge
  BY <1>3
<1>5. Sorted(edges) = [i \in 1..n |-> edges[p[i]]]
  BY <1>2 DEF Sorted
<1>6. Sorted(edges) \in [1..n -> SavedEdge]
  BY <1>4, <1>5
<1> QED
  BY <1>6, FunctionsAreSequences

(***************************************************************************)
(* The rows of the tables.                                                 *)
(***************************************************************************)
LEMMA Five ==
    ASSUME NEW a \in Nat, NEW b \in Nat, NEW c \in Nat, NEW d \in Nat, NEW e \in Nat,
           NEW t, t = <<a, b, c, d, e>>
    PROVE  /\ t \in Seq(Nat) /\ Len(t) = 5
           /\ t[1] = a /\ t[2] = b /\ t[3] = c /\ t[4] = d /\ t[5] = e
OBVIOUS

LEMMA Six ==
    ASSUME NEW a \in Nat, NEW b \in Nat, NEW c \in Nat, NEW d \in Nat, NEW e \in Nat, NEW f \in Nat,
           NEW t, t = <<a, b, c, d, e, f>>
    PROVE  /\ t \in Seq(Nat) /\ Len(t) = 6
           /\ t[1] = a /\ t[2] = b /\ t[3] = c /\ t[4] = d /\ t[5] = e /\ t[6] = f
OBVIOUS

LEMMA FileRow ==
    ASSUME NEW ix \in Good, NEW i \in DOMAIN ix.files, NEW f, f = ix.files[i], NEW t, t = FileCells(ix, f)
    PROVE  /\ f \in SavedFile /\ HasString(ix, f.name) /\ t \in Seq(Nat) /\ Len(t) = 5
           /\ t[1] = f.parent /\ t[2] = Offset(ix, f.name) /\ t[3] = f.type /\ t[4] = f.flags /\ t[5] = f.hash
<1>1. f \in SavedFile
  <2> PICK files \in Seq(SavedFile) : files = ix.files
    BY GoodTypes
  <2> QED
    OBVIOUS
<1>2. f.parent \in Nat /\ f.type \in Nat /\ f.flags \in Nat /\ f.hash \in Nat
  BY <1>1 DEF SavedFile, NodeTypes, FileFlags
<1>3. HasString(ix, f.name)
  BY StringsAre
<1>4. Offset(ix, f.name) \in Nat
  BY <1>3, StringsStand
<1>5. t = <<f.parent, Offset(ix, f.name), f.type, f.flags, f.hash>>
  BY DEF FileCells
<1> QED
  BY <1>1, <1>2, <1>3, <1>4, <1>5, Five

LEMMA CommandRow ==
    ASSUME NEW ix \in Good, NEW i \in DOMAIN ix.commands, NEW c, c = ix.commands[i],
           NEW t, t = CommandCells(ix, c)
    PROVE  /\ c \in SavedCommand
           /\ HasString(ix, Display(c.text)) /\ HasString(ix, Display(c.display)) /\ HasString(ix, c.env)
           /\ t \in Seq(Nat) /\ Len(t) = 5
           /\ t[1] = c.dir /\ t[2] = Offset(ix, Display(c.text)) /\ t[3] = Offset(ix, Display(c.display))
           /\ t[4] = Offset(ix, c.env) /\ t[5] = c.flags
<1>1. c \in SavedCommand
  <2> PICK commands \in Seq(SavedCommand) : commands = ix.commands
    BY GoodTypes
  <2> QED
    OBVIOUS
<1>2. c.dir \in Nat /\ c.flags \in Nat
  BY <1>1 DEF SavedCommand, CommandFlags
<1>3. HasString(ix, Display(c.text)) /\ HasString(ix, Display(c.display)) /\ HasString(ix, c.env)
  BY StringsAre
<1>4. Offset(ix, Display(c.text)) \in Nat /\ Offset(ix, Display(c.display)) \in Nat /\ Offset(ix, c.env) \in Nat
  BY <1>3, StringsStand
<1>5. t = <<c.dir, Offset(ix, Display(c.text)), Offset(ix, Display(c.display)), Offset(ix, c.env), c.flags>>
  BY DEF CommandCells
<1>6. /\ t \in Seq(Nat) /\ Len(t) = 5
      /\ t[1] = c.dir /\ t[2] = Offset(ix, Display(c.text)) /\ t[3] = Offset(ix, Display(c.display))
      /\ t[4] = Offset(ix, c.env) /\ t[5] = c.flags
  <2> PICK o1 \in Nat : o1 = Offset(ix, Display(c.text))
    BY <1>4
  <2> PICK o2 \in Nat : o2 = Offset(ix, Display(c.display))
    BY <1>4
  <2> PICK o3 \in Nat : o3 = Offset(ix, c.env)
    BY <1>4
  <2> PICK dir \in Nat : dir = c.dir
    BY <1>2
  <2> PICK flags \in Nat : flags = c.flags
    BY <1>2
  <2>1. t = <<dir, o1, o2, o3, flags>>
    BY <1>5
  <2>2. t \in Seq(Nat) /\ Len(t) = 5 /\ t[1] = dir /\ t[2] = o1 /\ t[3] = o2 /\ t[4] = o3 /\ t[5] = flags
    <3> PICK u : u = <<dir, o1, o2, o3, flags>>
      OBVIOUS
    <3>1. u \in Seq(Nat) /\ Len(u) = 5 /\ u[1] = dir /\ u[2] = o1 /\ u[3] = o2 /\ u[4] = o3 /\ u[5] = flags
      BY Five, SMTT(60)
    <3>2. u = t
      BY <2>1
    <3> QED
      BY <3>1, <3>2
  <2> QED
    BY <2>2
<1> QED
  BY <1>1, <1>3, <1>6

LEMMA EdgeRow ==
    ASSUME NEW e \in SavedEdge, NEW t, t = EdgeCells(e)
    PROVE  /\ t \in Seq(Nat) /\ Len(t) = 3
           /\ t[1] = e.from /\ t[2] = e.to /\ t[3] = e.type
<1>1. e.from \in Nat /\ e.to \in Nat /\ e.type \in Nat
  BY DEF SavedEdge, Links
<1> QED
  BY <1>1, Triple DEF EdgeCells

\* The operands of a command: six numbers, and six lists they are the lengths of.
LEMMA OperandRow ==
    ASSUME NEW ix \in Good, NEW i \in DOMAIN ix.commands, NEW c, c = ix.commands[i],
           NEW t, t = OperandCells(c)
    PROVE  LET n1 == Len(c.ins.ids)
               n2 == Len(c.outs.ids)
               n3 == Len(c.order.ids)
               s1 == Len(c.ins.starts)
               s2 == Len(c.outs.starts)
               s3 == Len(c.order.starts)
               head == <<n1, n2, s1 - 1, s2 - 1, n3, s3 - 1>>
           IN  /\ c.ins \in SavedList /\ c.outs \in SavedList /\ c.order \in SavedList
               /\ s1 \in Nat \ {0} /\ s2 \in Nat \ {0} /\ s3 \in Nat \ {0}
               /\ head \in Seq(Nat) /\ Len(head) = 6
               /\ t \in Seq(Nat) /\ Len(t) = 6 + n1 + n2 + n3 + s1 + s2 + s3
               /\ Stands(t, 0, head)
               /\ Stands(t, 6, c.ins.ids) /\ Stands(t, 6 + n1, c.outs.ids)
               /\ Stands(t, 6 + n1 + n2, c.order.ids)
               /\ Stands(t, 6 + n1 + n2 + n3, c.ins.starts)
               /\ Stands(t, 6 + n1 + n2 + n3 + s1, c.outs.starts)
               /\ Stands(t, 6 + n1 + n2 + n3 + s1 + s2, c.order.starts)
<1>1. c \in SavedCommand
  BY CommandRow
<1>2. c.ins \in SavedList /\ c.outs \in SavedList /\ c.order \in SavedList
  BY <1>1 DEF SavedCommand
<1> DEFINE i1 == c.ins.ids
           i2 == c.outs.ids
           i3 == c.order.ids
           l1 == c.ins.starts
           l2 == c.outs.starts
           l3 == c.order.starts
           head == <<Len(i1), Len(i2), Len(l1) - 1, Len(l2) - 1, Len(i3), Len(l3) - 1>>
<1>3. i1 \in Seq(Nat) /\ i2 \in Seq(Nat) /\ i3 \in Seq(Nat)
  BY <1>2 DEF SavedList
<1>4. l1 \in Seq(Nat) /\ l2 \in Seq(Nat) /\ l3 \in Seq(Nat)
  BY <1>2 DEF SavedList
<1>5. l1 # <<>> /\ l2 # <<>> /\ l3 # <<>>
  BY GoodTypes
<1>6. t = head \o i1 \o i2 \o i3 \o l1 \o l2 \o l3
  BY DEF OperandCells, Tokens
<1> HIDE DEF i1, i2, i3, l1, l2, l3
<1>7. /\ Len(i1) \in Nat /\ Len(i2) \in Nat /\ Len(i3) \in Nat
      /\ Len(l1) \in Nat \ {0} /\ Len(l2) \in Nat \ {0} /\ Len(l3) \in Nat \ {0}
  <2>1. \A l \in Seq(Nat) : Len(l) \in Nat /\ (l # <<>> => Len(l) # 0)
    OBVIOUS
  <2> QED
    BY <1>3, <1>4, <1>5, <2>1
<1>8. head \in Seq(Nat) /\ Len(head) = 6
  <2>1. Len(l1) - 1 \in Nat /\ Len(l2) - 1 \in Nat /\ Len(l3) - 1 \in Nat
    <3>1. \A n \in Nat \ {0} : n - 1 \in Nat
      OBVIOUS
    <3> QED
      BY <1>7, <3>1
  <2> QED
    BY <1>7, <2>1, Six
<1> HIDE DEF head
<1>9. InARow(t, head, i1, i2, i3, l1, l2, l3)
  <2>1. InARow(head \o i1 \o i2 \o i3 \o l1 \o l2 \o l3, head, i1, i2, i3, l1, l2, l3)
    BY <1>3, <1>4, <1>8, SevenInARow
  <2> QED
    BY <1>6, <2>1
<1>10. /\ t \in Seq(Nat) /\ Len(t) = 6 + Len(i1) + Len(i2) + Len(i3) + Len(l1) + Len(l2) + Len(l3)
       /\ Stands(t, 0, head) /\ Stands(t, 6, i1) /\ Stands(t, 6 + Len(i1), i2)
       /\ Stands(t, 6 + Len(i1) + Len(i2), i3) /\ Stands(t, 6 + Len(i1) + Len(i2) + Len(i3), l1)
       /\ Stands(t, 6 + Len(i1) + Len(i2) + Len(i3) + Len(l1), l2)
       /\ Stands(t, 6 + Len(i1) + Len(i2) + Len(i3) + Len(l1) + Len(l2), l3)
  BY <1>8, <1>9 DEF InARow
<1> QED
  BY <1>2, <1>7, <1>8, <1>10, Zenon DEF i1, i2, i3, l1, l2, l3, head

LEMMA TablesAre ==
    ASSUME NEW ix \in Good
    PROVE  LET nf == Len(ix.files)
               nc == Len(ix.commands)
               ne == Len(ix.edges)
           IN  /\ nf \in Nat /\ nc \in Nat /\ ne \in Nat
               /\ DOMAIN ix.files = 1..nf /\ DOMAIN ix.commands = 1..nc /\ DOMAIN ix.edges = 1..ne
               /\ FileRows(ix) \in Seq(Seq(Nat)) /\ Len(FileRows(ix)) = nf
               /\ \A i \in 1..nf : FileRows(ix)[i] = FileCells(ix, ix.files[i])
               /\ CommandRows(ix) \in Seq(Seq(Nat)) /\ Len(CommandRows(ix)) = nc
               /\ \A i \in 1..nc : CommandRows(ix)[i] = CommandCells(ix, ix.commands[i])
               /\ EdgeRows(ix) \in Seq(Seq(Nat)) /\ Len(EdgeRows(ix)) = ne
               /\ \A i \in 1..ne : EdgeRows(ix)[i] = EdgeCells(Sorted(ix.edges)[i])
               /\ OperandRows(ix) \in Seq(Seq(Nat)) /\ Len(OperandRows(ix)) = nc
               /\ \A i \in 1..nc : OperandRows(ix)[i] = OperandCells(ix.commands[i])
               /\ OperandTable(ix) \in Seq(Nat) /\ Len(OperandTable(ix)) = nc
               /\ \A i \in 1..nc : OperandTable(ix)[i] = Len(Pile(OperandRows(ix), i - 1))
<1> PICK files \in Seq(SavedFile) : files = ix.files
  BY GoodTypes
<1> PICK commands \in Seq(SavedCommand) : commands = ix.commands
  BY GoodTypes
<1> PICK edges \in Seq(SavedEdge) : edges = ix.edges
  BY GoodTypes
<1> PICK nf \in Nat : nf = Len(files)
  OBVIOUS
<1> PICK nc \in Nat : nc = Len(commands)
  OBVIOUS
<1> PICK ne \in Nat : ne = Len(edges)
  OBVIOUS
<1>1. DOMAIN ix.files = 1..nf /\ DOMAIN ix.commands = 1..nc /\ DOMAIN ix.edges = 1..ne
  OBVIOUS
<1>2. /\ FileRows(ix) \in Seq(Seq(Nat)) /\ Len(FileRows(ix)) = nf
      /\ \A i \in 1..nf : FileRows(ix)[i] = FileCells(ix, ix.files[i])
  <2>1. FileRows(ix) = [i \in 1..nf |-> FileCells(ix, ix.files[i])]
    BY <1>1 DEF FileRows
  <2>2. \A i \in 1..nf : FileCells(ix, ix.files[i]) \in Seq(Nat)
    BY <1>1, FileRow
  <2>3. FileRows(ix) \in [1..nf -> Seq(Nat)]
    BY <2>1, <2>2
  <2> QED
    BY <2>1, <2>3, FunctionsAreSequences
<1>3. /\ CommandRows(ix) \in Seq(Seq(Nat)) /\ Len(CommandRows(ix)) = nc
      /\ \A i \in 1..nc : CommandRows(ix)[i] = CommandCells(ix, ix.commands[i])
  <2>1. CommandRows(ix) = [i \in 1..nc |-> CommandCells(ix, ix.commands[i])]
    BY <1>1 DEF CommandRows
  <2>2. \A i \in 1..nc : CommandCells(ix, ix.commands[i]) \in Seq(Nat)
    BY <1>1, CommandRow
  <2>3. CommandRows(ix) \in [1..nc -> Seq(Nat)]
    BY <2>1, <2>2
  <2> QED
    BY <2>1, <2>3, FunctionsAreSequences
<1>4. /\ EdgeRows(ix) \in Seq(Seq(Nat)) /\ Len(EdgeRows(ix)) = ne
      /\ \A i \in 1..ne : EdgeRows(ix)[i] = EdgeCells(Sorted(ix.edges)[i])
  <2>1. EdgeRows(ix) = [i \in 1..ne |-> EdgeCells(Sorted(ix.edges)[i])]
    BY <1>1 DEF EdgeRows
  <2>3. \A i \in 1..ne : EdgeCells(Sorted(ix.edges)[i]) \in Seq(Nat)
    <3> PICK sorted \in Seq(SavedEdge) : sorted = Sorted(edges) /\ Len(sorted) = ne
      BY SortedEdges
    <3>1. \A i \in 1..ne : sorted[i] \in SavedEdge
      OBVIOUS
    <3> QED
      BY <3>1, EdgeRow
  <2>4. EdgeRows(ix) \in [1..ne -> Seq(Nat)]
    BY <2>1, <2>3
  <2>5. EdgeRows(ix) \in Seq(Seq(Nat)) /\ Len(EdgeRows(ix)) = ne
    BY <2>4, FunctionsAreSequences
  <2> QED
    BY <2>1, <2>5
<1>5. /\ OperandRows(ix) \in Seq(Seq(Nat)) /\ Len(OperandRows(ix)) = nc
      /\ \A i \in 1..nc : OperandRows(ix)[i] = OperandCells(ix.commands[i])
  <2>1. OperandRows(ix) = [i \in 1..nc |-> OperandCells(ix.commands[i])]
    BY <1>1 DEF OperandRows
  <2>2. \A i \in 1..nc : OperandCells(ix.commands[i]) \in Seq(Nat)
    BY <1>1, OperandRow
  <2>3. OperandRows(ix) \in [1..nc -> Seq(Nat)]
    BY <2>1, <2>2
  <2> QED
    BY <2>1, <2>3, FunctionsAreSequences
<1>6. /\ OperandTable(ix) \in Seq(Nat) /\ Len(OperandTable(ix)) = nc
      /\ \A i \in 1..nc : OperandTable(ix)[i] = Len(Pile(OperandRows(ix), i - 1))
  <2>1. OperandTable(ix) = [i \in 1..nc |-> Len(Pile(OperandRows(ix), i - 1))]
    BY <1>1 DEF OperandTable, Pile
  <2>2. ASSUME NEW i \in 1..nc
        PROVE  Len(Pile(OperandRows(ix), i - 1)) \in Nat
    <3>1. i - 1 \in 0..Len(OperandRows(ix))
      BY <1>5
    <3>2. Pile(OperandRows(ix), i - 1) \in Seq(Nat)
      BY <1>5, <3>1, PilesGrow
    <3> QED
      BY <3>2, LenProperties
  <2>3. OperandTable(ix) \in [1..nc -> Nat]
    BY <2>1, <2>2
  <2> QED
    BY <2>1, <2>3, FunctionsAreSequences
<1> QED
  BY <1>1, <1>2, <1>3, <1>4, <1>5, <1>6

(***************************************************************************)
(* The image: a header, the tables and the strings, each where the header  *)
(* says.                                                                   *)
(***************************************************************************)
LEMMA Twelve ==
    ASSUME NEW a \in Nat, NEW b \in Nat, NEW c \in Nat, NEW d \in Nat, NEW e \in Nat, NEW f \in Nat,
           NEW g \in Nat, NEW h \in Nat, NEW i \in Nat, NEW j \in Nat, NEW k \in Nat, NEW l \in Nat,
           NEW t, t = <<a, b, c, d, e, f, g, h, i, j, k, l>>
    PROVE  /\ t \in Seq(Nat) /\ Len(t) = 12
           /\ t[1] = a /\ t[2] = b /\ t[3] = c /\ t[4] = d /\ t[5] = e /\ t[6] = f
           /\ t[7] = g /\ t[8] = h /\ t[9] = i /\ t[10] = j /\ t[11] = k /\ t[12] = l
OBVIOUS

\* What an image of a record looks like.
Laid(c, ix, h) ==
    LET files   == FlattenSeq(FileRows(ix))
        cmds    == FlattenSeq(CommandRows(ix))
        edges   == FlattenSeq(EdgeRows(ix))
        table   == OperandTable(ix)
        ops     == FlattenSeq(OperandRows(ix))
        strings == StringData(ix)
    IN  /\ h.magic = Magic /\ h.version = Version
        /\ h.files = Len(ix.files) /\ h.commands = Len(ix.commands) /\ h.edges = Len(ix.edges)
        /\ h.string_size = Len(strings)
        /\ h.file_offset = 12
        /\ h.command_offset = h.file_offset + Len(files)
        /\ h.edge_offset = h.command_offset + Len(cmds)
        /\ h.table_offset = h.edge_offset + Len(edges)
        /\ h.data_offset = h.table_offset + Len(table)
        /\ h.string_offset = h.data_offset + Len(ops)
        /\ Len(c) = h.string_offset + h.string_size
        /\ Stands(c, h.file_offset, files) /\ Stands(c, h.command_offset, cmds)
        /\ Stands(c, h.edge_offset, edges) /\ Stands(c, h.table_offset, table)
        /\ Stands(c, h.data_offset, ops) /\ Stands(c, h.string_offset, strings)

LEMMA PartsAreWords ==
    ASSUME NEW ix \in Good
    PROVE  /\ FlattenSeq(FileRows(ix)) \in Seq(Nat)
           /\ FlattenSeq(CommandRows(ix)) \in Seq(Nat)
           /\ FlattenSeq(EdgeRows(ix)) \in Seq(Nat)
           /\ OperandTable(ix) \in Seq(Nat)
           /\ FlattenSeq(OperandRows(ix)) \in Seq(Nat)
           /\ StringData(ix) \in Seq(Nat)
<1>1. ASSUME NEW rows \in Seq(Seq(Nat))
      PROVE  FlattenSeq(rows) \in Seq(Nat)
  <2>1. Len(rows) \in 0..Len(rows)
    OBVIOUS
  <2> QED
    BY <2>1, PilesGrow
<1>2. /\ FileRows(ix) \in Seq(Seq(Nat)) /\ CommandRows(ix) \in Seq(Seq(Nat))
      /\ EdgeRows(ix) \in Seq(Seq(Nat)) /\ OperandRows(ix) \in Seq(Seq(Nat))
  BY TablesAre
<1> QED
  BY <1>1, <1>2, TablesAre, StringDataWords

LEMMA ImageIsLaid ==
    ASSUME NEW ix \in Good
    PROVE  \E c \in Seq(Nat) : /\ Image(Version, ix) = [cells |-> c, footer |-> c]
                               /\ Laid(c, ix, Header([cells |-> c, footer |-> c]))
<1> DEFINE files   == FlattenSeq(FileRows(ix))
           cmds    == FlattenSeq(CommandRows(ix))
           edges   == FlattenSeq(EdgeRows(ix))
           table   == OperandTable(ix)
           ops     == FlattenSeq(OperandRows(ix))
           strings == StringData(ix)
           nf == Len(ix.files)
           nc == Len(ix.commands)
           ne == Len(ix.edges)
           o1 == 12
           o2 == o1 + Len(files)
           o3 == o2 + Len(cmds)
           o4 == o3 + Len(edges)
           o5 == o4 + Len(table)
           o6 == o5 + Len(ops)
           head == <<Magic, Version, nf, nc, ne, Len(strings), o1, o2, o3, o4, o5, o6>>
           c == head \o files \o cmds \o edges \o table \o ops \o strings
<1>1. Image(Version, ix) = [cells |-> c, footer |-> c]
  BY DEF Image, HeaderSize
<1>2. /\ files \in Seq(Nat) /\ cmds \in Seq(Nat) /\ edges \in Seq(Nat)
      /\ table \in Seq(Nat) /\ ops \in Seq(Nat) /\ strings \in Seq(Nat)
  BY PartsAreWords
<1>3. nf \in Nat /\ nc \in Nat /\ ne \in Nat
  BY TablesAre
<1> HIDE DEF files, cmds, edges, table, ops, strings, nf, nc, ne
<1>4. /\ Len(files) \in Nat /\ Len(cmds) \in Nat /\ Len(edges) \in Nat
      /\ Len(table) \in Nat /\ Len(ops) \in Nat /\ Len(strings) \in Nat
  <2>1. \A s \in Seq(Nat) : Len(s) \in Nat
    OBVIOUS
  <2> QED
    BY <1>2, <2>1
<1>5. /\ o1 \in Nat /\ o2 \in Nat /\ o3 \in Nat /\ o4 \in Nat /\ o5 \in Nat /\ o6 \in Nat
  BY <1>4
<1>6. Magic \in Nat /\ Version \in Nat
  BY DEF Magic, Version
<1> HIDE DEF o2, o3, o4, o5, o6
<1>7. /\ head \in Seq(Nat) /\ Len(head) = 12
      /\ head[1] = Magic /\ head[2] = Version /\ head[3] = nf /\ head[4] = nc /\ head[5] = ne
      /\ head[6] = Len(strings) /\ head[7] = o1 /\ head[8] = o2 /\ head[9] = o3
      /\ head[10] = o4 /\ head[11] = o5 /\ head[12] = o6
  BY <1>3, <1>4, <1>5, <1>6, Twelve
<1> HIDE DEF head
<1>8. InARow(c, head, files, cmds, edges, table, ops, strings)
  BY <1>2, <1>7, SevenInARow
<1> HIDE DEF c
<1>9. /\ c \in Seq(Nat) /\ Len(c) = o6 + Len(strings)
      /\ Stands(c, 0, head) /\ Stands(c, o1, files) /\ Stands(c, o2, cmds) /\ Stands(c, o3, edges)
      /\ Stands(c, o4, table) /\ Stands(c, o5, ops) /\ Stands(c, o6, strings)
  BY <1>7, <1>8 DEF InARow, o2, o3, o4, o5, o6
<1>10. \A j \in 1..12 : c[j] = head[j]
  <2>1. \A j \in 1..12 : c[0 + j] = head[j]
    BY <1>7, <1>9 DEF Stands
  <2> QED
    BY <2>1
<1>11. /\ c[1] = Magic /\ c[2] = Version /\ c[3] = nf /\ c[4] = nc /\ c[5] = ne
       /\ c[6] = Len(strings) /\ c[7] = o1 /\ c[8] = o2 /\ c[9] = o3
       /\ c[10] = o4 /\ c[11] = o5 /\ c[12] = o6
  BY <1>7, <1>10
<1> DEFINE h == Header([cells |-> c, footer |-> c])
<1>12. /\ h.magic = Magic /\ h.version = Version /\ h.files = nf /\ h.commands = nc /\ h.edges = ne
       /\ h.string_size = Len(strings) /\ h.file_offset = o1 /\ h.command_offset = o2
       /\ h.edge_offset = o3 /\ h.table_offset = o4 /\ h.data_offset = o5 /\ h.string_offset = o6
  BY <1>11 DEF Header
<1>13. Laid(c, ix, h)
  <2> HIDE DEF h
  <2>1. /\ o2 = o1 + Len(files) /\ o3 = o2 + Len(cmds) /\ o4 = o3 + Len(edges)
        /\ o5 = o4 + Len(table) /\ o6 = o5 + Len(ops)
    BY DEF o2, o3, o4, o5, o6
  <2> HIDE DEF o1
  <2>2. o1 = 12
    BY DEF o1
  <2>3. /\ h.command_offset = h.file_offset + Len(files)
        /\ h.edge_offset = h.command_offset + Len(cmds)
        /\ h.table_offset = h.edge_offset + Len(edges)
        /\ h.data_offset = h.table_offset + Len(table)
        /\ h.string_offset = h.data_offset + Len(ops)
        /\ Len(c) = h.string_offset + h.string_size
    BY <1>9, <1>12, <2>1
  <2>4. /\ Stands(c, h.file_offset, files) /\ Stands(c, h.command_offset, cmds)
        /\ Stands(c, h.edge_offset, edges) /\ Stands(c, h.table_offset, table)
        /\ Stands(c, h.data_offset, ops) /\ Stands(c, h.string_offset, strings)
    BY <1>9, <1>12
  <2> QED
    BY <1>12, <2>2, <2>3, <2>4 DEF Laid, files, cmds, edges, table, ops, strings, nf, nc, ne
<1> QED
  BY <1>1, <1>9, <1>13

\* Every row of a table has its table's width.
LEMMA RowsAreEven ==
    ASSUME NEW ix \in Good
    PROVE  /\ \A k \in 1..Len(ix.files) : Len(FileRows(ix)[k]) = 5
           /\ \A k \in 1..Len(ix.commands) : Len(CommandRows(ix)[k]) = 5
           /\ \A k \in 1..Len(ix.edges) :
                 Sorted(ix.edges)[k] \in SavedEdge /\ Len(EdgeRows(ix)[k]) = 3
<1>1. ASSUME NEW k \in 1..Len(ix.files)
      PROVE  Len(FileRows(ix)[k]) = 5
  <2>1. k \in DOMAIN ix.files /\ FileRows(ix)[k] = FileCells(ix, ix.files[k])
    BY TablesAre
  <2> QED
    BY <2>1, FileRow
<1>2. ASSUME NEW k \in 1..Len(ix.commands)
      PROVE  Len(CommandRows(ix)[k]) = 5
  <2>1. k \in DOMAIN ix.commands /\ CommandRows(ix)[k] = CommandCells(ix, ix.commands[k])
    BY TablesAre
  <2> QED
    BY <2>1, CommandRow
<1>3. ASSUME NEW k \in 1..Len(ix.edges)
      PROVE  Sorted(ix.edges)[k] \in SavedEdge /\ Len(EdgeRows(ix)[k]) = 3
  <2>1. EdgeRows(ix)[k] = EdgeCells(Sorted(ix.edges)[k])
    BY TablesAre
  <2>2. Sorted(ix.edges)[k] \in SavedEdge
    <3> PICK s \in Seq(SavedEdge) : s = Sorted(ix.edges) /\ Len(s) = Len(ix.edges)
      BY GoodTypes, SortedEdges
    <3>1. k \in 1..Len(s)
      OBVIOUS
    <3> QED
      BY <3>1
  <2> QED
    BY <2>1, <2>2, EdgeRow
<1> QED
  BY <1>1, <1>2, <1>3

\* So it opens.
LEMMA ImageLayoutFits ==
    ASSUME NEW ix \in Good, NEW c \in Seq(Nat), NEW img, img = [cells |-> c, footer |-> c],
           Laid(c, ix, Header(img))
    PROVE  Len(c) >= 12 /\ DeclaredLayoutFits(img)
<1> DEFINE files   == FlattenSeq(FileRows(ix))
           cmds    == FlattenSeq(CommandRows(ix))
           edges   == FlattenSeq(EdgeRows(ix))
           table   == OperandTable(ix)
           ops     == FlattenSeq(OperandRows(ix))
           strings == StringData(ix)
           h == Header(img)
<1>1. img.cells = c
  OBVIOUS
<1>2. /\ files \in Seq(Nat) /\ cmds \in Seq(Nat) /\ edges \in Seq(Nat)
      /\ table \in Seq(Nat) /\ ops \in Seq(Nat) /\ strings \in Seq(Nat)
  BY PartsAreWords
<1>3. /\ h.files \in Nat /\ h.commands \in Nat /\ h.edges \in Nat
      /\ Len(files) = h.files * 5 /\ Len(cmds) = h.commands * 5 /\ Len(edges) = h.edges * 3
      /\ Len(table) = h.commands
  <2>1. ASSUME NEW rows \in Seq(Seq(Nat)), NEW n, n = Len(rows), NEW w \in {3, 5},
               \A k \in 1..n : Len(rows[k]) = w
        PROVE  Len(FlattenSeq(rows)) = n * w
    <3>1. Len(rows) \in Nat
      OBVIOUS
    <3>5. Pile(rows, Len(rows)) = FlattenSeq(rows)
      BY PilesGrow
    <3>2. \A k \in 1..Len(rows) : Len(rows[k]) = w
      BY <2>1
    <3>3. \A k \in 0..Len(rows) : Len(Pile(rows, k)) = k * w
      BY <3>2, EvenRows
    <3>4. Len(Pile(rows, Len(rows))) = Len(rows) * w
      BY <3>1, <3>3
    <3> QED
      BY <2>1, <3>4, <3>5
  <2>2. /\ h.files = Len(ix.files) /\ h.commands = Len(ix.commands) /\ h.edges = Len(ix.edges)
        /\ h.files \in Nat /\ h.commands \in Nat /\ h.edges \in Nat
    BY TablesAre DEF Laid
  <2>3. /\ FileRows(ix) \in Seq(Seq(Nat)) /\ Len(FileRows(ix)) = h.files
        /\ CommandRows(ix) \in Seq(Seq(Nat)) /\ Len(CommandRows(ix)) = h.commands
        /\ EdgeRows(ix) \in Seq(Seq(Nat)) /\ Len(EdgeRows(ix)) = h.edges
    BY <2>2, TablesAre
  <2>4. /\ \A k \in 1..h.files : Len(FileRows(ix)[k]) = 5
        /\ \A k \in 1..h.commands : Len(CommandRows(ix)[k]) = 5
        /\ \A k \in 1..h.edges : Len(EdgeRows(ix)[k]) = 3
    BY <2>2, RowsAreEven
  <2>5. Len(files) = h.files * 5
    BY <2>1, <2>3, <2>4
  <2>6. Len(cmds) = h.commands * 5
    BY <2>1, <2>3, <2>4
  <2>7. Len(edges) = h.edges * 3
    BY <2>1, <2>3, <2>4
  <2>8. Len(table) = h.commands
    BY TablesAre DEF Laid
  <2> QED
    BY <2>2, <2>5, <2>6, <2>7, <2>8
<1>4. /\ h.string_size = Len(strings)
      /\ h.file_offset = 12
      /\ h.command_offset = h.file_offset + Len(files)
      /\ h.edge_offset = h.command_offset + Len(cmds)
      /\ h.table_offset = h.edge_offset + Len(edges)
      /\ h.data_offset = h.table_offset + Len(table)
      /\ h.string_offset = h.data_offset + Len(ops)
      /\ Len(c) = h.string_offset + h.string_size
  BY DEF Laid
<1>5. /\ Len(files) \in Nat /\ Len(cmds) \in Nat /\ Len(edges) \in Nat
      /\ Len(table) \in Nat /\ Len(ops) \in Nat /\ Len(strings) \in Nat
  <2>1. \A s \in Seq(Nat) : Len(s) \in Nat
    OBVIOUS
  <2> QED
    BY <1>2, <2>1
<1> HIDE DEF files, cmds, edges, table, ops, strings, h
<1>6. /\ h.file_offset <= Len(c) /\ Len(files) <= Len(c) - h.file_offset
      /\ h.command_offset <= Len(c) /\ Len(cmds) <= Len(c) - h.command_offset
      /\ h.edge_offset <= Len(c) /\ Len(edges) <= Len(c) - h.edge_offset
      /\ h.table_offset <= Len(c) /\ Len(table) <= Len(c) - h.table_offset
      /\ h.string_offset <= Len(c) /\ h.string_size <= Len(c) - h.string_offset
      /\ h.data_offset <= h.string_offset /\ Len(c) >= 12
  <2> DEFINE a == Len(files)
             b == Len(cmds)
             d == Len(edges)
             e == Len(table)
             f == Len(ops)
             g == Len(strings)
             all == Len(c)
  <2>1. /\ a \in Nat /\ b \in Nat /\ d \in Nat /\ e \in Nat /\ f \in Nat /\ g \in Nat
    BY <1>5
  <2>2. /\ h.string_size = g /\ h.file_offset = 12 /\ h.command_offset = 12 + a
        /\ h.edge_offset = 12 + a + b /\ h.table_offset = 12 + a + b + d
        /\ h.data_offset = 12 + a + b + d + e /\ h.string_offset = 12 + a + b + d + e + f
        /\ all = 12 + a + b + d + e + f + g
    <3> HIDE DEF a, b, d, e, f, g, all
    <3>1. /\ h.string_size = g /\ h.file_offset = 12 /\ h.command_offset = h.file_offset + a
          /\ h.edge_offset = h.command_offset + b /\ h.table_offset = h.edge_offset + d
          /\ h.data_offset = h.table_offset + e /\ h.string_offset = h.data_offset + f
          /\ all = h.string_offset + h.string_size
      BY <1>4 DEF a, b, d, e, f, g, all
    <3> QED
      BY <2>1, <3>1
  <2> HIDE DEF a, b, d, e, f, g, all
  <2>3. /\ h.file_offset <= all /\ a <= all - h.file_offset
        /\ h.command_offset <= all /\ b <= all - h.command_offset
        /\ h.edge_offset <= all /\ d <= all - h.edge_offset
        /\ h.table_offset <= all /\ e <= all - h.table_offset
        /\ h.string_offset <= all /\ h.string_size <= all - h.string_offset
        /\ h.data_offset <= h.string_offset /\ all >= 12
    BY <2>1, <2>2
  <2> QED
    BY <2>3 DEF a, b, d, e, f, g, all
<1>7. DeclaredLayoutFits(img)
  BY <1>1, <1>3, <1>6 DEF DeclaredLayoutFits, Fits, FileSize, CommandSize, EdgeSize, h
<1> QED
  BY <1>6, <1>7

ImageOf(img, ix) ==
    img.cells \in Seq(Nat) /\ img.footer = img.cells /\ Laid(img.cells, ix, Header(img))

\* A string is read back from its offset.
LEMMA ReadsString ==
    ASSUME NEW ix \in Good, NEW img, ImageOf(img, ix), NEW s, HasString(ix, s)
    PROVE  /\ StringAt(img, Offset(ix, s)) = s /\ ShownAt(img, Offset(ix, s)) = s
           /\ s # NoString
<1> DEFINE c == img.cells
           h == Header(img)
           strings == StringData(ix)
           sp == h.string_offset
           off == Offset(ix, s)
           e == Entry(s)
           n == Len(s)
           size == h.string_size
<1>1. c \in Seq(Nat)
  BY DEF ImageOf
<1>2. Stands(c, sp, strings) /\ size = Len(strings)
  BY DEF ImageOf, Laid
<1>3. s \in Seq(Nat) /\ strings \in Seq(Nat) /\ off \in Nat /\ Stands(strings, off, e)
  BY StringsStand
<1>4. e \in Seq(Nat) /\ Len(e) = 1 + n /\ e[1] = n /\ Stands(e, 1, s)
  BY <1>3, EntryWords
<1>5. n \in Nat
  BY <1>3
<1>6. sp \in Nat
  BY <1>2 DEF Stands
<1> HIDE DEF c, h, strings, sp, off, e, n, size
<1>7. Stands(c, sp + off, e)
  BY <1>1, <1>2, <1>3, <1>4, StandsIn
<1>8. Stands(c, sp + off + 1, s)
  BY <1>1, <1>3, <1>4, <1>7, StandsIn
<1>9. off + 1 + n <= size
  <2>1. off + Len(e) <= Len(strings)
    BY <1>3 DEF Stands
  <2>2. off + (1 + n) <= size
    BY <1>2, <1>4, <2>1
  <2> QED
    BY <1>3, <1>5, <2>2
<1>10. size \in Nat
  BY <1>2, <1>3
<1>11. Cell(img, sp + off) = n
  <2>1. 1 \in 1..Len(e)
    BY <1>4, <1>5
  <2>2. \A j \in 1..Len(e) : Cell(img, sp + off + j - 1) = e[j]
    BY <1>1, <1>4, <1>7, ReadsCells DEF c
  <2>3. Cell(img, sp + off + 1 - 1) = e[1]
    BY <2>1, <2>2
  <2>4. sp + off + 1 - 1 = sp + off
    BY <1>3, <1>6
  <2> QED
    BY <1>4, <2>3, <2>4
<1>12. Cells(img, sp + off + 1, n) = s
  BY <1>1, <1>3, <1>8, ReadsCells DEF c, n
<1>13. StringPos(img, off) = sp + off /\ TableEnd(img) = sp + size
  BY DEF StringPos, TableEnd, sp, size, h
<1>14. StringStarts(img, off)
  <2>1. sp + off + 1 <= sp + size
    BY <1>3, <1>5, <1>6, <1>9, <1>10
  <2> QED
    BY <2>1, <1>13 DEF StringStarts
<1>15. StringEnds(img, off)
  <2>1. sp + off + 1 + n <= sp + size
    BY <1>3, <1>5, <1>6, <1>9, <1>10
  <2> QED
    BY <2>1, <1>11, <1>13 DEF StringEnds
<1>16. StringAt(img, off) = s
  BY <1>11, <1>12, <1>13, <1>14, <1>15 DEF StringAt
<1>17. s # NoString
  <2>1. NoString[1] = -2 /\ Len(NoString) = 1
    BY DEF NoString
  <2>2. ASSUME s = NoString
        PROVE  FALSE
    <3>1. 1 \in 1..Len(s)
      BY <2>1, <2>2
    <3>2. s[1] \in Nat
      BY <1>3, <3>1
    <3> QED
      BY <2>1, <2>2, <3>2
  <2> QED
    BY <2>2
<1> QED
  BY <1>16, <1>17 DEF ShownAt, off

\* A row of a table is read back.
LEMMA ReadsRow ==
    ASSUME NEW img, img.cells \in Seq(Nat), NEW rows \in Seq(Seq(Nat)), NEW w \in {3, 5},
           \A k \in 1..Len(rows) : Len(rows[k]) = w,
           NEW a, Stands(img.cells, a, FlattenSeq(rows)), NEW i \in 1..Len(rows)
    PROVE  Cells(img, a + (i - 1) * w, w) = rows[i]
<1> DEFINE row == rows[i]
           all == FlattenSeq(rows)
<1>1. row \in Seq(Nat) /\ Len(row) = w
  OBVIOUS
<1>2. all \in Seq(Nat)
  <2>1. Pile(rows, Len(rows)) = FlattenSeq(rows) /\ \A k \in 0..Len(rows) : Pile(rows, k) \in Seq(Nat)
    BY PilesGrow
  <2>2. Len(rows) \in 0..Len(rows)
    OBVIOUS
  <2> QED
    BY <2>1, <2>2
<1>3. Stands(all, Len(Pile(rows, i - 1)), row)
  BY RowsStand
<1>4. Len(Pile(rows, i - 1)) = (i - 1) * w
  <2>1. \A k \in 0..Len(rows) : Len(Pile(rows, k)) = k * w
    BY EvenRows
  <2>2. i - 1 \in 0..Len(rows)
    OBVIOUS
  <2> QED
    BY <2>1, <2>2
<1>5. Stands(img.cells, a + (i - 1) * w, row)
  <2> HIDE DEF row, all
  <2>1. Stands(img.cells, a, all)
    BY DEF all
  <2>2. Stands(all, (i - 1) * w, row)
    BY <1>3, <1>4
  <2> QED
    BY <1>1, <1>2, <2>1, <2>2, StandsIn
<1> HIDE DEF row
<1>6. Cells(img, a + (i - 1) * w, Len(row)) = row
  BY <1>1, <1>5, ReadsCells
<1> QED
  BY <1>1, <1>6 DEF row

LEMMA ReadsFile ==
    ASSUME NEW ix \in Good, NEW img, ImageOf(img, ix), NEW i \in 1..Len(ix.files)
    PROVE  FileAt(img, i) = ix.files[i] /\ GoodFile(ix.files[i])
<1> PICK f : f = ix.files[i]
  OBVIOUS
<1> PICK t : t = FileCells(ix, f)
  OBVIOUS
<1> DEFINE h == Header(img)
           rows == FileRows(ix)
<1>1. i \in DOMAIN ix.files /\ rows \in Seq(Seq(Nat)) /\ Len(rows) = Len(ix.files) /\ rows[i] = t
  BY TablesAre
<1>2. /\ f \in SavedFile /\ HasString(ix, f.name) /\ t \in Seq(Nat) /\ Len(t) = 5
      /\ t[1] = f.parent /\ t[2] = Offset(ix, f.name) /\ t[3] = f.type /\ t[4] = f.flags /\ t[5] = f.hash
  <2>1. i \in DOMAIN ix.files
    BY <1>1
  <2> QED
    BY <2>1, FileRow
<1>3. \A k \in 1..Len(rows) : Len(rows[k]) = 5
  BY <1>1, RowsAreEven
<1>4. Stands(img.cells, h.file_offset, FlattenSeq(rows)) /\ img.cells \in Seq(Nat)
  BY DEF ImageOf, Laid
<1> HIDE DEF rows, h
<1>5. RawFile(img, i) = t
  <2>1. Cells(img, h.file_offset + (i - 1) * 5, 5) = t
    <3>1. 5 \in {3, 5} /\ i \in 1..Len(rows)
      BY <1>1
    <3> QED
      BY <1>1, <1>3, <1>4, <3>1, ReadsRow
  <2> QED
    BY <2>1 DEF RawFile, FileSize, h
<1>6. StringAt(img, t[2]) = f.name /\ f.name # NoString
  BY <1>2, ReadsString
<1>7. FileAt(img, i) =
        [parent |-> f.parent, name |-> f.name, type |-> f.type, flags |-> f.flags, hash |-> f.hash]
  BY <1>2, <1>5, <1>6 DEF FileAt
<1>8. f = [parent |-> f.parent, name |-> f.name, type |-> f.type, flags |-> f.flags, hash |-> f.hash]
  BY <1>2 DEF SavedFile
<1>9. GoodFile(f)
  BY <1>2, <1>6 DEF GoodFile, SavedFile
<1> QED
  BY <1>7, <1>8, <1>9

LEMMA ReadsEdge ==
    ASSUME NEW ix \in Good, NEW img, ImageOf(img, ix), NEW i \in 1..Len(ix.edges)
    PROVE  EdgeAt(img, i) = Sorted(ix.edges)[i] /\ EdgeAt(img, i).type \in Links
<1> DEFINE e == Sorted(ix.edges)[i]
           h == Header(img)
           rows == EdgeRows(ix)
           t == EdgeCells(e)
<1>1. rows \in Seq(Seq(Nat)) /\ Len(rows) = Len(ix.edges) /\ rows[i] = t
  BY TablesAre
<1>3. e \in SavedEdge
  BY RowsAreEven
<1>4. t \in Seq(Nat) /\ t[1] = e.from /\ t[2] = e.to /\ t[3] = e.type
  BY <1>3, EdgeRow
<1>5. \A k \in 1..Len(rows) : Len(rows[k]) = 3
  BY <1>1, RowsAreEven
<1>6. Stands(img.cells, h.edge_offset, FlattenSeq(rows)) /\ img.cells \in Seq(Nat)
  BY DEF ImageOf, Laid
<1> HIDE DEF rows, t, e, h
<1>7. Cells(img, h.edge_offset + (i - 1) * 3, 3) = t
  <2>1. 3 \in {3, 5} /\ i \in 1..Len(rows)
    BY <1>1
  <2> QED
    BY <1>1, <1>5, <1>6, <2>1, ReadsRow
<1>8. EdgeAt(img, i) = [from |-> e.from, to |-> e.to, type |-> e.type]
  BY <1>4, <1>7 DEF EdgeAt, EdgeSize, h
<1>9. e = [from |-> e.from, to |-> e.to, type |-> e.type] /\ e.type \in Links
  BY <1>3 DEF SavedEdge
<1> QED
  BY <1>8, <1>9 DEF e

\* The operands of a command are found behind their offset.
LEMMA FindsOperands ==
    ASSUME NEW ix \in Good, NEW img, ImageOf(img, ix), NEW i \in 1..Len(ix.commands)
    PROVE  /\ Stands(img.cells, RecordPos(img, i), OperandCells(ix.commands[i]))
           /\ RecordPos(img, i) + Len(OperandCells(ix.commands[i])) <= Header(img).string_offset
           /\ Header(img).string_offset \in Nat /\ OperandCells(ix.commands[i]) \in Seq(Nat)
<1> DEFINE h == Header(img)
           c == img.cells
           rows == OperandRows(ix)
           all == FlattenSeq(rows)
           table == OperandTable(ix)
           rec == OperandCells(ix.commands[i])
           skip == Len(Pile(rows, i - 1))
           n == Len(ix.commands)
<1>1. /\ n \in Nat /\ rows \in Seq(Seq(Nat)) /\ Len(rows) = n /\ rows[i] = rec
      /\ table \in Seq(Nat) /\ Len(table) = n /\ table[i] = skip
  BY TablesAre
<1>2. /\ c \in Seq(Nat) /\ Stands(c, h.table_offset, table) /\ Stands(c, h.data_offset, all)
      /\ h.string_offset = h.data_offset + Len(all)
  BY DEF ImageOf, Laid
<1>3. all \in Seq(Nat)
  BY PartsAreWords
<1>4. i \in 1..Len(rows) /\ i \in 1..Len(table)
  BY <1>1
<1>5. rec \in Seq(Nat)
  <2>1. \A k \in 1..Len(rows) : rows[k] \in Seq(Nat)
    BY <1>1
  <2> QED
    BY <1>1, <1>4, <2>1
<1>6. Stands(all, skip, rows[i])
  BY <1>1, <1>4, RowsStand
<1> HIDE DEF h, c, rows, all, table, rec, skip, n
<1>7. Cell(img, h.table_offset + i - 1) = skip
  <2>1. \A j \in 1..Len(table) : Cell(img, h.table_offset + j - 1) = table[j]
    BY <1>1, <1>2, ReadsCells DEF c
  <2> QED
    BY <1>1, <1>4, <2>1
<1>8. RecordPos(img, i) = h.data_offset + skip
  BY <1>7 DEF RecordPos, h
<1>9. Stands(all, skip, rec)
  BY <1>1, <1>6
<1>10. Stands(c, h.data_offset + skip, rec)
  BY <1>2, <1>3, <1>5, <1>9, StandsIn
<1>11. skip \in Nat /\ skip + Len(rec) <= Len(all) /\ h.data_offset \in Nat
  BY <1>2, <1>9 DEF Stands
<1>12. Len(rec) \in Nat /\ Len(all) \in Nat
  BY <1>3, <1>5
<1>13. h.data_offset + skip + Len(rec) <= h.string_offset /\ h.string_offset \in Nat
  <2> PICK k \in Nat : k = Len(all)
    BY <1>12
  <2> PICK m \in Nat : m = Len(rec)
    BY <1>12
  <2>1. h.string_offset = h.data_offset + k /\ skip + m <= k
    BY <1>2, <1>11
  <2> PICK d \in Nat : d = h.data_offset
    BY <1>11
  <2>2. h.string_offset = d + k /\ d + skip + m <= d + k /\ d + k \in Nat
    BY <1>11, <2>1
  <2> QED
    BY <2>2
<1> QED
  BY <1>5, <1>8, <1>10, <1>13 DEF c, h, rec

\* What a list is read from.
LEMMA ReadsList ==
    ASSUME NEW img, img.cells \in Seq(Nat), NEW pos, NEW rec \in Seq(Nat), Stands(img.cells, pos, rec),
           NEW a, NEW s \in Seq(Nat), Stands(rec, a, s)
    PROVE  Cells(img, pos + a, Len(s)) = s
<1>1. Stands(img.cells, pos + a, s)
  BY StandsIn
<1> QED
  BY <1>1, ReadsCells

LEMMA ReadsOperands ==
    ASSUME NEW ix \in Good, NEW img, ImageOf(img, ix), NEW i \in 1..Len(ix.commands),
           NEW c, c = ix.commands[i]
    PROVE  /\ OperandsAt(img, i) = [ins |-> c.ins, outs |-> c.outs, order |-> c.order]
           /\ OperandsAt(img, i) # NoOperands
<1> PICK t : t = OperandCells(c)
  OBVIOUS
<1> DEFINE pos == RecordPos(img, i)
           limit == Header(img).string_offset
           i1 == c.ins.ids
           i2 == c.outs.ids
           i3 == c.order.ids
           l1 == c.ins.starts
           l2 == c.outs.starts
           l3 == c.order.starts
           n1 == Len(i1)
           n2 == Len(i2)
           n3 == Len(i3)
           s1 == Len(l1)
           s2 == Len(l2)
           s3 == Len(l3)
           head == <<n1, n2, s1 - 1, s2 - 1, n3, s3 - 1>>
<1>1. i \in DOMAIN ix.commands
  BY TablesAre
<1>2. Stands(img.cells, pos, t) /\ pos + Len(t) <= limit /\ limit \in Nat /\ t \in Seq(Nat)
  BY FindsOperands
<1>3. /\ c.ins \in SavedList /\ c.outs \in SavedList /\ c.order \in SavedList
      /\ s1 \in Nat \ {0} /\ s2 \in Nat \ {0} /\ s3 \in Nat \ {0}
      /\ head \in Seq(Nat) /\ Len(head) = 6
      /\ Len(t) = 6 + n1 + n2 + n3 + s1 + s2 + s3
      /\ Stands(t, 0, head)
      /\ Stands(t, 6, i1) /\ Stands(t, 6 + n1, i2)
      /\ Stands(t, 6 + n1 + n2, i3)
      /\ Stands(t, 6 + n1 + n2 + n3, l1)
      /\ Stands(t, 6 + n1 + n2 + n3 + s1, l2)
      /\ Stands(t, 6 + n1 + n2 + n3 + s1 + s2, l3)
  BY <1>1, OperandRow
<1>4. FromStarts(c.ins) /\ FromStarts(c.outs) /\ FromStarts(c.order)
  BY <1>1, GoodTypes
<1>5. /\ i1 \in Seq(Nat) /\ i2 \in Seq(Nat) /\ i3 \in Seq(Nat)
      /\ l1 \in Seq(Nat) /\ l2 \in Seq(Nat) /\ l3 \in Seq(Nat)
  BY <1>3 DEF SavedList
<1>6. n1 \in Nat /\ n2 \in Nat /\ n3 \in Nat
  <2>1. \A s \in Seq(Nat) : Len(s) \in Nat
    OBVIOUS
  <2> QED
    BY <1>5, <2>1
<1>7. /\ head[1] = n1 /\ head[2] = n2 /\ head[3] = s1 - 1 /\ head[4] = s2 - 1
      /\ head[5] = n3 /\ head[6] = s3 - 1
  OBVIOUS
<1>8. /\ c.ins = [ids |-> i1, starts |-> l1] /\ c.outs = [ids |-> i2, starts |-> l2]
      /\ c.order = [ids |-> i3, starts |-> l3]
  BY <1>3 DEF SavedList
<1>9. img.cells \in Seq(Nat)
  BY DEF ImageOf
<1>10. pos \in Nat
  BY <1>2 DEF Stands
<1> HIDE DEF pos, limit, i1, i2, i3, l1, l2, l3, n1, n2, n3, s1, s2, s3, head
<1>11. HeadOf(img, i) = head
  <2>1. head \in Seq(Nat) /\ Stands(t, 0, head) /\ t \in Seq(Nat) /\ Stands(img.cells, pos, t)
    BY <1>2, <1>3
  <2>2. Stands(img.cells, pos + 0, head)
    BY <1>9, <2>1, StandsIn
  <2>3. Stands(img.cells, pos, head)
    BY <1>10, <2>2
  <2>4. Cells(img, pos, 6) = head
    BY <1>3, <1>9, <2>1, <2>3, ReadsCells
  <2> QED
    BY <2>4 DEF HeadOf, HeadWords, pos
<1>12. Cells(img, pos + 6, n1) = i1
  BY <1>2, <1>3, <1>5, <1>9, ReadsList DEF n1
<1>13. Cells(img, pos + (6 + n1), n2) = i2
  BY <1>2, <1>3, <1>5, <1>9, ReadsList DEF n2
<1>14. Cells(img, pos + (6 + n1 + n2), n3) = i3
  BY <1>2, <1>3, <1>5, <1>9, ReadsList DEF n3
<1>15. Cells(img, pos + (6 + n1 + n2 + n3), s1) = l1
  BY <1>2, <1>3, <1>5, <1>9, ReadsList DEF s1
<1>16. Cells(img, pos + (6 + n1 + n2 + n3 + s1), s2) = l2
  BY <1>2, <1>3, <1>5, <1>9, ReadsList DEF s2
<1>17. Cells(img, pos + (6 + n1 + n2 + n3 + s1 + s2), s3) = l3
  BY <1>2, <1>3, <1>5, <1>9, ReadsList DEF s3
<1> DEFINE ids == pos + 6
           starts == ids + n1 + n2 + n3
<1>18. /\ Cells(img, ids, n1) = i1 /\ Cells(img, ids + n1, n2) = i2 /\ Cells(img, ids + n1 + n2, n3) = i3
  <2>1. pos + (6 + n1) = ids + n1 /\ pos + (6 + n1 + n2) = ids + n1 + n2
    BY <1>6, <1>10
  <2> QED
    BY <1>12, <1>13, <1>14, <2>1
<1>19. /\ Cells(img, starts, (s1 - 1) + 1) = l1
       /\ Cells(img, starts + (s1 - 1) + 1, (s2 - 1) + 1) = l2
       /\ Cells(img, starts + (s1 - 1) + (s2 - 1) + 2, (s3 - 1) + 1) = l3
  <2>1. /\ pos + (6 + n1 + n2 + n3) = starts
        /\ pos + (6 + n1 + n2 + n3 + s1) = starts + (s1 - 1) + 1
        /\ pos + (6 + n1 + n2 + n3 + s1 + s2) = starts + (s1 - 1) + (s2 - 1) + 2
        /\ (s1 - 1) + 1 = s1 /\ (s2 - 1) + 1 = s2 /\ (s3 - 1) + 1 = s3
    BY <1>3, <1>6, <1>10
  <2> HIDE DEF starts
  <2> QED
    BY <1>15, <1>16, <1>17, <2>1
<1>20. RecordSize(img, i) = Len(t)
  <2>1. RecordSize(img, i) = 6 + n1 + n2 + n3 + ((s1 - 1) + 1) + ((s2 - 1) + 1) + ((s3 - 1) + 1)
    BY <1>7, <1>11 DEF RecordSize, HeadWords
  <2> QED
    BY <1>3, <1>6, <2>1
<1>21. RecordStarts(img, i) /\ RecordEnds(img, i)
  <2>1. pos + Len(t) <= limit /\ pos + 6 <= limit
    BY <1>2, <1>3, <1>6, <1>10
  <2> QED
    BY <2>1, <1>20 DEF RecordStarts, RecordEnds, HeadWords, pos, limit
<1> DEFINE ops == [ins |-> c.ins, outs |-> c.outs, order |-> c.order]
<1>22. OperandsAt(img, i) = ops
  <2>1. ops = [ins   |-> [ids |-> Cells(img, ids, n1), starts |-> Cells(img, starts, (s1 - 1) + 1)],
               outs  |-> [ids |-> Cells(img, ids + n1, n2),
                          starts |-> Cells(img, starts + (s1 - 1) + 1, (s2 - 1) + 1)],
               order |-> [ids |-> Cells(img, ids + n1 + n2, n3),
                          starts |-> Cells(img, starts + (s1 - 1) + (s2 - 1) + 2, (s3 - 1) + 1)]]
    BY <1>8, <1>18, <1>19, Zenon
  <2>2. FromStarts(ops.ins) /\ FromStarts(ops.outs) /\ FromStarts(ops.order)
    BY <1>4
  <2> HIDE DEF ops
  <2> QED
    BY <1>7, <1>11, <1>21, <2>1, <2>2, Zenon DEF OperandsAt, HeadWords, pos
<1>23. ops # NoOperands
  <2>1. DOMAIN ops = {"ins", "outs", "order"} /\ DOMAIN NoOperands = {}
    BY DEF NoOperands
  <2> HIDE DEF ops
  <2> QED
    BY <2>1
<1> QED
  BY <1>22, <1>23

ShownCommand(c) ==
    [dir |-> c.dir, text |-> Display(c.text), display |-> Display(c.display), env |-> c.env,
     flags |-> c.flags, ops |-> [ins |-> c.ins, outs |-> c.outs, order |-> c.order]]

LEMMA Itself ==
    ASSUME NEW S, NEW s \in Seq(S), NEW n, n = Len(s)
    PROVE  s = [i \in 1..n |-> s[i]]
OBVIOUS

LEMMA ReadsCommand ==
    ASSUME NEW ix \in Good, NEW img, ImageOf(img, ix), NEW i \in 1..Len(ix.commands),
           NEW c, c = ix.commands[i]
    PROVE  CommandAt(img, i) = ShownCommand(c) /\ GoodCommand(CommandAt(img, i))
<1> PICK t : t = CommandCells(ix, c)
  OBVIOUS
<1> DEFINE h == Header(img)
           rows == CommandRows(ix)
           text == Display(c.text)
           display == Display(c.display)
           env == c.env
<1>1. i \in DOMAIN ix.commands /\ rows \in Seq(Seq(Nat)) /\ Len(rows) = Len(ix.commands) /\ rows[i] = t
  BY TablesAre
<1>2. /\ c \in SavedCommand
      /\ HasString(ix, text) /\ HasString(ix, display) /\ HasString(ix, env)
      /\ t \in Seq(Nat) /\ Len(t) = 5
      /\ t[1] = c.dir /\ t[2] = Offset(ix, text) /\ t[3] = Offset(ix, display)
      /\ t[4] = Offset(ix, env) /\ t[5] = c.flags
  <2>1. i \in DOMAIN ix.commands
    BY <1>1
  <2> QED
    BY <2>1, CommandRow
<1>3. \A k \in 1..Len(rows) : Len(rows[k]) = 5
  BY <1>1, RowsAreEven
<1>4. Stands(img.cells, h.command_offset, FlattenSeq(rows)) /\ img.cells \in Seq(Nat)
  BY DEF ImageOf, Laid
<1> HIDE DEF rows, h, text, display, env
<1>5. RawCommand(img, i) = t
  <2>1. 5 \in {3, 5} /\ i \in 1..Len(rows)
    BY <1>1
  <2>2. Cells(img, h.command_offset + (i - 1) * 5, 5) = t
    BY <1>1, <1>3, <1>4, <2>1, ReadsRow
  <2> QED
    BY <2>2 DEF RawCommand, CommandSize, h
<1>6. /\ ShownAt(img, t[2]) = text /\ ShownAt(img, t[3]) = display
      /\ StringAt(img, t[4]) = env /\ env # NoString
  BY <1>2, ReadsString
<1>7. OperandsAt(img, i) = [ins |-> c.ins, outs |-> c.outs, order |-> c.order]
  BY ReadsOperands
<1>8. OperandsAt(img, i) # NoOperands
  BY ReadsOperands
<1>9. CommandAt(img, i) =
        [dir |-> t[1], text |-> ShownAt(img, t[2]), display |-> ShownAt(img, t[3]),
         env |-> StringAt(img, t[4]), flags |-> t[5], ops |-> OperandsAt(img, i)]
  BY <1>5, Zenon DEF CommandAt
<1>10. CommandAt(img, i) = ShownCommand(c)
  BY <1>2, <1>6, <1>7, <1>9, Zenon DEF ShownCommand, text, display, env
<1>11. CommandAt(img, i).env = env /\ CommandAt(img, i).flags = c.flags /\ CommandAt(img, i).ops = OperandsAt(img, i)
  <2> DEFINE ops == OperandsAt(img, i)
  <2> HIDE DEF ops
  <2>1. CommandAt(img, i) =
        [dir |-> t[1], text |-> ShownAt(img, t[2]), display |-> ShownAt(img, t[3]),
         env |-> env, flags |-> c.flags, ops |-> ops]
    BY <1>2, <1>6, <1>9 DEF ops
  <2> QED
    BY <2>1 DEF ops
<1>12. c.flags \in CommandFlags
  BY <1>2 DEF SavedCommand
<1> QED
  BY <1>6, <1>8, <1>10, <1>11, <1>12 DEF GoodCommand

\* What was saved is read back: every section lies where the header says, every row of
\* a table behind the rows before it, every string at its offset, and every check of the
\* reader passes (serialize_index, read_index).
THEOREM ImageIsRead ==
    ASSUME NEW ix \in Good
    PROVE  ReadIndex(Image(Version, ix)) = Shown(ix)
<1> PICK d \in Seq(Nat) : /\ Image(Version, ix) = [cells |-> d, footer |-> d]
                          /\ Laid(d, ix, Header([cells |-> d, footer |-> d]))
  BY ImageIsLaid
<1> DEFINE img == [cells |-> d, footer |-> d]
           h == Header(img)
<1>1. img.cells = d /\ img.footer = d
  OBVIOUS
<1>2. ImageOf(img, ix)
  BY <1>1 DEF ImageOf
<1>3. Len(d) >= 12 /\ DeclaredLayoutFits(img)
  BY ImageLayoutFits
<1>4. /\ h.magic = Magic /\ h.version = Version
      /\ h.files = Len(ix.files) /\ h.commands = Len(ix.commands) /\ h.edges = Len(ix.edges)
  BY DEF Laid
<1>5. Opened(img, Version) = "open"
  <2>1. img # NoImage
    <3>1. DOMAIN img = {"cells", "footer"} /\ DOMAIN NoImage = {}
      BY DEF NoImage
    <3> HIDE DEF img
    <3> QED
      BY <3>1
  <2>2. ChecksumHolds(img)
    BY <1>1 DEF ChecksumHolds
  <2>3. Version \in Version..Version
    BY DEF Version
  <2> HIDE DEF img
  <2> QED
    BY <1>1, <1>3, <1>4, <2>1, <2>2, <2>3, OpenMeans DEF HeaderSize
<1> HIDE DEF img, h
<1>6. Files(img) = ix.files /\ \A i \in DOMAIN Files(img) : GoodFile(Files(img)[i])
  <2>1. \A i \in 1..Len(ix.files) : FileAt(img, i) = ix.files[i] /\ GoodFile(ix.files[i])
    BY <1>2, ReadsFile
  <2>2. Files(img) = [i \in 1..Len(ix.files) |-> FileAt(img, i)]
    BY <1>4 DEF Files, h
  <2>3. ix.files = [i \in 1..Len(ix.files) |-> ix.files[i]]
    BY GoodTypes, Itself
  <2>4. Files(img) = ix.files
    BY <2>1, <2>2, <2>3
  <2>5. DOMAIN Files(img) = 1..Len(ix.files)
    BY <2>2
  <2> QED
    BY <2>1, <2>4, <2>5
<1>7. /\ Commands(img) = [i \in DOMAIN ix.commands |-> ShownCommand(ix.commands[i])]
      /\ \A i \in DOMAIN Commands(img) : GoodCommand(Commands(img)[i])
  <2>1. \A i \in 1..Len(ix.commands) :
            CommandAt(img, i) = ShownCommand(ix.commands[i]) /\ GoodCommand(CommandAt(img, i))
    BY <1>2, ReadsCommand
  <2>2. Commands(img) = [i \in 1..Len(ix.commands) |-> CommandAt(img, i)]
    BY <1>4 DEF Commands, h
  <2>3. DOMAIN ix.commands = 1..Len(ix.commands)
    BY TablesAre
  <2> QED
    BY <2>1, <2>2, <2>3
<1>8. Edges(img) = Sorted(ix.edges) /\ \A i \in DOMAIN Edges(img) : Edges(img)[i].type \in Links
  <2>1. \A i \in 1..Len(ix.edges) :
            EdgeAt(img, i) = Sorted(ix.edges)[i] /\ EdgeAt(img, i).type \in Links
    BY <1>2, ReadsEdge
  <2>2. Edges(img) = [i \in 1..Len(ix.edges) |-> EdgeAt(img, i)]
    BY <1>4 DEF Edges, h
  <2>3. Sorted(ix.edges) = [i \in 1..Len(ix.edges) |-> Sorted(ix.edges)[i]]
    BY GoodTypes, SortedEdges, Itself
  <2>4. Edges(img) = Sorted(ix.edges)
    BY <2>1, <2>2, <2>3
  <2> QED
    BY <2>1, <2>2, <2>4
<1>9. ReadIndex(img) = [kind |-> "ok", files |-> Files(img), commands |-> Commands(img), edges |-> Edges(img)]
  BY <1>5, <1>6, <1>7, <1>8 DEF ReadIndex
<1>10. Shown(ix) = [kind |-> "ok", files |-> ix.files, edges |-> Sorted(ix.edges),
                    commands |-> [i \in DOMAIN ix.commands |-> ShownCommand(ix.commands[i])]]
  BY DEF Shown, ShownCommand
<1> QED
  BY <1>6, <1>7, <1>8, <1>9, <1>10 DEF img

(***************************************************************************)
(* What damage costs.                                                      *)
(***************************************************************************)
\* An image is its cells, under a footer that agrees.
LEMMA ImageShape ==
    ASSUME NEW ix \in Good
    PROVE  \E c \in Seq(Nat) : Image(Version, ix) = [cells |-> c, footer |-> c]
BY ImageIsLaid

LEMMA RecordIsNoEmpty ==
    ASSUME NEW c, NEW f
    PROVE  [cells |-> c, footer |-> f] # <<>>
<1>1. "cells" \in DOMAIN [cells |-> c, footer |-> f]
  OBVIOUS
<1>2. DOMAIN <<>> = {}
  OBVIOUS
<1> QED
  BY <1>1, <1>2

\* An image that does not open is not read.
LEMMA UnopenedIsUnread ==
    ASSUME NEW img, img # NoImage, img.cells \in Seq(Nat), Opened(img, Version) # "open"
    PROVE  ReadIndex(img).kind # "ok"
<1>1. Opened(img, Version) \in {"damaged", "version"}
  BY OpenMeans
<1> PICK why : why = Opened(img, Version)
  OBVIOUS
<1>2. ReadIndex(img) = Failed(why)
  BY DEF ReadIndex
<1> QED
  BY <1>1, <1>2 DEF Failed

\* A record that was hit does not open: its footer is another's, or it is cut.
LEMMA HitIsUnread ==
    ASSUME NEW ix \in Good, NEW img \in Corrupt(Image(Version, ix)), img # Image(Version, ix)
    PROVE  img # NoImage /\ img.cells \in Seq(Nat) /\ ReadIndex(img).kind # "ok"
<1> PICK c \in Seq(Nat) : Image(Version, ix) = [cells |-> c, footer |-> c]
  BY ImageShape
<1> DEFINE old == [cells |-> c, footer |-> c]
<1>1. \/ \E i \in DOMAIN c, v \in Values : img = [old EXCEPT !.cells[i] = v]
      \/ \E n \in 0..(Len(c) - 1) : img = [cells |-> SubSeq(c, 1, n), footer |-> <<>>]
  BY DEF Corrupt
<1>2. ASSUME NEW i \in DOMAIN c, NEW v \in Values, img = [old EXCEPT !.cells[i] = v]
      PROVE  img # NoImage /\ img.cells \in Seq(Nat) /\ ReadIndex(img).kind # "ok"
  <2> PICK d : d = [c EXCEPT ![i] = v]
    OBVIOUS
  <2>1. d \in Seq(Nat)
    BY RecordsAssumption, ExceptSeq
  <2>2. img = [cells |-> d, footer |-> c]
    BY <1>2
  <2>3. d # c
    BY <2>2
  <2>4. img # NoImage
    BY <2>2, RecordIsNoEmpty DEF NoImage
  <2>5. ~ChecksumHolds(img)
    BY <2>2, <2>3 DEF ChecksumHolds
  <2>6. img.cells \in Seq(Nat)
    BY <2>1, <2>2
  <2>7. Opened(img, Version) # "open"
    BY <2>4, <2>5, <2>6, OpenMeans
  <2> QED
    BY <2>4, <2>6, <2>7, UnopenedIsUnread
<1>3. ASSUME NEW n \in 0..(Len(c) - 1), img = [cells |-> SubSeq(c, 1, n), footer |-> <<>>]
      PROVE  img # NoImage /\ img.cells \in Seq(Nat) /\ ReadIndex(img).kind # "ok"
  <2> PICK d : d = SubSeq(c, 1, n)
    OBVIOUS
  <2>1. d \in Seq(Nat) /\ Len(d) = n
    BY SubSeqProperties
  <2>2. img = [cells |-> d, footer |-> <<>>]
    BY <1>3
  <2>3. img # NoImage
    BY <2>2, RecordIsNoEmpty DEF NoImage
  <2>4. ~(Len(img.cells) >= HeaderSize /\ ChecksumHolds(img))
    <3>1. img.cells = d /\ img.footer = <<>>
      BY <2>2
    <3>2. d = <<>> => n = 0
      BY <2>1
    <3>3. n = 0 => ~(Len(img.cells) >= HeaderSize)
      BY <2>1, <3>1 DEF HeaderSize
    <3> QED
      BY <3>1, <3>2, <3>3 DEF ChecksumHolds
  <2>5. img.cells \in Seq(Nat)
    BY <2>1, <2>2
  <2>6. Opened(img, Version) # "open"
    BY <2>3, <2>4, <2>5, OpenMeans
  <2> QED
    BY <2>3, <2>5, <2>6, UnopenedIsUnread
<1> QED
  BY <1>1, <1>2, <1>3

\* The same cells at the same place are the same cells.
SameAt(img, t, off, n) == \A a \in off..(off + n - 1) : Cell(t, a) = Cell(img, a)
LEMMA SameCells ==
    ASSUME NEW img, NEW t, NEW off \in Nat, NEW n \in Nat, SameAt(img, t, off, n)
    PROVE  Cells(t, off, n) = Cells(img, off, n)
<1>1. \A k \in 1..n : off + k - 1 \in off..(off + n - 1)
  OBVIOUS
<1>2. \A k \in 1..n : Cell(t, off + k - 1) = Cell(img, off + k - 1)
  BY <1>1 DEF SameAt
<1> QED
  BY <1>2 DEF Cells

\* A string is where it was, and what it was.
LEMMA SameString ==
    ASSUME NEW img, NEW t, Sound(img), Header(t) = Header(img),
           \A a \in Span(Header(img).string_offset, Header(img).string_size) : Cell(t, a) = Cell(img, a),
           NEW offset \in Nat
    PROVE  StringAt(t, offset) = StringAt(img, offset)
<1> PICK end \in Nat : end = Len(img.cells)
  BY SoundWords
<1> PICK h : h = Header(img)
  OBVIOUS
<1> PICK so \in Nat : so = h.string_offset
  BY SoundWords
<1> PICK ss \in Nat : ss = h.string_size
  BY SoundWords
<1>1. so + ss <= end
  BY SectionsInside
<1> PICK pos \in Nat : pos = so + offset
  OBVIOUS
<1>2. /\ pos = StringPos(img, offset) /\ TableEnd(img) = so + ss
      /\ pos = StringPos(t, offset) /\ TableEnd(t) = so + ss
  BY DEF StringPos, TableEnd
<1>3. StringStarts(t, offset) <=> StringStarts(img, offset)
  BY <1>2 DEF StringStarts
<1>4. CASE ~StringStarts(img, offset)
  BY <1>3, <1>4 DEF StringAt
<1>5. CASE StringStarts(img, offset)
  <2>1. pos + 1 <= so + ss
    BY <1>2, <1>5 DEF StringStarts
  <2>2. pos \in Span(so, ss) /\ pos \in 0..(end - 1)
    BY <1>1, <2>1, TablePosition
  <2> PICK len \in Nat : len = Cell(img, pos)
    BY <2>2, SoundWords
  <2>3. Cell(t, pos) = len
    BY <2>2
  <2>4. /\ StringEnds(t, offset) <=> pos + 1 + len <= so + ss
        /\ StringEnds(img, offset) <=> pos + 1 + len <= so + ss
    BY <1>2, <2>3 DEF StringEnds
  <2>5. CASE pos + 1 + len <= so + ss
    <3> PICK first \in Nat : first = pos + 1
      OBVIOUS
    <3>1. first..(first + len - 1) \subseteq Span(so, ss)
      BY <2>5, TableString
    <3>2. SameAt(img, t, first, len)
      BY <3>1 DEF SameAt
    <3>3. Cells(t, first, len) = Cells(img, first, len)
      BY <3>2, SameCells
    <3> QED
      BY <1>2, <1>3, <1>5, <2>3, <2>4, <2>5, <3>3 DEF StringAt
  <2>6. CASE ~(pos + 1 + len <= so + ss)
    BY <2>4, <2>6 DEF StringAt
  <2> QED
    BY <2>5, <2>6
<1> QED
  BY <1>4, <1>5

\* So is a file of the table.
LEMMA SameFiles ==
    ASSUME NEW img, NEW t, Sound(img), Header(t) = Header(img),
           \A a \in Span(Header(img).string_offset, Header(img).string_size) : Cell(t, a) = Cell(img, a),
           \A a \in Span(Header(img).file_offset, Header(img).files * FileSize) : Cell(t, a) = Cell(img, a)
    PROVE  Files(t) = Files(img)
<1> PICK end \in Nat : end = Len(img.cells)
  BY SoundWords
<1> PICK h : h = Header(img)
  OBVIOUS
<1> PICK fo \in Nat : fo = h.file_offset
  BY SoundWords
<1> PICK nf \in Nat : nf = h.files
  BY SoundWords
<1>1. fo + nf * 5 <= end
  BY SectionsInside
<1>2. ASSUME NEW i \in 1..nf
      PROVE  FileAt(t, i) = FileAt(img, i)
  <2> PICK at \in Nat : at = fo + (i - 1) * 5
    BY RowStarts
  <2>1. at..(at + 5 - 1) \subseteq Span(fo, nf * 5)
    BY RowCells
  <2>2. SameAt(img, t, at, 5)
    BY <2>1 DEF FileSize, SameAt
  <2>3. Cells(t, at, 5) = Cells(img, at, 5)
    BY <2>2, SameCells
  <2> PICK raw : raw = RawFile(img, i)
    OBVIOUS
  <2>4. RawFile(t, i) = raw /\ raw = Cells(img, at, 5)
    BY <2>3 DEF RawFile, FileSize
  <2>5. raw[2] \in Nat
    <3>1. \A j \in 1..5 : Cells(img, fo + (i - 1) * 5, 5)[j] \in Nat
      BY <1>1, RowWords
    <3> QED
      BY <2>4, <3>1
  <2>6. StringAt(t, raw[2]) = StringAt(img, raw[2])
    BY <2>5, SameString
  <2> QED
    BY <2>4, <2>6 DEF FileAt
<1> QED
  BY <1>2 DEF Files

\* The paths of a record are those of its files and strings, whatever the rest of a
\* record whose checksum holds says.
Agrees(img) == \E c \in Seq(Nat) : img = [cells |-> c, footer |-> c]
Forged(img, i, v) ==
    [cells |-> [img.cells EXCEPT ![i] = v], footer |-> [img.cells EXCEPT ![i] = v]]
LEMMA PathsOutlast ==
    ASSUME NEW img, Agrees(img), NEW i \in DOMAIN img.cells, NEW v \in Nat, i - 1 \notin PathCells(img)
    PROVE  ReadPriorPaths(Forged(img, i, v)) = ReadPriorPaths(img)
<1> PICK c \in Seq(Nat) : img = [cells |-> c, footer |-> c]
  BY DEF Agrees
<1> PICK d : d = [c EXCEPT ![i] = v]
  OBVIOUS
<1> PICK t : t = [cells |-> d, footer |-> d]
  OBVIOUS
<1>t. t = Forged(img, i, v) /\ i \in 1..Len(c)
  BY DEF Forged
<1> SUFFICES ReadPriorPaths(t) = ReadPriorPaths(img)
  BY <1>t
<1>1. img # NoImage /\ t # NoImage
  BY RecordIsNoEmpty DEF NoImage
<1>2. /\ d \in Seq(Nat) /\ Len(d) = Len(c)
      /\ \A j \in 1..Len(c) : j # i => d[j] = c[j]
  BY <1>t, ExceptSeq
<1>3. img.cells = c /\ t.cells = d /\ ChecksumHolds(img) /\ ChecksumHolds(t)
  BY DEF ChecksumHolds
<1>4. CASE ~(Len(c) >= HeaderSize)
  <2>1. Opened(img, LayoutFloor) # "open" /\ Opened(t, LayoutFloor) # "open"
    BY <1>1, <1>2, <1>3, <1>4, OpenMeans
  <2> QED
    BY <1>1, <2>1 DEF ReadPriorPaths
<1>5. CASE Len(c) >= HeaderSize
  <2>1. \A a \in Int : a # i - 1 => Cell(t, a) = Cell(img, a)
    BY <1>2, <1>3 DEF Cell
  <2>2. i \notin 1..12
    BY DEF PathCells, Span, HeaderSize
  <2>3. /\ d[1] = c[1] /\ d[2] = c[2] /\ d[3] = c[3] /\ d[4] = c[4] /\ d[5] = c[5] /\ d[6] = c[6]
        /\ d[7] = c[7] /\ d[8] = c[8] /\ d[9] = c[9] /\ d[10] = c[10] /\ d[11] = c[11] /\ d[12] = c[12]
    <3>1. \A k \in 1..12 : d[k] = c[k]
      BY <1>2, <1>5, <2>2 DEF HeaderSize
    <3> QED
      BY <3>1
  <2>4. Header(t) = Header(img)
    BY <1>3, <2>3 DEF Header
  <2>5. DeclaredLayoutFits(t) <=> DeclaredLayoutFits(img)
    BY <1>2, <1>3, <2>4 DEF DeclaredLayoutFits
  <2>6. Opened(t, LayoutFloor) = "open" <=> Opened(img, LayoutFloor) = "open"
    <3>1. Opened(img, LayoutFloor) = "open" <=>
            /\ Len(img.cells) >= HeaderSize
            /\ Header(img).magic = Magic /\ Header(img).version \in LayoutFloor..Version
            /\ DeclaredLayoutFits(img) /\ ChecksumHolds(img)
      BY <1>1, <1>3, OpenMeans
    <3>2. Opened(t, LayoutFloor) = "open" <=>
            /\ Len(t.cells) >= HeaderSize
            /\ Header(t).magic = Magic /\ Header(t).version \in LayoutFloor..Version
            /\ DeclaredLayoutFits(t) /\ ChecksumHolds(t)
      BY <1>1, <1>2, <1>3, OpenMeans
    <3> QED
      BY <1>2, <1>3, <2>4, <2>5, <3>1, <3>2
  <2>7. CASE Opened(img, LayoutFloor) # "open"
    BY <1>1, <2>6, <2>7 DEF ReadPriorPaths
  <2>8. CASE Opened(img, LayoutFloor) = "open"
    <3> PICK h : h = Header(img)
      OBVIOUS
    <3>1. Sound(img)
      BY <1>1, <1>3, <2>8, OpenMeans DEF Sound, HeaderSize
    <3>2. h.file_offset \in Nat /\ h.files * FileSize \in Nat /\ h.string_offset \in Nat /\ h.string_size \in Nat
      BY <3>1, SoundWords, Multiples DEF FileSize
    <3>3. i - 1 \notin Span(h.file_offset, h.files * FileSize) /\ i - 1 \notin Span(h.string_offset, h.string_size)
      BY DEF PathCells
    <3>4. \A a \in Span(h.string_offset, h.string_size) : Cell(t, a) = Cell(img, a)
      BY <2>1, <3>2, <3>3, SpanOfWords
    <3>5. \A a \in Span(h.file_offset, h.files * FileSize) : Cell(t, a) = Cell(img, a)
      BY <2>1, <3>2, <3>3, SpanOfWords
    <3>6. Files(t) = Files(img)
      BY <2>4, <3>1, <3>4, <3>5, SameFiles
    <3> QED
      BY <1>1, <2>6, <2>8, <3>6 DEF ReadPriorPaths
  <2> QED
    BY <2>7, <2>8
<1> QED
  BY <1>4, <1>5

(***************************************************************************)
(* Saving.  What is under the record's name, or may be again after a       *)
(* crash, is a whole image or none; the temporary file may be anything     *)
(* until it is renamed, and by then it is whole and on the platter.        *)
(***************************************************************************)
Whole == {NoImage} \cup {Image(Version, ix) : ix \in Good}

\* What a save has reached.
SaveInv ==
    /\ stage \in {"idle", "write", "fsync", "rename", "unlink"}
    /\ stage \in {"write", "fsync", "rename"} => pending \in Good
    /\ stage \in {"fsync", "rename"} => temp = Image(Version, pending)
    /\ stage = "rename" => synced.temp
    /\ synced \in [target : {TRUE}, temp : BOOLEAN]
    /\ undone \subseteq Whole

\* What stands under the record's name.
TargetInv ==
    /\ damage = Unhurt => target \in Whole
    /\ damage # Unhurt => stage = "idle" /\ damage.kind \in {"hit", "foreign"}
    /\ target # NoImage => target.cells \in Seq(Nat)

\* What was read of it.
HitInv == damage.kind = "hit" => ReadIndex(target).kind # "ok" /\ loaded.kind # "ok"
ReadInv == HitInv /\ ReadsWhatWasSaved

IInv == SaveInv /\ TargetInv /\ ReadInv /\ PathsOutlastDamage

LEMMA WholeIsWords ==
    ASSUME NEW img \in Whole, img # NoImage
    PROVE  img.cells \in Seq(Nat)
<1> PICK ix \in Good : img = Image(Version, ix)
  BY DEF Whole
<1> PICK c \in Seq(Nat) : img = [cells |-> c, footer |-> c]
  BY ImageShape
<1> QED
  OBVIOUS

LEMMA Initially ==
    Init => IInv
<1> SUFFICES ASSUME Init
             PROVE  IInv
  OBVIOUS
<1>1. SaveInv
  BY DEF Init, SaveInv
<1>2. TargetInv
  BY DEF Init, TargetInv, Whole
<1>3. damage.kind = "none" /\ loaded.kind = "not_read"
  BY DEF Init, Unhurt, NotRead, Failed
<1> QED
  BY <1>1, <1>2, <1>3 DEF IInv, ReadInv, HitInv, ReadsWhatWasSaved, PathsOutlastDamage

\* Until the record itself is touched, what is known of it and of a read stays.
LEMMA Untouched ==
    ASSUME IInv, UNCHANGED <<target, damage, loaded>>, damage = Unhurt \/ UNCHANGED stage
    PROVE  TargetInv' /\ ReadInv' /\ PathsOutlastDamage'
<1>1. TargetInv'
  BY DEF IInv, TargetInv
<1>2. ReadInv'
  BY DEF IInv, ReadInv, HitInv, ReadsWhatWasSaved
<1>3. PathsOutlastDamage'
  BY DEF IInv, PathsOutlastDamage
<1> QED
  BY <1>1, <1>2, <1>3

\* Every step keeps the invariant.
LEMMA Step ==
    IInv /\ [Next]_vars => IInv'
<1> SUFFICES ASSUME IInv, [Next]_vars
             PROVE  IInv'
  OBVIOUS
<1> USE DEF disk
<1>u. stage # "idle" => damage = Unhurt
  BY DEF IInv, TargetInv
<1>1. CASE SaveRefused
  <2>1. SaveInv'
    BY <1>1 DEF SaveRefused, IInv, SaveInv
  <2>2. TargetInv' /\ ReadInv' /\ PathsOutlastDamage'
    BY <1>1, Untouched DEF SaveRefused
  <2> QED
    BY <2>1, <2>2 DEF IInv
<1>2. CASE CreateTemp
  <2>1. SaveInv'
    BY <1>2 DEF CreateTemp, IInv, SaveInv, Good
  <2>2. TargetInv' /\ ReadInv' /\ PathsOutlastDamage'
    BY <1>2, Untouched DEF CreateTemp
  <2> QED
    BY <2>1, <2>2 DEF IInv
<1>3. CASE Write
  <2>1. SaveInv'
    BY <1>3 DEF Write, IInv, SaveInv
  <2>2. TargetInv' /\ ReadInv' /\ PathsOutlastDamage'
    BY <1>3, <1>u, Untouched DEF Write
  <2> QED
    BY <2>1, <2>2 DEF IInv
<1>4. CASE Fsync
  <2>1. SaveInv'
    BY <1>4 DEF Fsync, IInv, SaveInv
  <2>2. TargetInv' /\ ReadInv' /\ PathsOutlastDamage'
    BY <1>4, <1>u, Untouched DEF Fsync
  <2> QED
    BY <2>1, <2>2 DEF IInv
<1>5. CASE Unlink
  <2>1. SaveInv'
    BY <1>5 DEF Unlink, IInv, SaveInv
  <2>2. TargetInv' /\ ReadInv' /\ PathsOutlastDamage'
    BY <1>5, <1>u, Untouched DEF Unlink
  <2> QED
    BY <2>1, <2>2 DEF IInv
<1>6. CASE Rename
  <2>1. stage = "rename" /\ damage = Unhurt /\ temp = Image(Version, pending) /\ pending \in Good
    BY <1>6, <1>u DEF Rename, IInv, SaveInv
  <2>2. target \in Whole /\ temp \in Whole
    BY <2>1 DEF IInv, TargetInv, Whole
  <2>3. CASE target' = temp /\ synced' = [target |-> synced.temp, temp |-> TRUE] /\ undone' = {target} /\ stage' = "idle"
    <3>1. SaveInv'
      BY <1>6, <2>1, <2>2, <2>3 DEF IInv, SaveInv
    <3>2. damage' = Unhurt
      BY <1>6, <2>1 DEF Rename
    <3>3. target' # NoImage => target'.cells \in Seq(Nat)
      BY <2>2, <2>3, WholeIsWords
    <3>4. TargetInv'
      BY <2>2, <2>3, <3>2, <3>3 DEF TargetInv
    <3>5. damage'.kind = "none" /\ loaded' = loaded
      BY <1>6, <3>2 DEF Rename, Unhurt
    <3>6. ReadsWhatWasSaved'
      BY <2>1, <3>5 DEF IInv, ReadInv, ReadsWhatWasSaved
    <3> QED
      BY <3>1, <3>4, <3>5, <3>6 DEF IInv, ReadInv, HitInv, PathsOutlastDamage
  <2>4. CASE stage' = "unlink" /\ UNCHANGED disk
    <3>1. SaveInv'
      BY <1>6, <2>4 DEF Rename, IInv, SaveInv
    <3>2. TargetInv' /\ ReadInv' /\ PathsOutlastDamage'
      BY <1>6, <2>1, <2>4, Untouched DEF Rename
    <3> QED
      BY <3>1, <3>2 DEF IInv
  <2> QED
    BY <1>6, <2>3, <2>4 DEF Rename
<1>7. CASE Settle
  <2>1. SaveInv'
    BY <1>7 DEF Settle, IInv, SaveInv
  <2>2. TargetInv' /\ ReadInv' /\ PathsOutlastDamage'
    BY <1>7, Untouched DEF Settle
  <2> QED
    BY <2>1, <2>2 DEF IInv
<1>8. CASE Crash
  <2>1. damage = Unhurt /\ damage' = Unhurt
    BY <1>8 DEF Crash
  <2>2. SaveInv'
    BY <1>8 DEF Crash, SaveInv
  <2>3. synced.target
    BY DEF IInv, SaveInv
  <2>4. target' \in {target} \cup undone
    BY <1>8, <2>3 DEF Crash, Survivors
  <2>5. target' \in Whole
    BY <2>1, <2>4 DEF IInv, SaveInv, TargetInv
  <2>6. target' # NoImage => target'.cells \in Seq(Nat)
    BY <2>5, WholeIsWords
  <2>7. TargetInv'
    BY <2>1, <2>5, <2>6 DEF TargetInv
  <2>8. damage'.kind = "none" /\ loaded' = loaded
    BY <1>8, <2>1 DEF Crash, Unhurt
  <2>9. ReadsWhatWasSaved'
    BY <2>1, <2>8 DEF IInv, ReadInv, ReadsWhatWasSaved
  <2> QED
    BY <2>2, <2>7, <2>8, <2>9 DEF IInv, ReadInv, HitInv, PathsOutlastDamage
<1>9. CASE Hit
  <2> PICK ix \in Good : target = Image(Version, ix)
    BY <1>9 DEF Hit, IInv, TargetInv, Whole
  <2>1. PICK img \in Corrupt(target) : img # target /\ target' = img
    BY <1>9 DEF Hit
  <2>2. img # NoImage /\ img.cells \in Seq(Nat) /\ ReadIndex(img).kind # "ok"
    BY <2>1, HitIsUnread
  <2>3. damage'.kind = "hit" /\ stage = "idle" /\ loaded = NotRead
    BY <1>9 DEF Hit, AtRest
  <2>4. SaveInv'
    BY <1>9 DEF Hit, IInv, SaveInv
  <2>5. damage' # Unhurt
    BY <2>3 DEF Unhurt
  <2>6. TargetInv'
    BY <1>9, <2>1, <2>2, <2>3, <2>5 DEF Hit, TargetInv
  <2>7. ReadInv'
    BY <1>9, <2>1, <2>2, <2>3, <2>5 DEF Hit, ReadInv, HitInv, ReadsWhatWasSaved, NotRead, Failed
  <2> QED
    BY <2>3, <2>4, <2>6, <2>7 DEF IInv, PathsOutlastDamage
<1>10. CASE Foreign
  <2> PICK ix \in Good : target = Image(Version, ix)
    BY <1>10 DEF Foreign, IInv, TargetInv, Whole
  <2> PICK c \in Seq(Nat) : target = [cells |-> c, footer |-> c]
    BY ImageShape
  <2>1. PICK i \in DOMAIN target.cells, v \in Values :
          /\ target' = [cells |-> [target.cells EXCEPT ![i] = v], footer |-> [target.cells EXCEPT ![i] = v]]
          /\ damage' = [kind |-> "foreign", at |-> i - 1, of |-> target]
    BY <1>10 DEF Foreign
  <2> PICK d : d = [c EXCEPT ![i] = v]
    OBVIOUS
  <2>2. i \in 1..Len(c) /\ v \in Nat /\ target' = [cells |-> d, footer |-> d]
    BY <2>1, RecordsAssumption
  <2>3. d \in Seq(Nat)
    BY <2>2, ExceptSeq
  <2>4. SaveInv'
    BY <1>10 DEF Foreign, IInv, SaveInv
  <2>5. damage'.kind = "foreign" /\ damage'.at = i - 1 /\ damage'.of = target /\ stage' = "idle"
    BY <1>10, <2>1 DEF Foreign, AtRest
  <2>6. damage' # Unhurt
    BY <2>5 DEF Unhurt
  <2>7. TargetInv'
    BY <2>2, <2>3, <2>5, <2>6 DEF TargetInv
  <2>8. i - 1 \notin PathCells(target) => ReadPriorPaths(Forged(target, i, v)) = ReadPriorPaths(target)
    <3>1. Agrees(target)
      BY DEF Agrees
    <3> PICK img : img = target
      OBVIOUS
    <3>2. Agrees(img) /\ i \in DOMAIN img.cells /\ v \in Nat
      BY <2>2, <3>1
    <3>3. i - 1 \notin PathCells(img) => ReadPriorPaths(Forged(img, i, v)) = ReadPriorPaths(img)
      BY <3>2, PathsOutlast
    <3> QED
      BY <3>3
  <2>9. PathsOutlastDamage'
    BY <2>1, <2>5, <2>8 DEF PathsOutlastDamage, Forged
  <2> QED
    BY <2>4, <2>5, <2>6, <2>7, <2>9 DEF IInv, ReadInv, HitInv, ReadsWhatWasSaved
<1>11. CASE Load
  <2>1. SaveInv'
    BY <1>11 DEF Load, IInv, SaveInv
  <2>2. TargetInv'
    BY <1>11 DEF Load, IInv, TargetInv
  <2>3. HitInv'
    BY <1>11 DEF Load, IInv, ReadInv, HitInv
  <2>4. PathsOutlastDamage'
    BY <1>11 DEF Load, IInv, PathsOutlastDamage
  <2>5. CASE damage # Unhurt
    <3>1. ReadsWhatWasSaved'
      BY <1>11, <2>5 DEF Load, ReadsWhatWasSaved
    <3> QED
      BY <2>1, <2>2, <2>3, <2>4, <3>1 DEF IInv, ReadInv
  <2>6. CASE damage = Unhurt /\ target = NoImage
    <3>1. Opened(target, Version) = "absent"
      BY <2>6 DEF Opened
    <3>2. ReadIndex(target) = Failed("absent")
      BY <3>1 DEF ReadIndex
    <3>3. loaded'.kind = "absent"
      BY <1>11, <3>2 DEF Load, Failed
    <3>4. ReadsWhatWasSaved'
      BY <3>3 DEF ReadsWhatWasSaved
    <3> QED
      BY <2>1, <2>2, <2>3, <2>4, <3>4 DEF IInv, ReadInv
  <2>7. CASE damage = Unhurt /\ target # NoImage
    <3> PICK ix \in Good : target = Image(Version, ix)
      BY <2>7 DEF IInv, TargetInv, Whole
    <3>1. loaded' = Shown(ix)
      BY <1>11, ImageIsRead DEF Load
    <3>2. ReadsWhatWasSaved'
      BY <3>1 DEF ReadsWhatWasSaved
    <3> QED
      BY <2>1, <2>2, <2>3, <2>4, <3>2 DEF IInv, ReadInv
  <2> QED
    BY <2>5, <2>6, <2>7
<1>12. CASE UNCHANGED vars
  <2>1. SaveInv'
    BY <1>12 DEF vars, IInv, SaveInv
  <2>2. TargetInv' /\ ReadInv' /\ PathsOutlastDamage'
    BY <1>12, Untouched DEF vars
  <2> QED
    BY <2>1, <2>2 DEF IInv
<1> QED
  BY <1>1, <1>2, <1>3, <1>4, <1>5, <1>6, <1>7, <1>8, <1>9, <1>10, <1>11, <1>12 DEF Next

THEOREM Kept ==
    Spec => []IInv
BY Initially, Step, PTL DEF Spec

\* Whatever fails, goes down or is damaged, a build finds a whole record or none under
\* its name, never reads one that was hit, is led out of the file by none, and loses the
\* recorded paths only to damage of the files and names themselves.
THEOREM TheRecordIsSafe ==
    Spec => []RecordIsSafe
<1>1. IInv => RecordIsSafe
  <2> SUFFICES ASSUME IInv
               PROVE  RecordIsSafe
    OBVIOUS
  <2>1. WholeRecord
    BY DEF IInv, TargetInv, Whole, WholeRecord
  <2>2. HitIsNoticed
    BY DEF IInv, ReadInv, HitInv, HitIsNoticed
  <2>3. StaysInside
    BY ReaderStaysInside DEF IInv, TargetInv, StaysInside
  <2>4. PathsOutlastDamage
    BY DEF IInv
  <2> QED
    BY <2>1, <2>2, <2>3, <2>4 DEF RecordIsSafe
<1> QED
  BY <1>1, Kept, PTL

\* What a read returns is what a save was given, for every record a build may save:
\* every file under its own name, the operands of every command by token, the edges in
\* one order and a long text cut (serialize_index, read_index); and nothing else, however
\* the save before it ended.
THEOREM WhatWasSavedIsRead ==
    Spec => []ReadsWhatWasSaved
<1>1. IInv => ReadsWhatWasSaved
  BY DEF IInv, ReadInv
<1> QED
  BY <1>1, Kept, PTL
=============================================================================
