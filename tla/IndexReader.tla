---------------------------- MODULE IndexReader ----------------------------
(***************************************************************************)
(* How a reader that trusts none of its offsets takes an image back        *)
(* (src/src/index/reader.cpp), and what it may rely on.                    *)
(*                                                                         *)
(* A footer a cut file ends in is <<>>, the checksum of nothing.           *)
(***************************************************************************)
EXTENDS IndexImage

VARIABLES
    target,    \* the image under the record's name
    damage,    \* what became of the target: its kind, the cell, the image before
    loaded     \* the outcome of the last read

NoImage == <<>>
Unhurt == [kind |-> "none", at |-> 0, of |-> NoImage]
-----------------------------------------------------------------------------
\* The cell at offset a.  Outside the file there is none (see Touched).
Outside == -1
Cell(img, a) == IF a \in 0..(Len(img.cells) - 1) THEN img.cells[a + 1] ELSE Outside
Cells(img, a, n) == [i \in 1..n |-> Cell(img, a + i - 1)]

Header(img) ==
    LET c == img.cells IN
    [magic |-> c[1], version |-> c[2], files |-> c[3], commands |-> c[4], edges |-> c[5],
     string_size |-> c[6], file_offset |-> c[7], command_offset |-> c[8], edge_offset |-> c[9],
     table_offset |-> c[10], data_offset |-> c[11], string_offset |-> c[12]]

\* Every section the header declares lies inside the file, ahead of the footer.
Fits(end, offset, size) == offset <= end /\ size <= end - offset
DeclaredLayoutFits(img) ==
    LET h == Header(img)
        end == Len(img.cells)
    IN  /\ Fits(end, h.file_offset, h.files * FileSize)
        /\ Fits(end, h.command_offset, h.commands * CommandSize)
        /\ Fits(end, h.edge_offset, h.edges * EdgeSize)
        /\ Fits(end, h.table_offset, h.commands)
        /\ Fits(end, h.string_offset, h.string_size)
        /\ h.data_offset <= h.string_offset

\* Mutant: the footer is not looked at.
ChecksumIgnored(img) == img.footer \in {img.cells, img.footer}
ChecksumHolds(img) == img.footer = img.cells

\* Why open_index_in_window refuses, or "open".
Opened(img, floor) ==
    CASE img = NoImage -> "absent"
      [] img # NoImage /\ Len(img.cells) < HeaderSize -> "damaged"
      [] img # NoImage /\ Len(img.cells) >= HeaderSize ->
            LET h == Header(img) IN
            CASE h.magic # Magic -> "damaged"
              [] h.magic = Magic /\ h.version \notin floor..Version -> "version"
              [] h.magic = Magic /\ h.version \in floor..Version ->
                    IF DeclaredLayoutFits(img) /\ ChecksumHolds(img) THEN "open" ELSE "damaged"

\* A string, or NoString where its position does not hold up.
NoString == <<-2>>
StringPos(img, offset) == Header(img).string_offset + offset
TableEnd(img) == Header(img).string_offset + Header(img).string_size
StringStarts(img, offset) == StringPos(img, offset) + 1 <= TableEnd(img)
\* Mutant: the length is believed.
StringBelieved(img, offset) == Cell(img, StringPos(img, offset)) >= 0
\* Mutant: the last string of the table is one too far.
StringEndsBefore(img, offset) ==
    StringPos(img, offset) + 1 + Cell(img, StringPos(img, offset)) < TableEnd(img)
StringEnds(img, offset) ==
    StringPos(img, offset) + 1 + Cell(img, StringPos(img, offset)) <= TableEnd(img)
StringAt(img, offset) ==
    IF StringStarts(img, offset) /\ StringEnds(img, offset)
    THEN Cells(img, StringPos(img, offset) + 1, Cell(img, StringPos(img, offset)))
    ELSE NoString

Unreadable == <<-3>>
ShownAt(img, offset) == IF StringAt(img, offset) = NoString THEN Unreadable ELSE StringAt(img, offset)

RawFile(img, i) == Cells(img, Header(img).file_offset + (i - 1) * FileSize, FileSize)
FileAt(img, i) ==
    LET raw == RawFile(img, i) IN
    [parent |-> raw[1], name |-> StringAt(img, raw[2]), type |-> raw[3], flags |-> raw[4],
     hash |-> raw[5]]
GoodFile(f) == f.name # NoString /\ f.type \in NodeTypes /\ f.flags \in FileFlags
Files(img) == [i \in 1..Header(img).files |-> FileAt(img, i)]

NoOperands == <<>>
RecordPos(img, i) ==
    Header(img).data_offset + Cell(img, Header(img).table_offset + i - 1)
HeadOf(img, i) == Cells(img, RecordPos(img, i), HeadWords)
RecordSize(img, i) ==
    LET head == HeadOf(img, i) IN
    HeadWords + head[1] + head[2] + head[5] + (head[3] + 1) + (head[4] + 1) + (head[6] + 1)
RecordStarts(img, i) == RecordPos(img, i) + HeadWords <= Header(img).string_offset
RecordEnds(img, i) == RecordPos(img, i) + RecordSize(img, i) <= Header(img).string_offset
OperandsAt(img, i) ==
    LET head == HeadOf(img, i)
        ids == RecordPos(img, i) + HeadWords
        starts == ids + head[1] + head[2] + head[5]
        ops == [ins   |-> [ids |-> Cells(img, ids, head[1]),
                           starts |-> Cells(img, starts, head[3] + 1)],
                outs  |-> [ids |-> Cells(img, ids + head[1], head[2]),
                           starts |-> Cells(img, starts + head[3] + 1, head[4] + 1)],
                order |-> [ids |-> Cells(img, ids + head[1] + head[2], head[5]),
                           starts |-> Cells(img, starts + head[3] + head[4] + 2, head[6] + 1)]]
    IN  IF /\ RecordStarts(img, i) /\ RecordEnds(img, i)
           /\ FromStarts(ops.ins) /\ FromStarts(ops.outs) /\ FromStarts(ops.order)
        THEN ops ELSE NoOperands

RawCommand(img, i) ==
    Cells(img, Header(img).command_offset + (i - 1) * CommandSize, CommandSize)
CommandAt(img, i) ==
    LET raw == RawCommand(img, i) IN
    [dir |-> raw[1], text |-> ShownAt(img, raw[2]), display |-> ShownAt(img, raw[3]),
     env |-> StringAt(img, raw[4]), flags |-> raw[5], ops |-> OperandsAt(img, i)]
GoodCommand(c) == c.env # NoString /\ c.ops # NoOperands /\ c.flags \in CommandFlags
Commands(img) == [i \in 1..Header(img).commands |-> CommandAt(img, i)]

EdgeAt(img, i) ==
    LET raw == Cells(img, Header(img).edge_offset + (i - 1) * EdgeSize, EdgeSize) IN
    [from |-> raw[1], to |-> raw[2], type |-> raw[3]]
Edges(img) == [i \in 1..Header(img).edges |-> EdgeAt(img, i)]

Failed(kind) == [kind |-> kind, files |-> <<>>, commands |-> <<>>, edges |-> <<>>]

\* read_index: the whole record, or nothing of it.
ReadIndex(img) ==
    IF Opened(img, Version) # "open" THEN Failed(Opened(img, Version))
    ELSE IF /\ \A i \in DOMAIN Files(img) : GoodFile(Files(img)[i])
            /\ \A i \in DOMAIN Commands(img) : GoodCommand(Commands(img)[i])
            /\ \A i \in DOMAIN Edges(img) : Edges(img)[i].type \in Links
         THEN [kind |-> "ok", files |-> Files(img), commands |-> Commands(img),
               edges |-> Edges(img)]
         ELSE Failed("damaged")

\* compute_paths: a path is the names from the top down.  A parent that is no
\* file, or that is still waiting for this very path, ends the climb.
Join(path, name) == IF name = <<>> THEN path ELSE Append(path, name)
Climb(files, done, i) ==
    FoldLeft(LAMBDA chain, step :
                LET p == files[Last(chain)].parent IN
                IF p \in DOMAIN files \ (DOMAIN done \cup Range(chain)) THEN Append(chain, p) ELSE chain,
             <<i>>, files)
Place(files, done, i) ==
    FoldRight(LAMBDA k, above :
                LET p == files[k].parent IN
                (k :> Join(IF p \in DOMAIN above THEN above[p] ELSE <<>>, files[k].name)) @@ above,
              Climb(files, done, i), done)
ComputePaths(files) ==
    FoldLeft(LAMBDA done, i : IF i \in DOMAIN done THEN done ELSE Place(files, done, i),
             <<>>, [i \in DOMAIN files |-> i])

\* File, Generated and Ghost name a path with a claim; a directory (3) does not.
\* Two claims on one path take the whole record down.
PriorPaths(files) ==
    LET path == ComputePaths(files)
        claims == {i \in DOMAIN files : files[i].type # 3 /\ path[i] # <<>>}
    IN  IF \E i, j \in claims : i # j /\ path[i] = path[j] THEN [kind |-> "lost", paths |-> {}]
        ELSE [kind |-> "known", paths |-> {<<path[i], files[i].type>> : i \in claims}]

\* Mutant: the paths of a record that reads whole.
RecoveryOfWholeRecord(img) ==
    CASE img = NoImage -> [kind |-> "never_built", paths |-> {}]
      [] img # NoImage /\ ReadIndex(img).kind # "ok" -> [kind |-> "lost", paths |-> {}]
      [] img # NoImage /\ ReadIndex(img).kind = "ok" -> PriorPaths(Files(img))
\* read_prior_paths: of any version since the layout floor, the file table alone.
ReadPriorPaths(img) ==
    CASE img = NoImage -> [kind |-> "never_built", paths |-> {}]
      [] img # NoImage /\ Opened(img, LayoutFloor) # "open" -> [kind |-> "lost", paths |-> {}]
      [] img # NoImage /\ Opened(img, LayoutFloor) = "open" ->
            IF \A i \in DOMAIN Files(img) : GoodFile(Files(img)[i])
            THEN PriorPaths(Files(img)) ELSE [kind |-> "lost", paths |-> {}]
-----------------------------------------------------------------------------
(***************************************************************************)
(* Properties.                                                             *)
(***************************************************************************)
Good == {ix \in Records : ~TooLong(ix)}

\* Whatever fails or goes down during a save, the record's name holds a whole
\* record, an old one or the new one, or none.
WholeRecord ==
    damage = Unhurt => (target = NoImage \/ \E ix \in Good : target = Image(Version, ix))

\* A record is trusted whole or not at all: what a read returns is what was
\* saved, the edges in one order and long texts cut, and nothing of a record
\* that was hit since.
Shown(ix) ==
    [kind |-> "ok", files |-> ix.files, edges |-> Sorted(ix.edges),
     commands |-> [i \in DOMAIN ix.commands |->
        LET c == ix.commands[i] IN
        [dir |-> c.dir, text |-> Display(c.text), display |-> Display(c.display), env |-> c.env,
         flags |-> c.flags, ops |-> [ins |-> c.ins, outs |-> c.outs, order |-> c.order]]]]
ReadsWhatWasSaved ==
    damage = Unhurt =>
        (loaded.kind \in {"not_read", "absent"} \/ \E ix \in Good : loaded = Shown(ix))
HitIsNoticed == damage.kind = "hit" => loaded.kind # "ok"

\* The cells a read looks at, by the positions the record itself declares.
Span(a, n) == a..(a + n - 1)
StringTouches(img, offset) ==
    IF ~StringStarts(img, offset) THEN {}
    ELSE {StringPos(img, offset)} \cup
         (IF StringEnds(img, offset)
          THEN Span(StringPos(img, offset), 1 + Cell(img, StringPos(img, offset))) ELSE {})
RecordTouches(img, i) ==
    IF ~RecordStarts(img, i) THEN {}
    ELSE Span(RecordPos(img, i), IF RecordEnds(img, i) THEN RecordSize(img, i) ELSE HeadWords)
Touched(img) ==
    IF Opened(img, LayoutFloor) # "open" THEN {}
    ELSE LET h == Header(img) IN
         Span(h.file_offset, h.files * FileSize)
         \cup Span(h.command_offset, h.commands * CommandSize)
         \cup Span(h.edge_offset, h.edges * EdgeSize)
         \cup Span(h.table_offset, h.commands)
         \cup (UNION {StringTouches(img, RawFile(img, i)[2]) : i \in 1..h.files})
         \cup (UNION {StringTouches(img, RawCommand(img, i)[j]) : i \in 1..h.commands, j \in 2..4})
         \cup UNION {RecordTouches(img, i) : i \in 1..h.commands}

\* A reader validates before it trusts: no record, whatever it declares, makes
\* it look outside the file.
StaysInside == target # NoImage => Touched(target) \subseteq 0..(Len(target.cells) - 1)

\* Damage to the commands, their operands or the edges does not cost the paths
\* that clean and the guards of sources live on.
PathCells(img) ==
    LET h == Header(img) IN
    Span(0, HeaderSize) \cup Span(h.file_offset, h.files * FileSize)
    \cup Span(h.string_offset, h.string_size)
PathsOutlastDamage ==
    damage.kind = "foreign" /\ damage.at \notin PathCells(damage.of) =>
        ReadPriorPaths(target) = ReadPriorPaths(damage.of)

\* What stands under the record's name is a whole record or none, whatever fails or
\* goes down; a record that was hit is not read, a forged one leads no reader out of
\* the file, and neither costs more than it touches (atomic_write, read_index,
\* open_index_in_window, read_prior_paths).
RecordIsSafe == WholeRecord /\ HitIsNoticed /\ StaysInside /\ PathsOutlastDamage
=============================================================================
