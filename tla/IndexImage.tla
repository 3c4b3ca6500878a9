----------------------------- MODULE IndexImage -----------------------------
(***************************************************************************)
(* How an index becomes an image (src/src/index/writer.cpp).               *)
(*                                                                         *)
(* An image is a sequence of cells, one per 32-bit word or character, and  *)
(* a footer.  The checksum is ideal: it is the sequence of cells itself.   *)
(***************************************************************************)
EXTENDS Integers, Sequences, FiniteSets, SequencesExt, TLC

CONSTANTS
    Records,   \* the indices a build may save
    Values,    \* what a damaged cell may hold
    MaxString  \* MAX_STRING_LENGTH

Magic == 7
Version == 9
LayoutFloor == 8
\* Layout, in cells.
HeaderSize == 12
FileSize == 5
CommandSize == 5
EdgeSize == 3
HeadWords == 6
-----------------------------------------------------------------------------
\* A display text too long for its length prefix keeps its beginning.
Marker == 5
Display(s) == IF Len(s) <= MaxString THEN s ELSE Append(SubSeq(s, 1, MaxString - 1), Marker)

\* Every string the tables refer to, in the order they are added.
Strings(ix) ==
    [i \in DOMAIN ix.files |-> ix.files[i].name]
    \o FlattenSeq([i \in DOMAIN ix.commands |->
            <<Display(ix.commands[i].text), Display(ix.commands[i].display), ix.commands[i].env>>])

\* A name or an environment the format cannot hold fails the save.
TooLong(ix) == \E i \in DOMAIN Strings(ix) : Len(Strings(ix)[i]) > MaxString

\* Each string once, behind the empty one at offset 0.
Entry(s) == <<Len(s)>> \o s
IsNew(all, i) == all[i] # <<>> /\ \A j \in 1..(i - 1) : all[j] # all[i]
Entries(ix) ==
    LET all == Strings(ix)
    IN  [i \in DOMAIN all |-> IF IsNew(all, i) THEN Entry(all[i]) ELSE <<>>]
StringData(ix) == IF Strings(ix) = <<>> THEN <<>> ELSE <<0>> \o FlattenSeq(Entries(ix))
Offset(ix, s) ==
    IF s = <<>> THEN 0
    ELSE LET k == CHOOSE i \in DOMAIN Strings(ix) : Strings(ix)[i] = s /\ IsNew(Strings(ix), i)
         IN  1 + Len(FlattenSeq(SubSeq(Entries(ix), 1, k - 1)))

FileCells(ix, f) == <<f.parent, Offset(ix, f.name), f.type, f.flags, f.hash>>
CommandCells(ix, c) ==
    <<c.dir, Offset(ix, Display(c.text)), Offset(ix, Display(c.display)), Offset(ix, c.env),
      c.flags>>
EdgeCells(e) == <<e.from, e.to, e.type>>
Tokens(list) == Len(list.starts) - 1
OperandCells(c) ==
    <<Len(c.ins.ids), Len(c.outs.ids), Tokens(c.ins), Tokens(c.outs), Len(c.order.ids),
      Tokens(c.order)>>
    \o c.ins.ids \o c.outs.ids \o c.order.ids
    \o c.ins.starts \o c.outs.starts \o c.order.starts

\* The edges in one order, whatever order jobs finished in.
EdgeBefore(a, b) ==
    \/ a.from < b.from
    \/ a.from = b.from /\ (a.to < b.to \/ (a.to = b.to /\ a.type < b.type))
Orders(edges) ==
    {p \in [DOMAIN edges -> DOMAIN edges] :
        /\ \A k \in DOMAIN edges : \E i \in DOMAIN edges : p[i] = k
        /\ \A i, j \in DOMAIN edges : i < j => ~EdgeBefore(edges[p[j]], edges[p[i]])}
Sorted(edges) ==
    LET order == CHOOSE p \in Orders(edges) : TRUE
    IN  [i \in DOMAIN edges |-> edges[order[i]]]

\* The rows of the tables.
FileRows(ix) == [i \in DOMAIN ix.files |-> FileCells(ix, ix.files[i])]
CommandRows(ix) == [i \in DOMAIN ix.commands |-> CommandCells(ix, ix.commands[i])]
EdgeRows(ix) == [i \in DOMAIN ix.edges |-> EdgeCells(Sorted(ix.edges)[i])]
OperandRows(ix) == [i \in DOMAIN ix.commands |-> OperandCells(ix.commands[i])]
OperandTable(ix) ==
    [i \in DOMAIN ix.commands |-> Len(FlattenSeq(SubSeq(OperandRows(ix), 1, i - 1)))]

Image(version, ix) ==
    LET files   == FlattenSeq(FileRows(ix))
        cmds    == FlattenSeq(CommandRows(ix))
        edges   == FlattenSeq(EdgeRows(ix))
        table   == OperandTable(ix)
        ops     == FlattenSeq(OperandRows(ix))
        strings == StringData(ix)
        o1 == HeaderSize
        o2 == o1 + Len(files)
        o3 == o2 + Len(cmds)
        o4 == o3 + Len(edges)
        o5 == o4 + Len(table)
        o6 == o5 + Len(ops)
        cells == <<Magic, version, Len(ix.files), Len(ix.commands), Len(ix.edges), Len(strings),
                   o1, o2, o3, o4, o5, o6>>
                 \o files \o cmds \o edges \o table \o ops \o strings
    IN  [cells |-> cells, footer |-> cells]

\* What an index holds: words, names as sequences of letters, operands by token.
\* A build writes the types and flags its reader knows, and groups operands by
\* prefix sums that its constructors make.
NodeTypes == 0..3
Links == 0..1
FileFlags == 0..1
CommandFlags == 0..1
SavedFile == [parent : Nat, name : Seq(Nat), type : NodeTypes, flags : FileFlags, hash : Nat]
SavedEdge == [from : Nat, to : Nat, type : Links]
SavedList == [ids : Seq(Nat), starts : Seq(Nat)]
\* A prefix sum that runs from zero to the operand count without decreasing.
FromStarts(list) ==
    LET s == list.starts IN
    /\ s[1] = 0 /\ s[Len(s)] = Len(list.ids)
    /\ \A i \in 2..Len(s) : s[i] >= s[i - 1]
SavedCommand ==
    [dir : Nat, text : Seq(Nat), display : Seq(Nat), env : Seq(Nat), flags : CommandFlags,
     ins : SavedList, outs : SavedList, order : SavedList]

ASSUME RecordsAssumption ==
    /\ Values \subseteq Nat /\ MaxString \in Nat \ {0}
    /\ Records \subseteq [files : Seq(SavedFile), commands : Seq(SavedCommand), edges : Seq(SavedEdge)]
    /\ \A ix \in Records : \A i \in DOMAIN ix.commands :
          \A list \in {ix.commands[i].ins, ix.commands[i].outs, ix.commands[i].order} :
              list.starts # <<>> /\ FromStarts(list)
=============================================================================
