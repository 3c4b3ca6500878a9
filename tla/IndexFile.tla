----------------------------- MODULE IndexFile -----------------------------
(***************************************************************************)
(* The build record on disk: how an image replaces the old one             *)
(* (atomic_write of src/src/platform/file_io-posix.cpp), and what can      *)
(* happen to a file system meanwhile and afterwards.                       *)
(***************************************************************************)
EXTENDS IndexReader

VARIABLES
    pending,   \* the index being saved
    stage,     \* where atomic_write is
    temp,      \* the image under the temporary name
    synced,    \* whether the target's cells, and the temporary's, are on the platter
    undone     \* what a crash may still find under the record's name

vars == <<pending, stage, target, temp, synced, undone, damage, loaded>>
-----------------------------------------------------------------------------
NoRecord == [files |-> <<>>, commands |-> <<>>, edges |-> <<>>]
NotRead == Failed("not_read")

Init ==
    /\ pending = NoRecord
    /\ stage = "idle"
    /\ target = NoImage /\ temp = NoImage
    /\ synced = [target |-> TRUE, temp |-> TRUE]
    /\ undone = {}
    /\ damage = Unhurt
    /\ loaded = NotRead

disk == <<target, temp, synced, undone>>

\* serialize_index fails before anything is touched.
SaveRefused ==
    /\ stage = "idle"
    /\ \E ix \in Records : TooLong(ix) /\ pending' = ix
    /\ UNCHANGED <<stage, disk, damage, loaded>>

CreateTemp ==
    /\ stage = "idle" /\ damage = Unhurt
    /\ \E ix \in Records : ~TooLong(ix) /\ pending' = ix
    /\ stage' = "write"
    /\ temp' = [cells |-> <<>>, footer |-> <<>>]
    /\ synced' = [synced EXCEPT !.temp = FALSE]
    /\ UNCHANGED <<target, undone, damage, loaded>>

\* write_all stops at a failure, or writes everything.
Half(img) == [cells |-> SubSeq(img.cells, 1, Len(img.cells) \div 2), footer |-> <<>>]
Write ==
    /\ stage = "write"
    /\ \/ temp' = Image(Version, pending) /\ stage' = "fsync"
       \/ temp' = Half(Image(Version, pending)) /\ stage' = "unlink"
    /\ UNCHANGED <<pending, target, synced, undone, damage, loaded>>

\* Mutant: the data is left to the kernel.
FsyncNothing ==
    /\ stage = "fsync" /\ stage' = "rename"
    /\ UNCHANGED <<pending, disk, damage, loaded>>
Fsync ==
    /\ stage = "fsync"
    /\ \/ synced' = [synced EXCEPT !.temp = TRUE] /\ stage' = "rename"
       \/ stage' = "unlink" /\ UNCHANGED synced
    /\ UNCHANGED <<pending, target, temp, undone, damage, loaded>>

Unlink ==
    /\ stage = "unlink"
    /\ temp' = NoImage
    /\ stage' = "idle"
    /\ UNCHANGED <<pending, target, synced, undone, damage, loaded>>

\* rename replaces the name at once, though a crash may still undo it.
Rename ==
    /\ stage = "rename"
    /\ \/ /\ target' = temp /\ temp' = NoImage
          /\ synced' = [target |-> synced.temp, temp |-> TRUE]
          /\ undone' = {target}
          /\ stage' = "idle"
       \/ stage' = "unlink" /\ UNCHANGED disk
    /\ UNCHANGED <<pending, damage, loaded>>

\* In time the file system writes everything out.
Settle ==
    /\ undone' = {} /\ synced' = [target |-> TRUE, temp |-> TRUE]
    /\ <<undone, synced>> # <<{}, synced'>>
    /\ UNCHANGED <<pending, stage, target, temp, damage, loaded>>

\* The machine goes down: cells that were not synced are lost, a rename may be.
Survivors(img, whole) == {img} \cup (IF whole \/ img = NoImage THEN {} ELSE {Half(img)})
Crash ==
    /\ damage = Unhurt
    /\ \E t \in Survivors(target, synced.target) \cup undone : target' = t
    /\ \E m \in Survivors(temp, synced.temp) : temp' = m
    /\ stage' = "idle"
    /\ synced' = [target |-> TRUE, temp |-> TRUE] /\ undone' = {}
    /\ UNCHANGED <<pending, damage, loaded>>

\* The disk or another program hits the record: one cell, or a cut.
Corrupt(img) ==
    {[img EXCEPT !.cells[i] = v] : i \in DOMAIN img.cells, v \in Values} \cup
    {[cells |-> SubSeq(img.cells, 1, n), footer |-> <<>>] : n \in 0..(Len(img.cells) - 1)}
AtRest == stage = "idle" /\ temp = NoImage /\ synced.target /\ undone = {} /\ loaded = NotRead
Hit ==
    /\ AtRest /\ damage = Unhurt /\ target # NoImage
    /\ \E img \in Corrupt(target) \ {target} : target' = img
    /\ damage' = [kind |-> "hit", at |-> 0, of |-> target]
    /\ UNCHANGED <<pending, stage, temp, synced, undone, loaded>>

\* A record some other writer made, whose checksum holds whatever it says.
Foreign ==
    /\ AtRest /\ damage = Unhurt /\ target # NoImage
    /\ \E i \in DOMAIN target.cells, v \in Values :
          LET cells == [target.cells EXCEPT ![i] = v] IN
          /\ v # target.cells[i] /\ target' = [cells |-> cells, footer |-> cells]
          /\ damage' = [kind |-> "foreign", at |-> i - 1, of |-> target]
    /\ UNCHANGED <<pending, stage, temp, synced, undone, loaded>>

Load ==
    /\ stage = "idle"
    /\ loaded' = ReadIndex(target)
    /\ UNCHANGED <<pending, stage, disk, damage>>

Next == \/ SaveRefused \/ CreateTemp \/ Write \/ Fsync \/ Unlink \/ Rename \/ Settle
        \/ Crash \/ Hit \/ Foreign \/ Load

Spec == Init /\ [][Next]_vars
=============================================================================
