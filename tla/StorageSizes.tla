---------------------------- MODULE StorageSizes ----------------------------
(* The constants of Storage, and what it takes of them. *)
EXTENDS Elements

CONSTANTS
    SortedVec,    \* the vectors that are a SortedIdVec or a SortedPairVec
    Reserved,  \* cells of address space
    Page,      \* cells are committed by the page
    Slack,     \* a Vec grows by half and this
    First,     \* the first block of a sorted one
    Requests   \* [size, align] of what the rest of the program asks for

ASSUME SizesOK ==
    /\ SortedVec \subseteq Vec /\ 0 \in Value /\ MaxSize \in Nat /\ Reserved \in Nat
    /\ Page \in Nat \ {0} /\ Reserved % Page = 0
    /\ Slack \in Nat \ {0} /\ First \in Nat \ {0}
    /\ Requests \subseteq [size : Nat, align : Nat \ {0}]
=============================================================================
