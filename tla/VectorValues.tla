---------------------------- MODULE VectorValues ----------------------------
(***************************************************************************)
(* What the vectors of a program promise: each is a sequence of its own,   *)
(* and an operation on one changes no other, whatever became of the memory *)
(* behind them.                                                            *)
(***************************************************************************)
EXTENDS Elements

VARIABLES
    length,   \* length[v]
    content   \* content[v], a function from 0 to length[v]

vvars == <<length, content>>

VInit == length = [v \in Vec |-> 0] /\ content = [v \in Vec |-> NoElements]

Becomes(v, n, f) == length' = [length EXCEPT ![v] = n] /\ content' = [content EXCEPT ![v] = f]

Put(v) ==
    \E k \in 0..MaxSize, i \in 0..length[v] : \E g \in Contents(k) :
        Becomes(v, length[v] + k, Inserted(content[v], length[v], i, g, k))
Cut(v) ==
    \E i \in 0..length[v] : \E r \in 0..(length[v] - i) :
        Becomes(v, length[v] - r, Removed(content[v], length[v], i, r))
Copy(v, w) == Becomes(v, length[w], content[w])
Move(v, w) ==
    /\ length' = [length EXCEPT ![v] = length[w], ![w] = 0]
    /\ content' = [content EXCEPT ![v] = content[w], ![w] = NoElements]

VNext == \/ \E v \in Vec : Put(v) \/ Cut(v)
         \/ \E v, w \in Vec : v # w /\ (Copy(v, w) \/ Move(v, w))

VSpec == VInit /\ [][VNext]_vvars
=============================================================================
