------------------------------ MODULE Elements ------------------------------
(***************************************************************************)
(* What a vector holds, as a function from 0 to its size, and the two ways *)
(* its contents change.                                                    *)
(***************************************************************************)
EXTENDS Integers

CONSTANTS
    Vec,      \* the vectors of a program
    Value,    \* what an element may be
    MaxSize   \* a vector grows no longer than this

Contents(n) == [0..(n - 1) -> Value]
NoElements == [i \in 0..(-1) |-> 0]

\* f, of n elements, with the k elements g before position i; without r of them.
Inserted(f, n, i, g, k) ==
    [j \in 0..(n + k - 1) |-> IF j < i THEN f[j] ELSE IF j < i + k THEN g[j - i] ELSE f[j - k]]
Removed(f, n, i, r) == [j \in 0..(n - r - 1) |-> IF j < i THEN f[j] ELSE f[j + r]]
=============================================================================
