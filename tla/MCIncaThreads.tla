--------------------------- MODULE MCIncaThreads -----------------------------
(* IncaThreads on small instances.                                         *)
EXTENDS IncaThreads, TLC

CONSTANTS w1, w2

Two == {w1, w2}
Symmetry == Permutations(Two)

T(f, n) == [first |-> f, parts |-> n, cmd |-> TENSOR_COMM]

Gradients111 == <<T(0, 1), T(1, 1), T(2, 1)>>
\* Keys and part counters wrap.
Gradients211 == <<T(0, 2), T(2, 1), T(3, 1)>>

=============================================================================
