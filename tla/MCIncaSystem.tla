--------------------------- MODULE MCIncaSystem ------------------------------
(* IncaSystem on small instances.                                          *)
EXTENDS FinishInvariant, TLC

CONSTANTS w1, w2

Workers == {w1, w2}
Symmetry == Permutations(Workers)

T(f, n, c) == [first |-> f, parts |-> n, cmd |-> c]

\* Two gradients; the first has two packets.
Gradients21 == <<T(0, 2, TENSOR_COMM), T(2, 1, TENSOR_COMM)>>
\* Two gradients with a tensor that is not aggregated between them.
Mixed111 == <<T(0, 1, TENSOR_COMM), T(1, 1, TENSOR_INIT), T(2, 1, TENSOR_COMM)>>
Gradients11 == <<T(0, 1, TENSOR_COMM), T(1, 1, TENSOR_COMM)>>

=============================================================================
