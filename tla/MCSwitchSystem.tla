--------------------------- MODULE MCSwitchSystem ----------------------------
(* SwitchSystem on small instances.                                        *)
EXTENDS SwitchSystem, TLC

CONSTANTS w1, w2

Workers == {w1, w2}
Symmetry == Permutations(Workers)

\* n gradients of one packet each.
Gradients(n) == [t \in 1 .. n |-> [first |-> t - 1, parts |-> 1, cmd |-> TENSOR_COMM]]
Gradients2 == Gradients(2)

Nobody == {}

=============================================================================
