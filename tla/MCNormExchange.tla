--------------------------- MODULE MCNormExchange ----------------------------
(* NormExchange on small instances.                                        *)
EXTENDS NormInvariant

CONSTANTS w1, w2, w3

Three == {w1, w2, w3}
Norms == 1 .. 2

\* Two keys that share the only norm slot.
Calls01 == <<0, 1>>

=============================================================================
