----------------------------- MODULE MCPlugins -------------------------------
(* Two workers, two parameters, two steps of two backward passes (one pass  *)
(* for half precision); three steps for the cross-barrier optimizer.        *)
EXTENDS Plugins, TLC

CONSTANTS w1, w2, p1, p2

Workers == {w1, w2}
Parameters == <<p1, p2>>
\* A layer that some forward passes skip.
LayerSkipped == {{p1, p2}, {p1}}
\* All layers always, or a layer that would take part from the second step on.
Unfreezing == {<<{p1, p2}, {p1, p2}>>, <<{p1}, {p1, p2}>>}
LocalNorms == w1 :> 1 @@ w2 :> 2
\* One gradient below the threshold for compression, one exactly at it.
AroundThreshold == p1 :> 4 @@ p2 :> 8
\* p2's layer is skipped in step 1, p1's in step 3.
CrossPasses == <<<<p1>>, <<p1, p2>>, <<p2>>>>
=============================================================================
