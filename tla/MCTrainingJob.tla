--------------------------- MODULE MCTrainingJob -----------------------------
(* Two workers, on one node or on two.  Scripts whose checkpoints all workers *)
(* need are restarted on one node, where they see the same disk.              *)
EXTENDS TrainingJob

CONSTANTS w0, w1

MCWorker == {w0, w1}
MCRank == [w \in Worker |-> IF w = w0 THEN 0 ELSE 1]
OneNode == [w \in Worker |-> "node"]
TwoNodes == [w \in Worker |-> IF w = w0 THEN "node" ELSE "other"]
OnDisk == {"ddp", "lib", "inwork", "temp", "kevin", "accelerate", "gluon", "gluon_loader", "module"}
OnRoot == {"keras_resnet50", "tf_mnist"}
MCRestartable == (OnDisk \X {OneNode}) \cup (OnRoot \X {OneNode, TwoNodes})
MCRuns == MCRestartable \cup {<<"temp", TwoNodes>>}
            \cup ((DOMAIN programs \ (OnDisk \cup OnRoot)) \X {TwoNodes})
\* Three samples cannot be divided evenly; the sharded data sets have to be.
MCSamples == [s \in DOMAIN programs |->
    CASE s = "accelerate" -> 4
      [] programs[s].data = "sampler" -> 3
      [] programs[s].data \in {"whole", "discard"} -> 2 [] OTHER -> 4]

MCAccumulate == [s \in DOMAIN programs |-> IF s = "accelerate" THEN 2 ELSE 1]

\* The ImageNet script, killed and resumed.
MCResumed == {<<"resnet50", OneNode>>}
===============================================================================
