------------------------------ MODULE Packets --------------------------------
(***************************************************************************)
(* What the DPDK client and the software parameter server share            *)
(* (dpdk/common): the workers and the commands a packet carries.           *)
(***************************************************************************)
EXTENDS Integers, Sequences, FiniteSets

CONSTANT Worker    \* the training processes

ASSUME WorkerAssumption == IsFiniteSet(Worker) /\ Worker # {}

TENSOR_COMM == 1   \* a gradient packet
TENSOR_NORM == 2   \* a norm packet
TENSOR_INIT == 3   \* a packet whose vector is not aggregated

NUM_WORKER == Cardinality(Worker)

=============================================================================
