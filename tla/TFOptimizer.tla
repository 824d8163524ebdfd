----------------------------- MODULE TFOptimizer -----------------------------
(* byteps/tensorflow: _DistributedOptimizer run by a session (mode          *)
(* "session"), the same through Keras ("keras") and DistributedGradientTape *)
(* ("tape").  In a session the push_pull operations of a step are nodes of  *)
(* the graph and run in any order, under Keras too; the eager tape starts   *)
(* them in the order of the list.  BroadcastGlobalVariablesHook broadcasts  *)
(* when the session is created, the Keras callback and the TensorFlow 2     *)
(* scripts after the first batch.  A gradient is None when the loss does    *)
(* not depend on the variable.  A variable's value is the pair of the       *)
(* worker it was initialised on and its updates; an update is the set of    *)
(* contributions <<worker, step>> averaged into it.                         *)
EXTENDS PushPullCore

CONSTANTS Vars,     \* sequence: the variables in the optimizer's order
    Root, Steps

VARIABLES
    mode,           \* how the script uses the plugin
    dependent,      \* the variables whose gradient is not None
    pc, step,
    stage,          \* stage[w][p]: where the push_pull of p's gradient is
    _aggregated_gradients, broadcast_done,
    grad, value

tfvars == <<mode, dependent, pc, step, stage, _aggregated_gradients, broadcast_done, grad,
            value, core>>

Var == Range(Vars)
GradientOf(p) == <<"grad", p>>
VariableOf(p) == <<"variable", p>>
None == {}

TFInit ==
    /\ mode \in {"session", "keras", "tape"}
    /\ dependent \in {Var, Var \ {Vars[1]}}
    /\ pc = [w \in Worker |-> IF mode = "session" THEN "broadcast" ELSE "compute"]
    /\ step = [w \in Worker |-> 1]
    /\ stage = [w \in Worker |-> [p \in Var |-> "idle"]]
    /\ _aggregated_gradients = [w \in Worker |-> FALSE]
    /\ broadcast_done = [w \in Worker |-> FALSE]
    /\ grad = [w \in Worker |-> [p \in Var |-> None]]
    /\ value = [w \in Worker |-> [p \in Var |-> [of |-> w, updates |-> <<>>]]]
    /\ CoreInit({GradientOf(p) : p \in Var} \cup {VariableOf(p) : p \in Var})

choice == <<mode, dependent>>
At(w, p, from, to) == stage[w][p] = from /\ stage' = [stage EXCEPT ![w][p] = to]

\* In list order each push_pull waits for those before it to have been started.
InOrder(w, p) ==
    mode # "tape"
        \/ \A q \in Var : \A i, j \in 1..Len(Vars) :
                Vars[i] = q /\ Vars[j] = p /\ i < j => stage[w][q] \notin {"push", "bcast"}

-----------------------------------------------------------------------------
\* compute_gradients of the wrapped optimizer, or the tape.
ComputeGradients(w) ==
    /\ pc[w] = "compute"
    /\ grad' = [grad EXCEPT ![w] = [p \in Var |->
            IF p \in dependent THEN {<<w, step[w]>>} ELSE None]]
    /\ stage' = [stage EXCEPT ![w] = [p \in Var |->
            IF p \in dependent THEN "push" ELSE "idle"]]
    /\ _aggregated_gradients' = [_aggregated_gradients EXCEPT ![w] = TRUE]
    /\ pc' = [pc EXCEPT ![w] = "aggregate"]
    /\ UNCHANGED <<choice, step, broadcast_done, value, core>>

\* push_pull(grad): the op of one gradient starts ...
PushGradient(w, p) ==
    /\ InOrder(w, p) /\ At(w, p, "push", "sum")
    /\ push_pull_async(w, GradientOf(p), grad[w][p])
    /\ UNCHANGED <<choice, pc, step, _aggregated_gradients, broadcast_done, grad, value>>

\* ... and returns the sum, which the plugin divides by size().
AveragedGradient(w, p) ==
    /\ At(w, p, "sum", "averaged") /\ synchronize(w, GradientOf(p))
    /\ grad' = [grad EXCEPT ![w][p] = UNION Output(w, GradientOf(p))]
    /\ UNCHANGED <<choice, pc, step, _aggregated_gradients, broadcast_done, value>>

\* apply_gradients updates a variable as soon as its gradient is averaged.  Keras
\* refuses to apply gradients that were never aggregated.
ApplyGradient(w, p) ==
    /\ mode = "keras" => _aggregated_gradients[w]
    /\ At(w, p, "averaged", "idle")
    /\ value' = [value EXCEPT ![w][p].updates = Append(@, grad[w][p])]
    /\ UNCHANGED <<choice, pc, step, _aggregated_gradients, broadcast_done, grad, core>>

\* All updates are done: the batch ends, and the callback broadcasts once.
AfterBatch(w) == IF mode # "session" /\ ~broadcast_done[w] THEN "broadcast" ELSE "next"
BatchEnds(w) ==
    /\ pc[w] = "aggregate" /\ \A p \in Var : stage[w][p] = "idle"
    /\ pc' = [pc EXCEPT ![w] = AfterBatch(w)]
    /\ UNCHANGED <<choice, step, stage, _aggregated_gradients, broadcast_done, grad, value, core>>

\* broadcast_variables: a push_pull per variable, zeros from all but the root.
StartBroadcast(w) ==
    /\ pc[w] = "broadcast"
    /\ stage' = [stage EXCEPT ![w] = [p \in Var |-> "bcast"]]
    /\ pc' = [pc EXCEPT ![w] = "broadcasting"]
    /\ UNCHANGED <<choice, step, _aggregated_gradients, broadcast_done, grad, value, core>>

Zero == [of |-> "zero", updates |-> <<>>]
NothingZeroed(w, p) == value[w][p]
ZeroedUnlessRoot(w, p) == IF w = Root THEN value[w][p] ELSE Zero

broadcast(w, p) ==
    /\ InOrder(w, p) /\ At(w, p, "bcast", "received")
    /\ push_pull_async(w, VariableOf(p), ZeroedUnlessRoot(w, p))
    /\ UNCHANGED <<choice, pc, step, _aggregated_gradients, broadcast_done, grad, value>>

\* _assign(var, broadcast(var)): the sum of the pushed values.
Assign(w, p) ==
    LET sum == Output(w, VariableOf(p)) \ {Zero} IN
    /\ At(w, p, "received", "idle") /\ synchronize(w, VariableOf(p))
    /\ value' = [value EXCEPT ![w][p] =
            IF Cardinality(sum) = 1 THEN CHOOSE v \in sum : TRUE
            ELSE [of |-> "mixture", updates |-> <<>>]]
    /\ UNCHANGED <<choice, pc, step, _aggregated_gradients, broadcast_done, grad>>

BroadcastEnds(w) ==
    /\ pc[w] = "broadcasting" /\ \A p \in Var : stage[w][p] = "idle"
    /\ broadcast_done' = [broadcast_done EXCEPT ![w] = TRUE]
    /\ pc' = [pc EXCEPT ![w] = IF mode = "session" THEN "compute" ELSE "next"]
    /\ UNCHANGED <<choice, step, stage, _aggregated_gradients, grad, value, core>>

NextStep(w) ==
    /\ pc[w] = "next"
    /\ IF step[w] < Steps
       THEN step' = [step EXCEPT ![w] = @ + 1] /\ pc' = [pc EXCEPT ![w] = "compute"]
       ELSE pc' = [pc EXCEPT ![w] = "finished"] /\ UNCHANGED step
    /\ UNCHANGED <<choice, stage, _aggregated_gradients, broadcast_done, grad, value, core>>

TFWorker(w) ==
    \/ ComputeGradients(w) \/ BatchEnds(w) \/ StartBroadcast(w) \/ BroadcastEnds(w) \/ NextStep(w)
    \/ \E p \in Var : PushGradient(w, p) \/ AveragedGradient(w, p) \/ ApplyGradient(w, p)
                      \/ broadcast(w, p) \/ Assign(w, p)
TFNext == \E w \in Worker : TFWorker(w)

-----------------------------------------------------------------------------
\* "This is necessary to ensure consistent initialization of all workers": from
\* the broadcast on, workers between two batches that have made the same number
\* of steps have the same variables, initialised on the root and updated with
\* the average over all workers in every step.
ReplicasAgree ==
    \A w \in Worker : broadcast_done[w] /\ pc[w] \in {"next", "finished"} =>
        \A p \in Var : value[w][p] =
            [of |-> Root,
             updates |-> IF p \in dependent
                         THEN [k \in 1..step[w] |-> {<<v, k>> : v \in Worker}] ELSE <<>>]
=============================================================================
