--------------------------- MODULE TorchOptimizer ----------------------------
(* byteps/torch/__init__.py: _DistributedOptimizer in synchronous training. *)
(* Every worker runs zero_grad, backward_passes_per_step backward passes    *)
(* (whose hooks note the parameter in self._handles), synchronize and step. *)
(* Three ways to communicate:                                               *)
(*   "none"      tensor by tensor;                                          *)
(*   "inca"      all gradients as one vector, compressed with the largest   *)
(*               norm of all workers (send_norm), sent slice by slice;      *)
(*   "max_info"  the same with the norms exchanged by push_pull, the way of *)
(*               byteps/torch/inca_init.py.                                 *)
(* A gradient is the set of contributions <<worker, step, pass>> in it.     *)
(* INCA's compressor is external: it rotates and quantises the whole vector *)
(* with the norm, so slices add up only if all workers laid the vector out  *)
(* alike and used the same norm.                                            *)
EXTENDS PushPullCore

CONSTANTS
    Param,          \* sequence: the order in which backward reaches them
    Styles,         \* "step": step(); "skip": synchronize() and step() under
                    \* skip_synchronize(); "twice": synchronize(), then step()
    Branches,       \* the sets of parameters a forward pass may use
    backward_passes_per_step,
    Steps,          \* bound on the training steps
    LocalNorm       \* batch_grads.norm(2) of each worker

Params == Range(Param)
NormName == "max_norm"      \* "Info.batched_max_norm" or "Gradient.max_info"

VARIABLES
    compression, style, used,   \* what the training script chose
    step, pc, passes, syncs,    \* main thread; syncs: synchronize() calls left
    handles,                    \* self._handles: parameters in dict order
    idx,                        \* position in handles
    push_pull_delay, grad, weight,
    max_norm                    \* self._compression_info['max_norm']

choice == <<compression, style, used>>
torchvars == <<choice, step, pc, passes, syncs, handles, idx, push_pull_delay,
               grad, weight, max_norm, core>>

TorchInit ==
    /\ compression \in {"none", "inca", "max_info"}
    /\ style \in Styles
    /\ used \in [1..Steps -> Branches]
    /\ step = [w \in Worker |-> 1]
    /\ pc = [w \in Worker |-> "zero_grad"]
    /\ passes = [w \in Worker |-> 0]
    /\ syncs = [w \in Worker |-> 0]
    /\ handles = [w \in Worker |-> <<>>]
    /\ idx = [w \in Worker |-> 1]
    /\ push_pull_delay = [w \in Worker |-> [p \in Params |-> backward_passes_per_step]]
    /\ grad = [w \in Worker |-> [p \in Params |-> {}]]
    /\ weight = [w \in Worker |-> [p \in Params |-> <<>>]]
    /\ max_norm = [w \in Worker |-> 0]
    /\ CoreInit(Params \cup {NormName})

-----------------------------------------------------------------------------
zero_grad(w) ==
    /\ pc[w] = "zero_grad"
    /\ grad' = [grad EXCEPT ![w] = [p \in Params |-> {}]]
    /\ passes' = [passes EXCEPT ![w] = 0]
    /\ syncs' = [syncs EXCEPT ![w] = IF style = "twice" THEN 2 ELSE 1]
    /\ pc' = [pc EXCEPT ![w] = "backward"]
    /\ UNCHANGED <<choice, step, handles, idx, push_pull_delay, weight, max_norm, core>>

\* One backward pass: a hook for every parameter the pass uses.
Used(w) == used[step[w]]
HookAsserts(w) == \A p \in Used(w) : push_pull_delay[w][p] > 0
hook(w) ==
    LET fired == SelectSeq(Param, LAMBDA p : p \in Used(w)) IN
    /\ pc[w] = "backward"
    /\ IF HookAsserts(w)
       THEN /\ push_pull_delay' = [push_pull_delay EXCEPT ![w] =
                    [p \in Params |-> IF p \in Used(w) THEN @[p] - 1 ELSE @[p]]]
            /\ handles' = [handles EXCEPT ![w] =
                    @ \o SelectSeq(fired, LAMBDA p : ~Contains(handles[w], p))]
            /\ grad' = [grad EXCEPT ![w] =
                    [p \in Params |-> IF p \in Used(w)
                                      THEN @[p] \cup {<<w, step[w], passes[w] + 1>>}
                                      ELSE @[p]]]
            /\ passes' = [passes EXCEPT ![w] = @ + 1]
            /\ pc' = [pc EXCEPT ![w] = IF passes[w] + 1 = backward_passes_per_step
                                       THEN "synchronize" ELSE "backward"]
       ELSE /\ pc' = [pc EXCEPT ![w] = "raised"]
            /\ UNCHANGED <<push_pull_delay, handles, grad, passes>>
    /\ UNCHANGED <<choice, step, syncs, idx, weight, max_norm, core>>

\* Parameters no hook noted come last, in the order of a Python set.
Missing(w) == Params \ Range(handles[w])
DictOrder(w) == {handles[w] \o missing_p : missing_p \in SetToSeqs(Missing(w))}

CollectMissing(w) ==
    /\ pc[w] = "synchronize"
    /\ \E param_handles \in DictOrder(w) :
            handles' = [handles EXCEPT ![w] = param_handles]
    /\ pc' = [pc EXCEPT ![w] = IF compression = "none" THEN "push" ELSE "norm"]
    /\ idx' = [idx EXCEPT ![w] = 1]
    /\ UNCHANGED <<choice, step, passes, syncs, push_pull_delay, grad, weight, max_norm, core>>

\* send_norm: the core returns the largest norm of all workers.
send_norm(w) ==
    /\ compression = "inca" /\ pc[w] = "norm"
    /\ max_norm' = [max_norm EXCEPT ![w] = LocalNorm[w]]
    /\ push_pull_async(w, NormName, LocalNorm[w])
    /\ pc' = [pc EXCEPT ![w] = "norm_wait"]
    /\ UNCHANGED <<choice, step, passes, syncs, handles, idx, push_pull_delay, grad, weight>>

\* inca_init.py: a vector with w's norm in w's place and 0.0 elsewhere.
push_pull_max_norm(w) ==
    /\ compression = "max_info" /\ pc[w] = "norm"
    /\ max_norm' = [max_norm EXCEPT ![w] = LocalNorm[w]]
    /\ push_pull_async(w, NormName, [v \in Worker |-> IF v = w THEN LocalNorm[w] ELSE 0])
    /\ pc' = [pc EXCEPT ![w] = "norm_wait"]
    /\ UNCHANGED <<choice, step, passes, syncs, handles, idx, push_pull_delay, grad, weight>>

\* The vector the core summed up; each place has one non-zero summand.
SummedNorms(w) ==
    [v \in Worker |-> FoldSet(LAMBDA a, b : a[v] + b, 0, Output(w, NormName))]

OwnNorm(w) == LocalNorm[w]
GlobalNorm(w) == IF compression = "inca" THEN Max(Output(w, NormName))
                 ELSE Max(Range(SummedNorms(w)))

\* A zero answer leaves the local norm in place.
NormArrives(w) ==
    /\ pc[w] = "norm_wait" /\ synchronize(w, NormName)
    /\ max_norm' = [max_norm EXCEPT ![w] = IF GlobalNorm(w) # 0 THEN GlobalNorm(w) ELSE @]
    /\ pc' = [pc EXCEPT ![w] = "push"]
    /\ UNCHANGED <<choice, step, passes, syncs, handles, idx, push_pull_delay, grad, weight>>

\* What is pushed under p's name: its gradient, or the slice of the compressed
\* vector at p's place.
Slice(w) == [layout |-> handles[w], norm |-> max_norm[w], grads |-> grad[w]]
Payload(w, p) ==
    IF compression = "none"
    THEN [layout |-> <<p>>, norm |-> 0, grads |-> [q \in {p} |-> grad[w][q]]]
    ELSE Slice(w)

push_pull_grad_async(w) ==
    LET p == handles[w][idx[w]] IN
    /\ pc[w] = "push"
    /\ push_pull_async(w, p, Payload(w, p))
    /\ IF idx[w] < Len(handles[w])
       THEN idx' = [idx EXCEPT ![w] = @ + 1] /\ UNCHANGED pc
       ELSE idx' = [idx EXCEPT ![w] = 1] /\ pc' = [pc EXCEPT ![w] = "wait"]
    /\ UNCHANGED <<choice, step, passes, syncs, handles, push_pull_delay, grad, weight, max_norm>>

\* decompress: sums of unlike slices are no gradient of anything.
Garbage == {<<"garbage", 0, 0>>}
Alike(slices) == Cardinality({[l |-> s.layout, m |-> s.norm] : s \in slices}) = 1
Decompress(p, slices) ==
    IF Alike(slices)
    THEN UNION {s.grads[p] : s \in slices}
    ELSE Garbage

DelayNotReset(delay) == delay
DelayReset(delay) == backward_passes_per_step

LastButOne(w) == Len(handles[w]) - 1
LastHandle(w) == Len(handles[w])

\* synchronize(handle) for one parameter after the other; the gradients are
\* replaced when the last is there.
WaitAndClear(w) ==
    LET p == handles[w][idx[w]] IN
    /\ pc[w] = "wait" /\ synchronize(w, p)
    /\ push_pull_delay' = [push_pull_delay EXCEPT ![w][p] = DelayReset(@)]
    /\ IF idx[w] < LastHandle(w)
       THEN /\ idx' = [idx EXCEPT ![w] = @ + 1]
            /\ UNCHANGED <<pc, syncs, handles, grad>>
       ELSE /\ grad' = [grad EXCEPT ![w] =
                    [q \in Params |-> Decompress(q, Output(w, q))]]
            /\ handles' = [handles EXCEPT ![w] = <<>>]
            /\ syncs' = [syncs EXCEPT ![w] = @ - 1]
            /\ pc' = [pc EXCEPT ![w] = IF syncs[w] > 1 THEN "synchronize" ELSE "step"]
            /\ UNCHANGED idx
    /\ UNCHANGED <<choice, step, passes, weight, max_norm>>

\* super().step(): the update with the averaged gradients.
Step(w) ==
    /\ pc[w] = "step"
    /\ weight' = [weight EXCEPT ![w] = [p \in Params |-> Append(@[p], grad[w][p])]]
    /\ IF step[w] < Steps
       THEN step' = [step EXCEPT ![w] = @ + 1] /\ pc' = [pc EXCEPT ![w] = "zero_grad"]
       ELSE pc' = [pc EXCEPT ![w] = "finished"] /\ UNCHANGED step
    /\ UNCHANGED <<choice, passes, syncs, handles, idx, push_pull_delay, grad, max_norm, core>>

TorchWorker(w) ==
    \/ zero_grad(w) \/ hook(w) \/ CollectMissing(w) \/ send_norm(w) \/ push_pull_max_norm(w)
    \/ NormArrives(w) \/ push_pull_grad_async(w) \/ WaitAndClear(w) \/ Step(w)

TorchNext == \E w \in Worker : TorchWorker(w)

-----------------------------------------------------------------------------
\* DistributedOptimizer's docstring: "using an push_pull to average gradient
\* values before applying gradients to model weights".  The k-th update of p is
\* made, on every worker, from what all workers computed for p in all passes of
\* step k, each contribution once.
AppliedIsAverage ==
    \A w \in Worker, p \in Params : \A k \in 1..Len(weight[w][p]) :
        weight[w][p][k] = IF p \in used[k]
                          THEN {<<v, k, b>> : v \in Worker, b \in 1..backward_passes_per_step}
                          ELSE {}

\* The assertions of _make_hook do not fire in a loop that runs
\* backward_passes_per_step passes per step, whichever layers the passes use.
HookNeverRaises == \A w \in Worker : pc[w] # "raised"

\* No operation started by synchronize outlives it: step applies nothing that
\* the core may still write to, and _handle_map keeps no tensor alive.
NoHandleOutlivesSynchronize ==
    \A w \in Worker : pc[w] \in {"zero_grad", "backward", "step", "finished"} => live[w] = {}

=============================================================================
