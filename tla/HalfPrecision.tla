---------------------------- MODULE HalfPrecision ----------------------------
(* byteps/misc/imagenet18: _HalfPrecisionDistributedOptimizer.  The model   *)
(* has 16-bit parameters, the optimizer their 32-bit copies.  The backward  *)
(* hook of a gradient starts its push_pull; the copy is updated when the    *)
(* answer is polled for: in step() if the script waits there, otherwise     *)
(* before the next forward pass reaches the layer (or earlier, while that   *)
(* pass waits for another layer).  There is no second thread.               *)
(* A gradient is the set of contributions <<worker, step, pass>> in it, or  *)
(* None before the first backward pass of its layer.                        *)
EXTENDS PushPullCore

CONSTANTS Param, backward_passes_per_step, Steps, Root,
    Schedules       \* which layers take part in which step: values of used

Params == Range(Param)
Broadcasts == <<"Parameters", "State">>     \* broadcast_parameters, ..._optimizer_state

None == {<<"None", 0, 0>>}

VARIABLES
    wait_for_finish,    \* the argument with which the script calls step
    used,               \* used[k]: the parameters the passes of step k use
    origin,             \* origin[w]: whose parameters and optimizer state w has
    step, pc, passes, idx,
    handles,            \* self._handles in dict order; a handle is None unless live
    push_pull_delay,
    grad,               \* grad of the 16-bit parameters
    weight              \* the gradients applied; the momentum depends on all of them

choice == <<wait_for_finish, used>>
halfvars == <<choice, origin, step, pc, passes, idx, handles, push_pull_delay, grad, weight,
              core>>

HalfInit ==
    /\ wait_for_finish \in BOOLEAN
    /\ used \in Schedules
    /\ origin = [w \in Worker |-> [t \in Range(Broadcasts) |-> w]]
    /\ step = [w \in Worker |-> 1]
    /\ pc = [w \in Worker |-> "broadcast"]
    /\ passes = [w \in Worker |-> 0]
    /\ idx = [w \in Worker |-> 1]
    /\ handles = [w \in Worker |-> <<>>]
    /\ push_pull_delay = [w \in Worker |-> [p \in Params |-> backward_passes_per_step]]
    /\ grad = [w \in Worker |-> [p \in Params |-> None]]
    /\ weight = [w \in Worker |-> [p \in Params |-> <<>>]]
    /\ CoreInit(Params \cup Range(Broadcasts))

-----------------------------------------------------------------------------
\* "To make it a real broadcast, we set the non-root tensors all 0."
Zero == "zero"
Unfilled(w, t) == origin[w][t]
Filled(w, t) == IF w = Root THEN origin[w][t] ELSE Zero

broadcast(w) ==
    LET t == Broadcasts[idx[w]] IN
    /\ pc[w] = "broadcast" /\ t \notin live[w]
    /\ push_pull_async(w, t, Filled(w, t))
    /\ UNCHANGED <<choice, origin, step, pc, passes, idx, handles, push_pull_delay, grad, weight>>

broadcast_done(w) ==
    LET t == Broadcasts[idx[w]]
        sum == Output(w, t) \ {Zero}
    IN
    /\ pc[w] = "broadcast" /\ t \in live[w] /\ synchronize(w, t)
    /\ origin' = [origin EXCEPT ![w][t] = IF Cardinality(sum) = 1 THEN CHOOSE v \in sum : TRUE
                                          ELSE "mixed"]
    /\ IF idx[w] < Len(Broadcasts)
       THEN idx' = [idx EXCEPT ![w] = @ + 1] /\ UNCHANGED pc
       ELSE idx' = [idx EXCEPT ![w] = 1] /\ pc' = [pc EXCEPT ![w] = "forward"]
    /\ UNCHANGED <<choice, step, passes, handles, push_pull_delay, grad, weight>>

-----------------------------------------------------------------------------
Fired(w) == SelectSeq(Param, LAMBDA p : p \in used[step[w]])
Layers(w) == Reverse(Fired(w))

\* The update of one 32-bit copy, and the gradient of a 16-bit parameter cleared.
_step_one_param(w, p, d_p) == [weight EXCEPT ![w][p] = Append(@, d_p)]
_zero_one_grad(w, p) == [grad EXCEPT ![w][p] = IF @ = None THEN None ELSE {}]

\* _try_to_synchronize with a handle that poll finds done.
Popped(w, p) == SelectSeq(handles[w], LAMBDA q : q # p)
try_to_synchronize(w, p) ==
    /\ p \in live[w] /\ synchronize(w, p)
    /\ push_pull_delay' = [push_pull_delay EXCEPT ![w][p] = backward_passes_per_step]
    /\ grad' = [grad EXCEPT ![w][p] = UNION Output(w, p)]
    /\ weight' = _step_one_param(w, p, UNION Output(w, p))
    /\ handles' = [handles EXCEPT ![w] = Popped(w, p)]

\* A poll of the forward pass.  It raises when the handle is None, which is no number.
polled(w, p) ==
    /\ IF p \in live[w]
       THEN try_to_synchronize(w, p) /\ pc' = [pc EXCEPT ![w] = "forward"]
       ELSE /\ pc' = [pc EXCEPT ![w] = "raised"]
            /\ UNCHANGED <<handles, push_pull_delay, grad, weight, core>>
    /\ UNCHANGED <<choice, origin, step, passes, idx>>

\* The layer's parameter has no handle (any more): the layer is computed, and
\* after_forward_hook clears the gradient.
NotAwaited(w, p) == TRUE
Updated(w, p) == ~Contains(handles[w], p)
forward(w) ==
    LET p == Layers(w)[idx[w]] IN
    /\ pc[w] = "forward" /\ Updated(w, p)
    /\ grad' = _zero_one_grad(w, p)
    /\ IF idx[w] < Len(Layers(w))
       THEN idx' = [idx EXCEPT ![w] = @ + 1] /\ UNCHANGED pc
       ELSE idx' = [idx EXCEPT ![w] = 1] /\ pc' = [pc EXCEPT ![w] = "backward"]
    /\ UNCHANGED <<choice, origin, step, passes, handles, push_pull_delay, weight, core>>

\* pre_forward_hook polls for the layer's own parameter ...
pre_forward_hook(w) ==
    LET p == Layers(w)[idx[w]] IN
    /\ pc[w] = "forward" /\ Contains(handles[w], p)
    /\ \/ polled(w, p)
       \/ /\ p \in live[w] /\ ~Done(p, Len(pushed[w][p]))
          /\ pc' = [pc EXCEPT ![w] = "others"]
          /\ UNCHANGED <<choice, origin, step, passes, idx, handles, push_pull_delay, grad,
                         weight, core>>

\* ... "In order not to waste GPU cycles, we find another handle to synchronize".
others(w) ==
    LET p == Layers(w)[idx[w]] IN
    /\ pc[w] = "others"
    /\ \/ \E other_p \in Range(handles[w]) \ {p} : polled(w, other_p)
       \/ /\ pc' = [pc EXCEPT ![w] = "forward"]
          /\ UNCHANGED <<choice, origin, step, passes, idx, handles, push_pull_delay, grad,
                         weight, core>>

\* byteps_push_pull raises an AttributeError when the parameter has no gradient.
_push_pull_grad_async(w, p, tensor) == tensor # None /\ push_pull_async(w, p, tensor)

\* The backward hook, after the gradient has been accumulated.
hook(w) ==
    LET p == Fired(w)[idx[w]]
        summed == (IF grad[w][p] = None THEN {} ELSE grad[w][p])
                        \cup {<<w, step[w], passes[w] + 1>>}
        over == passes[w] + 1 = backward_passes_per_step
    IN
    /\ pc[w] = "backward"
    /\ grad' = [grad EXCEPT ![w][p] = summed]
    /\ IF push_pull_delay[w][p] > 0
       THEN /\ push_pull_delay' = [push_pull_delay EXCEPT ![w][p] = @ - 1]
            /\ IF push_pull_delay[w][p] = 1 THEN _push_pull_grad_async(w, p, summed)
               ELSE UNCHANGED core
            /\ handles' = [handles EXCEPT ![w] = IF Contains(@, p) THEN @ ELSE Append(@, p)]
            /\ IF idx[w] < Len(Fired(w))
               THEN idx' = [idx EXCEPT ![w] = @ + 1] /\ UNCHANGED <<pc, passes>>
               ELSE /\ idx' = [idx EXCEPT ![w] = 1]
                    /\ pc' = [pc EXCEPT ![w] = IF over THEN "step" ELSE "forward"]
                    /\ passes' = [passes EXCEPT ![w] = IF over THEN 0 ELSE @ + 1]
       ELSE /\ pc' = [pc EXCEPT ![w] = "raised"]
            /\ UNCHANGED <<passes, idx, handles, push_pull_delay, core>>
    /\ UNCHANGED <<choice, origin, step, weight>>

\* _sync_missing_gradients: what no hook noted, then what has no handle yet.
Missing(w) == Params \ Range(handles[w])
NoHandle(w) == SelectSeq(handles[w], LAMBDA p : p \notin live[w])
sync_missing_gradients(w) ==
    /\ pc[w] = "step"
    /\ \E p \in IF Missing(w) # {} THEN Missing(w)
              ELSE {NoHandle(w)[i] : i \in {1} \cap DOMAIN NoHandle(w)} :
        \/ /\ _push_pull_grad_async(w, p, grad[w][p])
           /\ handles' = [handles EXCEPT ![w] = IF Contains(@, p) THEN @ ELSE Append(@, p)]
           /\ UNCHANGED pc
        \/ /\ grad[w][p] = None /\ pc' = [pc EXCEPT ![w] = "raised"]
           /\ UNCHANGED <<handles, core>>
    /\ UNCHANGED <<choice, origin, step, passes, idx, push_pull_delay, grad, weight>>

StepReturns(w) ==
    IF step[w] < Steps
    THEN step' = [step EXCEPT ![w] = @ + 1] /\ pc' = [pc EXCEPT ![w] = "forward"]
    ELSE pc' = [pc EXCEPT ![w] = "finished"] /\ UNCHANGED step
step_call(w) ==
    /\ pc[w] = "step" /\ Missing(w) = {} /\ NoHandle(w) = <<>>
    /\ IF wait_for_finish THEN pc' = [pc EXCEPT ![w] = "wait"] /\ UNCHANGED step
       ELSE StepReturns(w)
    /\ UNCHANGED <<choice, origin, passes, idx, handles, push_pull_delay, grad, weight, core>>

_wait_for_all(w) ==
    /\ pc[w] = "wait"
    /\ \/ /\ \E p \in Range(handles[w]) : try_to_synchronize(w, p)
          /\ UNCHANGED <<step, pc>>
       \/ /\ handles[w] = <<>> /\ StepReturns(w)
          /\ UNCHANGED <<handles, push_pull_delay, grad, weight, core>>
    /\ UNCHANGED <<choice, origin, passes, idx>>

HalfWorker(w) ==
    \/ broadcast(w) \/ broadcast_done(w) \/ forward(w) \/ pre_forward_hook(w) \/ others(w)
    \/ hook(w) \/ sync_missing_gradients(w) \/ step_call(w) \/ _wait_for_all(w)

-----------------------------------------------------------------------------
\* Whether every layer has had a backward pass when step k is over.
AllHaveGradients(k) == \A p \in Params : \E j \in 1..k : p \in used[j]

\* Neither an assertion of the backward hook nor poll raises; step() does, and only
\* when a layer has had no backward pass since the job began.
HookNeverRaises == \A w \in Worker : pc[w] = "raised" => ~AllHaveGradients(step[w])

\* Updates made late, and in any order, are those of synchronous training: the
\* k-th of p is made from what all workers computed for p in step k, and a layer
\* is computed only with the updates of all earlier steps in it.  This is about
\* layers that stay in use: no hook clears the gradient of one that a later pass
\* leaves out, whose last sum is then pushed and applied again.
LateUpdatesAreSynchronous ==
    \A w \in Worker, p \in Params :
        /\ \A k \in DOMAIN weight[w][p] :
            weight[w][p][k] = {<<v, k, b>> : v \in Worker, b \in 1..backward_passes_per_step}
        /\ pc[w] = "backward" /\ p \in used[step[w]] => Len(weight[w][p]) = step[w] - 1

\* Training starts, on every worker, from the root's parameters and optimizer state.
StartsFromRoot ==
    \A w \in Worker : pc[w] # "broadcast" => \A t \in DOMAIN origin[w] : origin[w][t] = Root
=============================================================================
