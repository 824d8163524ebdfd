------------------------------ MODULE TorchDDP -------------------------------
(* byteps/torch/parallel/distributed.py: DistributedDataParallel.  The hook *)
(* of every gradient starts its push_pull at once and counts it in the      *)
(* core's grad_count_; the hook that brings the count to num_grads waits    *)
(* for all of them.  A training script whose model has branches also calls  *)
(* model.synchronize() after backward, as the class's docstring requires.   *)
(* backward_passes_per_step - 1 passes of a step run under no_sync().       *)
EXTENDS PushPullCore

CONSTANTS Param, Branches, backward_passes_per_step, Steps,
    Root,           \* the worker of rank 0
    SameBranches    \* all workers take the same branch in the same step

Params == Range(Param)
Buffers == "buffers"        \* the tensors of named_buffers()

VARIABLES
    used,           \* used[w][k]: the parameters w's forward uses in step k
    step, pc, passes, idx, handles, grad, weight,
    grad_count,     \* grad_count_ of the core (ops.cc)
    buffers,        \* buffers[w]: the forward pass that last wrote them
    read            \* read[w]: the buffers w's last forward started from

ddpvars == <<used, step, pc, passes, idx, handles, grad, weight, grad_count, buffers, read,
             core>>

DDPInit ==
    /\ used \in [Worker -> [1..Steps -> Branches]]
    /\ SameBranches => \A v, w \in Worker : used[v] = used[w]
    /\ step = [w \in Worker |-> 1]
    /\ pc = [w \in Worker |-> "forward"]
    /\ passes = [w \in Worker |-> 0]
    /\ idx = [w \in Worker |-> 1]
    /\ handles = [w \in Worker |-> <<>>]
    /\ grad = [w \in Worker |-> [p \in Params |-> {}]]
    /\ weight = [w \in Worker |-> [p \in Params |-> <<>>]]
    /\ grad_count = [w \in Worker |-> 0]
    /\ buffers = [w \in Worker |-> <<w, 0, 0>>]
    /\ read = [w \in Worker |-> <<w, 0, 0>>]
    /\ CoreInit(Params \cup {Buffers})

num_grads == Len(Param)
Pass(w) == <<w, step[w], passes[w] + 1>>

-----------------------------------------------------------------------------
\* broadcast_parameters(named_buffers): all but rank 0 push zeros.
Zero == <<"zero", 0, 0>>
PushAsIs(w) == buffers[w]
FilledWithZero(w) == IF w = Root THEN buffers[w] ELSE Zero

\* The script zeroes the gradients before the first pass of a step.
_sync_params(w) ==
    /\ pc[w] = "forward"
    /\ grad' = [grad EXCEPT ![w] = IF passes[w] = 0 THEN [p \in Params |-> {}] ELSE @]
    /\ push_pull_async(w, Buffers, FilledWithZero(w))
    /\ pc' = [pc EXCEPT ![w] = "buffers"]
    /\ UNCHANGED <<used, step, passes, idx, handles, weight, grad_count, buffers, read>>

\* The sum of the pushed buffers, then the forward pass, which rewrites them.
forward(w) ==
    LET sum == Output(w, Buffers) \ {Zero} IN
    /\ pc[w] = "buffers" /\ synchronize(w, Buffers)
    /\ read' = [read EXCEPT ![w] = IF Cardinality(sum) = 1 THEN CHOOSE b \in sum : TRUE
                                   ELSE <<"mixed", 0, 0>>]
    /\ buffers' = [buffers EXCEPT ![w] = Pass(w)]
    /\ pc' = [pc EXCEPT ![w] = "backward"]
    /\ idx' = [idx EXCEPT ![w] = 1]
    /\ UNCHANGED <<used, step, passes, handles, grad, weight, grad_count>>

\* DoPushPullGroupSync counts the call and starts over at num_grads.
CountsOn(n) == n + 1
Counted(n) == IF n + 1 = num_grads THEN 0 ELSE n + 1

\* The hook runs when the gradient has been accumulated, not before.
BeforeAccumulation(w, p) == grad[w][p]
Accumulated(w, p) == grad[w][p] \cup {Pass(w)}

Fired(w) == SelectSeq(Param, LAMBDA p : p \in used[w][step[w]])
require_backward_grad_sync(w) == passes[w] + 1 = backward_passes_per_step

\* pc after a hook: the group is complete, the pass is over, or the next hook.
AfterHook(w) ==
    IF require_backward_grad_sync(w) /\ grad_count[w] + 1 = num_grads THEN "wait_in_hook"
    ELSE IF idx[w] < Len(Fired(w)) THEN "backward" ELSE "pass_over"

hook(w) ==
    /\ pc[w] = "backward"
    /\ \E p \in Params :
        /\ p = Fired(w)[idx[w]]
        /\ grad' = [grad EXCEPT ![w][p] = @ \cup {Pass(w)}]
        /\ IF require_backward_grad_sync(w)
           THEN /\ push_pull_async(w, p, Accumulated(w, p))
                /\ grad_count' = [grad_count EXCEPT ![w] = Counted(@)]
                /\ handles' = [handles EXCEPT ![w] = Append(SelectSeq(@, LAMBDA q : q # p), p)]
           ELSE UNCHANGED <<core, grad_count, handles>>
    /\ pc' = [pc EXCEPT ![w] = AfterHook(w)]
    /\ idx' = [idx EXCEPT ![w] = @ + 1]
    /\ UNCHANGED <<used, step, passes, weight, buffers, read>>

\* loss.backward() returns; after the last pass the script calls synchronize().
PassOver(w) ==
    /\ pc[w] = "pass_over"
    /\ IF require_backward_grad_sync(w)
       THEN pc' = [pc EXCEPT ![w] = "synchronize"] /\ UNCHANGED passes
       ELSE pc' = [pc EXCEPT ![w] = "forward"] /\ passes' = [passes EXCEPT ![w] = @ + 1]
    /\ UNCHANGED <<used, step, idx, handles, grad, weight, grad_count, buffers, read, core>>

\* synchronize pushes what no hook pushed, one missing parameter after the other.
Missing(w) == Params \ Range(handles[w])
PushMissing(w) ==
    /\ pc[w] = "synchronize"
    /\ \E p \in Missing(w) :
        /\ push_pull_async(w, p, grad[w][p])
        /\ grad_count' = [grad_count EXCEPT ![w] = Counted(@)]
        /\ handles' = [handles EXCEPT ![w] = Append(@, p)]
    /\ UNCHANGED <<used, step, pc, passes, idx, grad, weight, buffers, read>>

\* ... and waits for all handles, inside the last hook or called by the script.
AllArrived(w, ready) ==
    /\ ready
    /\ \A p \in Range(handles[w]) : Done(p, Len(pushed[w][p]))
    /\ grad' = [grad EXCEPT ![w] = [p \in Params |->
            IF p \in Range(handles[w]) THEN UNION Output(w, p) ELSE @[p]]]
    /\ live' = [live EXCEPT ![w] = @ \ Range(handles[w])]
    /\ handles' = [handles EXCEPT ![w] = <<>>]
    /\ UNCHANGED <<pushed, used, step, passes, idx, weight, grad_count, buffers, read>>

synchronize_in_hook(w) ==
    /\ AllArrived(w, pc[w] = "wait_in_hook")
    /\ pc' = [pc EXCEPT ![w] = IF idx[w] <= Len(Fired(w)) THEN "backward" ELSE "pass_over"]

synchronize_call(w) ==
    /\ AllArrived(w, pc[w] = "synchronize" /\ Missing(w) = {})
    /\ pc' = [pc EXCEPT ![w] = "step"]

Step(w) ==
    /\ pc[w] = "step"
    /\ weight' = [weight EXCEPT ![w] = [p \in Params |-> Append(@[p], grad[w][p])]]
    /\ passes' = [passes EXCEPT ![w] = 0]
    /\ IF step[w] < Steps
       THEN step' = [step EXCEPT ![w] = @ + 1] /\ pc' = [pc EXCEPT ![w] = "forward"]
       ELSE pc' = [pc EXCEPT ![w] = "finished"] /\ UNCHANGED step
    /\ UNCHANGED <<used, idx, handles, grad, grad_count, buffers, read, core>>

DDPWorker(w) ==
    \/ _sync_params(w) \/ forward(w) \/ hook(w) \/ PassOver(w) \/ PushMissing(w)
    \/ synchronize_in_hook(w) \/ synchronize_call(w) \/ Step(w)

DDPNext == \E w \in Worker : DDPWorker(w)

-----------------------------------------------------------------------------
\* The docstring: "The module performs an all-reduce step on gradients".  The
\* k-th update of a parameter holds what every worker that used it in step k
\* computed in all passes of that step, and nothing of another step.
AppliedIsAllReduced ==
    \A w \in Worker, p \in Params : \A k \in 1..Len(weight[w][p]) :
        weight[w][p][k] = {<<v, k, b>> : v \in {u \in Worker : p \in used[u][k]},
                                         b \in 1..backward_passes_per_step}

\* The core's counter counts exactly the handles of the group in progress: a
\* hook neither waits early nor misses that it was the last.
GroupCountIsExact ==
    \A w \in Worker : grad_count[w] = Len(handles[w]) % num_grads

\* "Buffers (e.g. BatchNorm stats) are broadcast from the module in rank 0 to
\* all other replicas in the system in every iteration": a forward pass starts
\* from what rank 0's previous one left.
ForwardStartsFromRank0 ==
    \A w \in Worker : pc[w] = "backward" =>
        read[w] = IF passes[w] > 0 THEN <<Root, step[w], passes[w]>>
                  ELSE IF step[w] > 1 THEN <<Root, step[w] - 1, backward_passes_per_step>>
                  ELSE <<Root, 0, 0>>
=============================================================================
