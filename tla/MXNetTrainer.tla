---------------------------- MODULE MXNetTrainer -----------------------------
(* byteps/mxnet/__init__.py and compression.py: gluon's DistributedTrainer  *)
(* (api "gluon"), and DistributedOptimizer with broadcast_parameters in the *)
(* synchronous training of a Module ("module").  MXNet runs the operations  *)
(* of a step on its engine, which orders them per array and lets arrays     *)
(* overtake one another; the next step's forward reads all parameters.      *)
(* With compression_params the momentum of the optimizer moves into the     *)
(* compressors: the core applies it to gradients it compresses, NagAdapter  *)
(* to the others.  An update is recorded with the contributions <<worker,   *)
(* step>> in its gradient and the places that applied momentum and weight   *)
(* decay.                                                                   *)
EXTENDS PushPullCore

CONSTANTS Params,
    Root,           \* root_rank
    Bytes,          \* 4 * number of elements of every parameter
    MIN_COMPRESS,   \* BYTEPS_MIN_COMPRESS_BYTES, read by Python and by the core
    Steps

VARIABLES
    api,
    compression_params, \* [compressor |-> ..., momentum |-> ...]
    optimizer_params,   \* what _register_compressor leaves to the optimizer
    intra_compressor,   \* the adapters around the gradient
    stage,              \* stage[w][p]: where the engine is with p
    step, grad, data, weight

mxvars == <<api, compression_params, optimizer_params, intra_compressor, stage, step, grad,
            data, weight, core>>
choice == <<api, compression_params, optimizer_params, intra_compressor>>

GradientOf(p) == <<"gradient", p>>
ParameterOf(p) == <<"parameter", p>>

\* _register_compressor: wd moves into WeightDecayMomentumAdapter for onebit,
\* momentum into the core's compressor and NagAdapter.
Moved(c) == c.compressor # "none" /\ c.momentum
Remaining(c) ==
    {"momentum", "wd"} \ ((IF Moved(c) THEN {"momentum"} ELSE {})
                          \cup (IF Moved(c) /\ c.compressor = "onebit" THEN {"wd"} ELSE {}))
Adapters(c) ==
    (IF Moved(c) THEN {"nag"} ELSE {})
        \cup (IF Moved(c) /\ c.compressor = "onebit" THEN {"wdmom"} ELSE {})

MXInit ==
    /\ \/ /\ api = "gluon"
          /\ compression_params \in
                [compressor : {"none", "onebit", "topk"}, momentum : BOOLEAN]
       \/ /\ api = "module"
          /\ compression_params = [compressor |-> "none", momentum |-> FALSE]
    /\ optimizer_params = Remaining(compression_params)
    /\ intra_compressor = Adapters(compression_params)
    /\ stage = [w \in Worker |-> [p \in Params |-> "ready"]]
    /\ step = [w \in Worker |-> 1]
    /\ grad = [w \in Worker |-> [p \in Params |-> [from |-> {}, by |-> <<>>]]]
    /\ data = [w \in Worker |-> [p \in Params |-> w]]
    /\ weight = [w \in Worker |-> [p \in Params |-> <<>>]]
    /\ CoreInit({GradientOf(p) : p \in Params} \cup {ParameterOf(p) : p \in Params})

-----------------------------------------------------------------------------
Zero == "zero"
At(w, p, from, to) ==
    stage[w][p] = from /\ stage' = [stage EXCEPT ![w][p] = to]

\* All but the root push zeros, so that the sum is what the root has.
RootOrZero(w) ==
    [n \in {ParameterOf(p) : p \in Params} |-> IF w = Root THEN data[w][n[2]] ELSE Zero]

\* _init_params: gluon's Trainer.step calls it in the first step, when the first
\* gradients exist, and with them every parameter (none is _deferred_init any more).  The engine orders it before what uses the parameter next,
\* the update, not before the gradient's push_pull.
_init_params(w) ==
    /\ api = "gluon"
    /\ \A p \in Params : stage[w][p] # "ready" /\ pushed[w][ParameterOf(p)] = <<>>
    /\ push_pull_all(w, {ParameterOf(p) : p \in Params}, RootOrZero(w))
    /\ UNCHANGED <<choice, stage, step, grad, data, weight>>

\* broadcast_parameters of a Module: before the training, which waits for it.
broadcast_parameters(w) ==
    /\ api = "module"
    /\ \A p \in Params : stage[w][p] = "ready" /\ pushed[w][ParameterOf(p)] = <<>>
    /\ push_pull_all(w, {ParameterOf(p) : p \in Params}, RootOrZero(w))
    /\ UNCHANGED <<choice, stage, step, grad, data, weight>>

init_done(w, p) ==
    /\ ParameterOf(p) \in live[w] /\ synchronize(w, ParameterOf(p))
    /\ data' = [data EXCEPT ![w][p] = CHOOSE d \in Output(w, ParameterOf(p)) : d # Zero]
    /\ UNCHANGED <<choice, stage, step, grad, weight>>

NeverWaits(w, p) == TRUE
InitOrdered(w, p) == pushed[w][ParameterOf(p)] # <<>> /\ ParameterOf(p) \notin live[w]

\* The core keeps compressor and momentum for a tensor that is large enough.
CoreCompresses(p) == compression_params.compressor # "none" /\ Bytes[p] >= MIN_COMPRESS
CoreMomentum(p) == IF CoreCompresses(p) /\ compression_params.momentum
                   THEN <<"momentum">> ELSE <<>>

\* WeightDecayMomentumAdapter.decompress, and NagAdapter.decompress, which wraps it.
nag_also_at_threshold(p) == IF "nag" \in intra_compressor /\ Bytes[p] <= MIN_COMPRESS
                            THEN <<"momentum">> ELSE <<>>
nag_decompress(p) == IF "nag" \in intra_compressor /\ Bytes[p] < MIN_COMPRESS
                     THEN <<"momentum">> ELSE <<>>
wdmom_decompress(p) == IF "wdmom" \in intra_compressor THEN <<"wd">> ELSE <<>>

\* The forward pass reads all parameters, after the updates of the last step.
backward(w) ==
    /\ \A p \in Params : stage[w][p] = "ready"
    /\ api = "module" => \A p \in Params : InitOrdered(w, p)     \* wait_to_read
    /\ stage' = [stage EXCEPT ![w] = [p \in Params |-> "allreduce"]]
    /\ grad' = [grad EXCEPT ![w] = [p \in Params |-> [from |-> {<<w, step[w]>>}, by |-> <<>>]]]
    /\ UNCHANGED <<choice, step, data, weight, core>>

\* _allreduce_grads for one parameter, up to the push_pull.
_allreduce_grads(w, p) ==
    /\ api = "gluon"
    /\ At(w, p, "allreduce", "grad_wait") /\ pushed[w][ParameterOf(p)] # <<>>
    /\ push_pull_async(w, GradientOf(p), [grad[w][p] EXCEPT !.by = @ \o CoreMomentum(p)])
    /\ UNCHANGED <<choice, step, grad, data, weight>>

\* DistributedOptimizer.update: the gradient's push_pull, and then the update below.
_do_push_pull(w, p) ==
    /\ api = "module" /\ At(w, p, "allreduce", "grad_wait")
    /\ push_pull_async(w, GradientOf(p), grad[w][p])
    /\ UNCHANGED <<choice, step, grad, data, weight>>

\* What follows the push_pull: gluon's decompress, in which the adapters work.
decompress(w, p) ==
    LET sum == Output(w, GradientOf(p)) IN
    /\ At(w, p, "grad_wait", "update") /\ synchronize(w, GradientOf(p))
    /\ grad' = [grad EXCEPT ![w][p] =
            [from |-> UNION {g.from : g \in sum},
             by |-> (CHOOSE g \in sum : TRUE).by \o wdmom_decompress(p) \o nag_decompress(p)]]
    /\ UNCHANGED <<choice, step, data, weight>>

\* The optimizer's update, with the momentum and wd it still has.
Own(o) == (IF "momentum" \in o THEN <<"momentum">> ELSE <<>>)
            \o (IF "wd" \in o THEN <<"wd">> ELSE <<>>)
update(w, p) ==
    /\ At(w, p, "update", IF step[w] < Steps THEN "ready" ELSE "finished")
    /\ InitOrdered(w, p)
    /\ weight' = [weight EXCEPT ![w][p] =
            Append(@, [grad[w][p] EXCEPT !.by = @ \o Own(optimizer_params)])]
    /\ step' = [step EXCEPT ![w] =
            IF @ < Steps /\ \A q \in Params \ {p} : stage[w][q] = "ready" THEN @ + 1 ELSE @]
    /\ UNCHANGED <<choice, grad, data, core>>

MXWorker(w) ==
    \/ backward(w) \/ _init_params(w) \/ broadcast_parameters(w)
    \/ \E p \in Params :
        \/ init_done(w, p)
        \/ _allreduce_grads(w, p) \/ _do_push_pull(w, p) \/ decompress(w, p) \/ update(w, p)
MXNext == \E w \in Worker : MXWorker(w)

-----------------------------------------------------------------------------
\* Whatever is compressed and wherever the sizes lie: every update contains
\* momentum exactly once and weight decay exactly once, in the core, in an
\* adapter or in the optimizer ("delete some items in `optimizer_params` to
\* avoid duplication"), and the gradients of all workers of that step.
UpdatedOnceWithEverything ==
    \A w \in Worker, p \in Params : \A k \in 1..Len(weight[w][p]) :
        LET u == weight[w][p][k] IN
        /\ u.from = {<<v, k>> : v \in Worker}
        /\ u.by \in {<<"momentum", "wd">>, <<"wd", "momentum">>}

\* "DistributedTrainer will broadcast all parameters at the first training step":
\* no update is applied to a parameter that is not yet the root's, where the
\* broadcast would overwrite it.
UpdatesStartFromRoot ==
    \A w \in Worker, p \in Params : weight[w][p] # <<>> => data[w][p] = Root
=============================================================================
