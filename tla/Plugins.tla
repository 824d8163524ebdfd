------------------------------ MODULE Plugins --------------------------------
(* A training job uses one of the framework plugins over the same core.     *)
EXTENDS PushPullCore

CONSTANTS Param, Styles, Branches, backward_passes_per_step, Steps, LocalNorm,
    Root, SameBranches, Bytes, MIN_COMPRESS,
    HalfPasses, Schedules,          \* of the half-precision optimizer
    Forward, final_step, Momentum,  \* of the cross-barrier optimizer
    Replicas, MergeCalls            \* of the mirrored strategy

\* A pass of the cross-barrier optimizer meets some parameters, each of them once.
ASSUME ForwardAssumption ==
    /\ final_step \in Nat \ {0}
    /\ Forward \in [1..final_step -> Seq(Range(Param)) \ {<<>>}]
    /\ \A k \in 1..final_step : \A i, j \in DOMAIN Forward[k] :
            Forward[k][i] = Forward[k][j] => i = j

\* One of the workers broadcasts; none of them is named like a value of the model.
ASSUME RootAssumption == Root \in Worker /\ {"zero", "mixed"} \cap Worker = {}

\* Every tensor is declared under a name of its own.
ASSUME NamesAssumption ==
    Range(Param) \cap {"buffers", "max_norm", "Parameters", "State"} = {}

\* Loops run at least once.
ASSUME CountsAssumption ==
    {backward_passes_per_step, HalfPasses, Steps, Replicas, MergeCalls} \subseteq Nat \ {0}

\* Sizes are numbers of bytes.
ASSUME BytesAssumption == MIN_COMPRESS \in Nat /\ Bytes \in [Range(Param) -> Nat]

VARIABLES plugin,
    step, pc, passes, idx, handles, grad, weight, used, stage, push_pull_delay,
    compression, style, syncs, max_norm,
    grad_count, buffers, read,
    wait_for_finish, origin,
    opt, locks, param, event_queue, ppc, event, done,
    api, compression_params, optimizer_params, intra_compressor, data,
    mode, dependent, _aggregated_gradients, broadcast_done, value,
    fault, threads, coord

torchonly == <<compression, style, syncs, max_norm>>
ddponly == <<grad_count, buffers, read>>
halfonly == <<wait_for_finish, origin>>
cbonly == <<opt, locks, param, event_queue, ppc, event, done>>
mxonly == <<api, compression_params, optimizer_params, intra_compressor, data>>
tfonly == <<mode, dependent, _aggregated_gradients, broadcast_done, value>>
msonly == <<fault, threads, coord>>
shared == <<step, pc, passes, idx, handles, grad, weight, used, stage, push_pull_delay>>
vars == <<plugin, shared, torchonly, ddponly, halfonly, cbonly, mxonly, tfonly, msonly, core>>

Torch == INSTANCE TorchOptimizer
DDP == INSTANCE TorchDDP
Half == INSTANCE HalfPrecision
            WITH backward_passes_per_step <- HalfPasses
CB == INSTANCE CrossBarrier WITH Param <- Range(Param)
MX == INSTANCE MXNetTrainer WITH Params <- Range(Param)
TF == INSTANCE TFOptimizer WITH Vars <- Param
MS == INSTANCE MirroredStrategy

\* The variables of the plugins that are not imported.
Unused == "unused"
NoTorch == compression = Unused /\ style = Unused /\ syncs = Unused /\ max_norm = Unused
NoDDP == grad_count = Unused /\ buffers = Unused /\ read = Unused
NoHalf == wait_for_finish = Unused /\ origin = Unused
NoCB == opt = Unused /\ locks = Unused /\ param = Unused /\ event_queue = Unused
        /\ ppc = Unused /\ event = Unused /\ done = Unused
NoMX == api = Unused /\ compression_params = Unused /\ optimizer_params = Unused
        /\ intra_compressor = Unused /\ data = Unused
NoTF == mode = Unused /\ dependent = Unused /\ _aggregated_gradients = Unused
        /\ broadcast_done = Unused
NoMS == fault = Unused /\ threads = Unused /\ coord = Unused
NoTorchLoop == passes = Unused /\ idx = Unused /\ handles = Unused /\ used = Unused
               /\ push_pull_delay = Unused

Init ==
    \/ /\ plugin = "torch" /\ Torch!TorchInit /\ stage = Unused
       /\ NoDDP /\ NoHalf /\ NoCB /\ NoMX /\ NoTF /\ NoMS /\ value = Unused
    \/ /\ plugin = "ddp" /\ DDP!DDPInit /\ stage = Unused /\ push_pull_delay = Unused
       /\ NoTorch /\ NoHalf /\ NoCB /\ NoMX /\ NoTF /\ NoMS /\ value = Unused
    \/ /\ plugin = "half" /\ Half!HalfInit /\ stage = Unused
       /\ NoTorch /\ NoDDP /\ NoCB /\ NoMX /\ NoTF /\ NoMS /\ value = Unused
    \/ /\ plugin = "cross_barrier" /\ CB!Init
       /\ passes = Unused /\ weight = Unused /\ used = Unused /\ stage = Unused
       /\ live = Unused
       /\ NoTorch /\ NoDDP /\ NoHalf /\ NoMX /\ NoTF /\ NoMS /\ value = Unused
    \/ /\ plugin = "mxnet" /\ MX!MXInit /\ pc = Unused
       /\ NoTorch /\ NoDDP /\ NoHalf /\ NoCB /\ NoTF /\ NoMS /\ value = Unused /\ NoTorchLoop
    \/ /\ plugin = "tensorflow" /\ TF!TFInit /\ weight = Unused
       /\ NoTorch /\ NoDDP /\ NoHalf /\ NoCB /\ NoMX /\ NoMS /\ NoTorchLoop
    \/ /\ plugin = "mirrored" /\ MS!MSInit
       /\ passes = Unused /\ handles = Unused /\ grad = Unused /\ weight = Unused
       /\ used = Unused /\ stage = Unused /\ push_pull_delay = Unused
       /\ NoTorch /\ NoDDP /\ NoHalf /\ NoCB /\ NoMX /\ NoTF

TorchRuns(w) ==
    /\ plugin = "torch" /\ Torch!TorchWorker(w)
    /\ UNCHANGED <<plugin, stage, ddponly, halfonly, cbonly, mxonly, tfonly, msonly>>
DDPRuns(w) ==
    /\ plugin = "ddp" /\ DDP!DDPWorker(w)
    /\ UNCHANGED <<plugin, stage, push_pull_delay, torchonly, halfonly, cbonly, mxonly, tfonly, msonly>>
HalfRuns(w) ==
    /\ plugin = "half" /\ Half!HalfWorker(w)
    /\ UNCHANGED <<plugin, stage, torchonly, ddponly, cbonly, mxonly, tfonly, msonly>>
MXRuns(w) ==
    /\ plugin = "mxnet" /\ MX!MXWorker(w)
    /\ UNCHANGED <<plugin, pc, passes, idx, handles, used, push_pull_delay,
                   torchonly, ddponly, halfonly, cbonly, tfonly, msonly>>
TFRuns(w) ==
    /\ plugin = "tensorflow" /\ TF!TFWorker(w)
    /\ UNCHANGED <<plugin, passes, idx, handles, used, weight, push_pull_delay,
                   torchonly, ddponly, halfonly, cbonly, mxonly, msonly>>
\* The cross-barrier optimizer has two threads, and the core answers as a third.
OthersOfCB == <<plugin, passes, weight, used, stage, live,
                torchonly, ddponly, halfonly, mxonly, tfonly, msonly>>
CBMain(w) == plugin = "cross_barrier" /\ CB!Main(w) /\ UNCHANGED OthersOfCB
CBPoller(w) == plugin = "cross_barrier" /\ CB!Poller(w) /\ UNCHANGED OthersOfCB
CBCore(w, p) == plugin = "cross_barrier" /\ CB!MarkDone(w, p) /\ UNCHANGED OthersOfCB

\* The mirrored strategy has a main thread and one per replica.
OthersOfMS == <<plugin, passes, handles, grad, weight, used, stage, push_pull_delay,
                torchonly, ddponly, halfonly, cbonly, mxonly,
                mode, dependent, _aggregated_gradients, broadcast_done>>
MSMain(w) == plugin = "mirrored" /\ MS!MainThread(w) /\ UNCHANGED OthersOfMS
MSReplica(w, r) == plugin = "mirrored" /\ MS!ReplicaThread(w, r) /\ UNCHANGED OthersOfMS

Runs(w) == TorchRuns(w) \/ DDPRuns(w) \/ HalfRuns(w) \/ CBMain(w) \/ MXRuns(w) \/ TFRuns(w)
           \/ MSMain(w)
Next == \E w \in Worker :
    \/ Runs(w) \/ CBPoller(w) \/ \E p \in Range(Param) : CBCore(w, p)
    \/ \E r \in 1..Replicas : MSReplica(w, r)

\* All threads are ordinary OS threads; the core answers every operation that
\* all workers have started.
Fairness ==
    \A w \in Worker :
        /\ WF_vars(Runs(w)) /\ WF_vars(CBPoller(w))
        /\ \A p \in Range(Param) : WF_vars(CBCore(w, p))
        /\ \A r \in 1..Replicas : WF_vars(MSReplica(w, r))

Spec == Init /\ [][Next]_vars /\ Fairness

-----------------------------------------------------------------------------
\* What PyTorch's DistributedOptimizer and DistributedDataParallel apply in a step
\* is, on every worker, the average of all passes of all workers, for every way to
\* communicate and every choice of layers.
AppliedIsAverage ==
    /\ plugin = "torch" => Torch!AppliedIsAverage
    /\ plugin = "ddp" => DDP!AppliedIsAllReduced

\* No assertion in a backward hook fires, in torch/__init__.py, in
\* misc/imagenet18 or (delays reset by another thread) in cross_barrier.py.
HookNeverRaises ==
    /\ plugin = "torch" => Torch!HookNeverRaises
    /\ plugin = "half" => Half!HookNeverRaises
    /\ plugin = "cross_barrier" => CB!HookNeverRaises

\* synchronize() leaves no operation of torch/__init__.py running, and in
\* parallel/distributed.py the core's grad_count_ agrees with the handles.
HandlesAccountedFor ==
    /\ plugin = "torch" => Torch!NoHandleOutlivesSynchronize
    /\ plugin = "ddp" => DDP!GroupCountIsExact

\* Cross barrier: a parameter's lock is held exactly while it is in flight, and
\* the forward pass reads no parameter that is being updated.
ForwardReadsUpdated ==
    plugin = "cross_barrier" => CB!LockHeldWhileInFlight /\ CB!ForwardReadsUpdated

\* Updates made behind the next forward pass, by the poller of cross_barrier.py or
\* whenever a poll of misc/imagenet18 succeeds, are those of synchronous training.
UpdatesAreSynchronous ==
    /\ plugin = "cross_barrier" => CB!UpdatesAreSynchronous
    /\ plugin = "half" => Half!LateUpdatesAreSynchronous

\* The root's parameters, optimizer state and buffers are on all workers before
\* they are used: in misc/imagenet18 for training, in MXNet for the first update
\* of each parameter, in DistributedDataParallel for every forward pass.
StartsFromRoot ==
    /\ plugin = "half" => Half!StartsFromRoot
    /\ plugin = "mxnet" => MX!UpdatesStartFromRoot
    /\ plugin = "ddp" => DDP!ForwardStartsFromRank0

\* MXNet's DistributedTrainer applies momentum and weight decay exactly once.
UpdatedOnceWithEverything == plugin = "mxnet" => MX!UpdatedOnceWithEverything

\* TensorFlow's replicas are equal from the broadcast on; those of the mirrored
\* strategy on the devices of a worker always are, each merge taking one call's
\* arguments from all replicas of all workers.
ReplicasAgree ==
    /\ plugin = "tensorflow" => TF!ReplicasAgree
    /\ plugin = "mirrored" => MS!MergedFromOneCall /\ MS!MirroredCopiesAgree

\* With running workers every job gets through all its steps: no plugin makes
\* one worker wait for an operation that another never starts, or for a lock
\* that its other thread keeps.  In misc/imagenet18 all workers raise instead, and
\* none is left waiting, when the first step does not use all the layers.
TrainingFinishes ==
    <>(CASE plugin = "mxnet" -> \A w \in Worker, p \in Range(Param) : stage[w][p] = "finished"
         [] plugin = "half" /\ ~Half!AllHaveGradients(1) -> \A w \in Worker : pc[w] = "raised"
         [] OTHER -> \A w \in Worker : pc[w] = "finished")
=============================================================================
