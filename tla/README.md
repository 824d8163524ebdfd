# INCA: in-network aggregation, specified and checked

INCA trains a model on several workers and sums their gradients on the way
through the network. This directory holds TLA+ specifications of its protocol
core, of the framework plugins, the training scripts and the launcher above it,
the TLC runs that check them on small instances, and TLAPS proofs, for every
instance, of the safety properties of the core, of both aggregators, of the
launcher and of what the plugins promise about updates and copies.

## 1. The system

| Part | Source | State | Operations |
|---|---|---|---|
| DPDK client | `common/dpdk/client/dpdk_manager.cc` | job queue, per-slot round / ready flag / key, tables from packet key to task, part counters, finished tasks, norm table | `DPDKPushPull`, `TxThread`, `RxThread`, `Reset`, `PollFinishKey`, `CommunicateNorm` |
| Software parameter server | `common/dpdk/server/ParameterServer.cc` | per slot: round, packet count, bitmap, largest norm, sum | `RxThread`, `process_data`, `broadcast_packet` |
| DPDK loops | `common/core_loops.cc` | `DPDKTask` table, timer | `DPDKListenerLoop`, `DPDKResetLoop`, push loop |
| Switch | `P4/*.p4` | registers like the server's, four slots per packet | aggregation with recirculation; or plain forwarding and multicast for the software server |
| Switch control plane | `P4/control.py`, `P4/setup_ports.py` | table entries | installed once |
| Worker pipeline | `common/core_loops.cc`, `scheduled_queue.cc`, `ready_table.cc`, `operations.cc` | a queue per stage, credits, ready counts | stage loops, `FinishOrProceed`, `EnqueueTensor` |
| Local coordination | `communicator.cc`, `nccl_manager.cc` | sockets, NCCL groups | signals between root and non-root processes |
| BytePS server | `byteps/server/*` | store, update buffers, pending pulls, engine queues | push/pull handler, engine threads |
| Compressors, reducers | `common/compressor`, `cpu_reducer.cc`, `gpu_compressor` | numeric buffers | kernels |
| PyTorch plugin | `torch/`, `misc/imagenet18` | handles, delay counters, gradients, locks, event queue | hooks, `synchronize`, `step`, broadcasts, poller thread |
| MXNet plugin | `mxnet/` | parameters, compression settings, adapters | `_init_params`, `_allreduce_grads`, `step` |
| TensorFlow and Keras plugin | `tensorflow/`, `_keras/` | variables, gradients, callback state, replica threads | `compute_gradients`, `apply_gradients`, broadcast, schedules, `merge_call` |
| Training scripts | `example/` | position in the data, model, checkpoints on disk | set-up, epochs, saves, resumes |
| Launcher | `launcher/` | core lists, threads, processes | `start_ssh`, `launch_bps`, `allocate_cpu`, join |
| ps-lite, build script | `3rdparty`, `setup.py` | - | vendored transport, compilation |

How they interact. The push loop hands a task (one partition of a tensor) to
`DPDKPushPull`, which cuts it into packets, gives each a key from a counter and
queues it. Key `k` goes through aggregator slot `k % MAX_AGTR_COUNT`. `TxThread`
takes the head of the queue when its slot is free, stamps the packet with the
slot's round and sends it. The server adds up the packets of a slot and round
and, when it has counted one per worker, broadcasts the sum. `RxThread` accepts
a reply when its round is the slot's, frees the slot, advances its round and
counts the part; the last part puts the task in `finishKeys`, from where
`DPDKListenerLoop` moves it on. After ten seconds without a completed task
`Reset` frees all occupied slots as if they had been answered; nothing is ever
resent. `CommunicateNorm` sends one norm through a slot of its own range and
busy-waits for the maximum over the workers.

What is hard about it:

* the server matches packets by slot and round only, and each worker advances
  its rounds on its own, by replies or by timeouts. That gradients of different
  tensors never meet in one sum is nobody's check; it follows from all workers
  drawing keys in one order (section 4);
* late packets and replies of rounds that have been given up;
* one task, many parts, some answered and some timed out;
* head-of-line blocking in `TxThread`, released only by `Reset`;
* `RxThread` runs without the locks the other threads use.

Above the core. A plugin hands named tensors to the core and waits for the sums;
the n-th operation of a name on one worker meets the n-th of that name on the
others. Everything else is up to Python code that runs on each worker on its
own: when hooks push, in which order, when gradients are divided and cleared,
what is broadcast when. A training script adds checkpoints, of which each node
may have its own, and a restart begins with whatever the disks hold. What is hard:

* late updates: cross barrier and half precision update parameters while the next
  forward pass runs;
* operations that are skipped (a layer without gradient, an optimizer with state,
  a callback that has run) on one worker and not on another;
* momentum and weight decay that are taken from one place and applied in another;
* a crash between two saves, and a restart in the middle of an epoch;
* threads that hand control to each other through events and joins.

`PROJECT.json` lists the hazards with the lines where they bite.

### The builds that are modelled

`IncaSystem`, `IncaThreads` and `NormExchange`: `USE_INCA` with `SW_PS` (the software server; the switch forwards and
multicasts), `DEFAULT_PUSHPULL_INFO`, `SEND_BURST_SIZE` 1, one receive ring;
`NEW_INCA`, `IP_HDR`, `USE_EXPECTED_KEY` and `USE_TX_THREAD` off as in the
repository. `NO_CPUBUFF_COPY` is a constant of the model: `common/common.h`
defines it at this commit, and then `RxThread` never copies a sum to the tensor.
The theorems hold for both builds, the runs use the one that copies.
`SwitchSystem`: the same without `SW_PS`, so that the switch aggregates.

## 2. The modules

| Module | Models |
|---|---|
| `Packets` | workers and packet commands |
| `ParameterServer` | the server's slot arrays and what one packet does to them |
| `DPDKManager` | the client with its two loops; one action per critical section or handler |
| `IncaSystem` | clients, server and network composed; the properties |
| `ClientInvariant` | the part of the inductive invariants that is about the client, whoever aggregates |
| `IncaInvariant`, `FinishInvariant`, `NormInvariant`, `SwitchInvariant` | the inductive invariants of `IncaSystem` (two), `NormExchange` and `SwitchSystem` |
| `IncaThreads` | `IncaSystem` with `RxThread` split into its memory accesses |
| `P4Switch` | the switch's registers and what one pass of a packet does to them |
| `SwitchSystem` | clients, switch and network composed |
| `MaxAllReduce` | abstract: an all-reduce of the maximum |
| `NormExchange` | `CommunicateNorm`, the norm branch of `RxThread`, server, network |
| `PushPullCore` | what plugins see of the core: named operations, matched by name and count |
| `TorchOptimizer` | PyTorch's `DistributedOptimizer`, with INCA compression, without, and with norms through the core |
| `TorchDDP` | `DistributedDataParallel`: grouped operations, buffers, `no_sync` |
| `CrossBarrier` | the cross-barrier optimizer: main thread, poller, core |
| `HalfPrecision` | the half-precision optimizer of `misc/imagenet18` |
| `MXNetTrainer` | Gluon's `DistributedTrainer` and the module API's `DistributedOptimizer` |
| `TFOptimizer` | TensorFlow sessions, Keras, gradient tapes; broadcast hook and callback |
| `MirroredStrategy` | the replica threads of `tensorflow/distribute` and the merge calls |
| `Plugins` | a job that uses one of these over `PushPullCore`; the properties |
| `LearningRate` | the Keras callbacks for warm-up and schedules, and the scripts' own function |
| `TorchScripts`, `JobScripts` | 32 example scripts as the steps by which workers meet or use a disk: PyTorch; MXNet, Keras, TensorFlow |
| `TrainingJob` | a job that runs a script on several workers, is killed and restarted |
| `CpuAllocation` | `allocate_cpu` and `parse_num_range`, as functions |
| `Launcher` | `dist_launcher` and `launch` on all hosts, and the processes they start |
| `ClientProofs` | lemmas shared by the proofs: wrapping counters, the actions of the client |
| `IncaProofs`, `ThreadProofs`, `NormProofs`, `SwitchProofs`, `LauncherProofs` | theorems and proofs about the system of their name |
| `ReplicaProofs`, `PluginProofs` | theorems about `Plugins`: that TensorFlow's copies stay equal (and lemmas about DDP's buffers); what updates hold, when they are read and what training starts from |
| `MCIncaSystem`, `MCIncaThreads`, `MCNormExchange`, `MCSwitchSystem`, `MCPlugins`, `MCTrainingJob`, `MCLauncher` | instances for TLC |

### State

Variables keep the names of the code's arrays; those of the client are functions
of the worker. A vector is abstracted to whose gradients it is the sum of: a
function from workers to the sequence of keys added, so that a gradient added
twice, a missing one, or one of another key shows. Packets are records of slot,
round, key, command and norm; byte order and header layout are left out. Norms
are the floats' bit patterns, which order non-negative floats.

### Actions and code

| Action | Code |
|---|---|
| `PushStart`, `PushJob` | `DPDKPushPull` up to its loop (`DPDKPushPull`, within the bound `KeysFree`), and one iteration of it (the lock is taken per job); `EnqueueTensor` setting `DPDKTask` |
| `TxAssemble`, `TxBurst` | the critical section of `TxThread`, and the burst after the lock is released |
| `RxPacket` | `RxThread` on one packet |
| `ResetBegin`, `ResetSlot` | `DPDKResetLoop` calling `Reset`, one slot of its loop (the queue lock is held throughout: `QueueUnlocked`) |
| `PollFinishKey` | `DPDKListenerLoop`: poll, `FinishOrProceed`, clear the entry |
| `ServerReceive` | the server's `RxThread` on one packet, with `broadcast_packet` |
| `NormAssemble`, `NormBurst`, `NormReturn` | the three parts of `CommunicateNorm` |
| `NormReceive`, `NormReset` | norm branch of `RxThread`; `Reset` on the norm slots |
| `RxCheck` ... `RxKey`, `PushTask` | `RxThread` access by access; `PushStart` with the bound on what is really outstanding |
| `Arrive`, `Recirculate` | `SwitchIngress` on a packet from a worker or from the recirculation port: one pass |
| `RecirculationDrop` | external: the traffic manager drops a packet between two passes |

A pass of a packet through the switch is one step: its register actions take
effect in the order in which packets enter the pipeline. All recirculation goes
through one port (`setup_ports.py`), hence in order; packets from workers come
in between at any point. The route table for late packets is empty in the
repository (`RouteTo = {}`); in the testbed it held the address all clients
send to, one of the workers (`RouteTo = {w2}`). A packet is a sequence of
`CIRC_TIME` chunks, of which the parser extracts the first.

Plugins. Actions keep the names of the methods they model (`hook`,
`sync_missing_gradients`, `_allreduce_grads`, `_merge_call`, ...); a method that
blocks is two actions, before and after. A gradient is the set of contributions
`<<worker, step, pass>>` that are in it, a parameter the list of the gradients
applied to it, so a contribution that is lost, counted twice or of another step
shows. Quantization is what it does to that set: with one common norm the sum
keeps it, with a worker's own norm it becomes `Garbage`. TensorFlow graphs and
MXNet's engine are external; they order operations only by data dependencies.
`MirroredStrategy` is the eager execution, with two devices per worker (the
example has one), and a training function that makes two merge calls. A replica
may raise, or make a call too few, on all workers alike.

Scripts. `TorchScripts` and `JobScripts` are data: for every script the list of steps before the
epochs, around a batch, in an epoch and at the end. `TrainingJob` has one action
per kind of step. A model is the worker whose initialisation it has and the list
of its updates, a checkpoint a copy of it with its epoch or step. `Restart` kills
all processes at any point and starts them again: the disks stay.

Launcher. Hosts, processes and the threads that wait for them. Core lists are
computed by `allocate_cpu` for given NUMA layouts; a process enters and leaves
`bps.init` and its collectives together with the others.

The clock is abstracted: `Reset` may run at any time at which a slot is
occupied. The network delays, reorders and loses; a lost packet is one that is
never taken from `toPS` or `toWorker`. It does not duplicate. `TENSOR_INIT`
tasks are a branch of `DPDKPushPull`; at this commit the push loop sends such
tensors to ps-lite instead, so they are part of the client's interface rather
than of a training run.

Assumptions of the model: all workers push the same tasks in the same order
(`Program`), and a worker never has so many packets outstanding that the key
counter wraps onto one of them (`KeysFree`; 1.2 million packets in the code,
which checks neither). `MAX_AGTR_COUNT` divides `DPDK_KEY_TOTAL`, as 2500
divides 1200000; without it a wrapped key would break the round numbering. In
`IncaThreads` the bound is about the packets really outstanding (`PushTask`):
`RxThread` clears the key of a slot last, after `TxThread` may have sent the next
packet through it, so `slot_dpdk_key` no longer names every one of them.

`counted` in `IncaSystem` is a history variable: the workers counted in a slot.
The bitmap of the code cannot serve, since the server clears it on completion
and not when a newer round takes the slot over.

## 3. The runs

| Run | Instance | Checks |
|---|---|---|
| `inca_rounds` | 2 workers, 1 slot, 2 keys, gradient / non-aggregated / gradient | all safety properties with a slot reused three times and keys wrapping |
| `inca_slots` | 2 workers, 2 slots, 4 keys, a task of two packets and one of one | `FinishInv`: keys, tables and part counters across slots and parts; it contains `FinishedExactlyOnce` |
| `inca_progress` | 2 workers, 1 slot, two tasks | `EveryTaskFinishes` |
| `rx_atomic` | 2 workers, 1 slot, 2 keys, a task of two packets and two of one, no timeouts | `RxThreadIsAtomic`: the split `RxThread` refines the atomic one, with a slot reused and keys wrapping |
| `rx_reset_rounds` | 2 workers, 1 slot, three tasks, timeouts | violated: `SameRoundSameKey` |
| `norm_allreduce` | 3 workers, 1 norm slot shared by 2 keys, no loss | `ImplementsAllReduce`, `NormNotForgotten`, `EveryNormCallReturns`, and `NormInv`, their inductive invariant |
| `switch_passes` | 2 workers, 1 slot used twice, 4 passes | `MulticastHasEveryWorker`, `OneMulticastPerRound`, `MulticastIsAwaited` |
| `switch_chunks` | 2 workers, 1 slot, 2 passes | violated: `EveryChunkIsSummed` |
| `plugins` | 2 workers, 2 parameters, 2 steps (cross barrier 3) | all plugin properties |
| `job` | 2 workers on one or two nodes, 3 epochs, one crash | all job properties, for every script |
| `job_resume` | the ResNet-50 script, restarted | violated: `ModelsAgree` |
| `launch` | 1 or 2 worker hosts, 2 processes each, 7 NUMA layouts, one failure | all launcher properties |

Properties, besides one type invariant per system:

* `SameRoundSameKey`: packets of one slot and round carry one key and command.
* `ReplyIsFullSum`: a gradient reply holds each worker's gradient of its key,
  once. Exercised by abandoned rounds and by non-aggregated rounds that leave
  old data in the slot.
* `AcceptedReplyIsAwaited`: a reply that passes `RxThread`'s round test meets an
  occupied slot that waits for its key.
* `RoundAdvancesWithSlot`: rounds advance by one, only from an occupied slot.
* `FinishedExactlyOnce`: a task is reported once, after its last part, and a
  task that is neither finished nor reported has a part under way.
* `BufferLocalOrFullSum`: a timeout can leave a gradient unaggregated on some
  worker while another has the sum; no buffer ever holds a partial sum.
* `ImplementsAllReduce`: `NormExchange` implements `MaxAllReduce`.
* `NormNotForgotten`: only the network loses a norm.
* `RxThreadIsAtomic`: justifies the grain of `DPDKManager` while no timeout
  occurs. The atomic step is taken when the part is compared; before it the
  reply counts as undelivered, after it the slot counts as free.
* `MulticastHasEveryWorker`: only the last pass compares the count, but the
  packet carries away what it found in every pass. Holds because each
  register restarts its count together with its sum, so that a full count means
  a full sum, also after a drop between two passes.
* `OneMulticastPerRound`, `MulticastIsAwaited`: a slot's rounds are answered once
  and in order, and the client finds the slot from the last register's index.

Plugins (one run; the job's plugin is chosen in the initial state):

* `AppliedIsAverage`: what a step of the PyTorch optimizer or of
  `DistributedDataParallel` applies is the average of all passes of all workers,
  however it was compressed and whichever layers took part. `HandlesAccountedFor`:
  the bookkeeping this depends on (no handle outlives `synchronize`; the group
  counter is exact). `HookNeverRaises`: no schedule of the run trips an assertion of a
  hook.
* `ForwardReadsUpdated`, `UpdatesAreSynchronous`: updates made behind the next
  forward pass (cross barrier, half precision) give the results of synchronous
  training and are in time; a parameter in flight is locked. With half precision a
  layer without a backward pass has no gradient to push and `step()` raises; what was
  applied before is still synchronous.
* `StartsFromRoot`: broadcasts by adding zeros give every worker the root's values
  before they are used (half precision, MXNet, `DistributedDataParallel`).
* `UpdatedOnceWithEverything`: momentum and weight decay act once per update,
  for tensors below, at and above the threshold.
* `ReplicasAgree`: TensorFlow's variables are equal wherever the workers are
  equally far, although a broadcast may come after the first step; the event
  handshake of the mirrored strategy merges one call's arguments of all replicas,
  also when one fails, and leaves equal copies.
* `TrainingFinishes`: no plugin waits for what never comes; a half-precision job whose
  layer joins late ends with the exception instead.

Jobs:

* `CollectivesMatch`: operations that meet in the core are of the same epoch and
  batch. `ModelsAgree`: equal models at equal places. `EveryBatchOnce`: a finished
  model has learned from every batch once, wherever the job was killed.
* `ScheduleFollowed`: the callbacks together produce the schedule of the scripts'
  own function (the reference definition), and a corrected momentum is restored. A
  restart whose checkpoint has another rate than the base rate is exempt here and in
  `ModelsAgree` (`FromBaseRate`), for the reason given below.
* `FirstProcessDownloads`: the pair of barriers does what its comment says, in the two
  scripts that have it; the other language-model scripts build the cache unguarded.
  `JobFinishes`.

Launcher: `CoresAreOwn` (nine machines: interleaved and unequal nodes, an excluded
core, as many cores as processes, quotas set by hand), `NoFailureIsSwallowed`,
`LaunchersReturn`. Roles and ids are not followed: `dist_launcher` builds a host's
command string, environment included, before it starts the host's ssh thread.

Bounds. Two workers are what the code is built for and are enough to have one
ahead of the other; the norm run takes three so that a maximum can come from the
first, a middle or the last packet. Two parameters and two steps are enough for
a gradient of one step to meet the next; the cross-barrier run has three so that
each layer is skipped once with a step on either side. Four epochs, of which two are
warm-up and the last has a reduced rate, let a job be killed and resumed within the
warm-up, at the base rate and after the reduction. One slot forces reuse, two allow replies out
of order; two keys force the counter to wrap in a run of three packets. The
number of tasks bounds every counter, so all runs are finite without a state
constraint. Deadlock is not checked: a run ends when its tasks are done. Symmetry
over workers is used where no liveness is checked.

Fairness. In `Plugins`, `TrainingJob` and `Launcher` every thread or process is
weakly fair and the core answers an operation once all workers have started it;
crashes and failures are not required to happen. `Fairness` of the core asks weak fairness of every thread of a worker and of the
timer: the threads are loops without blocking calls other than the queue lock,
and `DPDKResetLoop` calls `Reset` again and again once ten seconds have passed.
Nothing is assumed of the network, except in `norm_allreduce`, where delivery is
fair because that run asks what happens when nothing is lost.

### Disagreements found

1. *Reset races with RxThread over a slot* (`rx_reset_rounds`). Reset runs
   between RxThread's test of the round and its stores; a round is then used for
   two packets. Needs a reply that is processed just when the timer fires. Once
   the timer has expired Reset is called in a tight loop until a task completes,
   so several calls can fall in the window.
2. *The switch aggregates the first 64 entries four times* (`switch_chunks`).
   `CIRC_TIME` passes are meant for 256 entries, 64 in each, but every pass
   parses the same 64. The last packet adds the registers again and again to
   entries that are sums already, and the other 192 entries stay one worker's.
   Concerns the build without `SW_PS`, which is not the default.
3. *Resuming ResNet-50 makes the workers differ* (`job_resume`). Rank 0 has loaded
   its optimizer state; the others create theirs with a step of zero gradients,
   which decays the weights they have just received from rank 0.

### What the passing instances leave out

The passing runs stay within the uses in which the code keeps its promises. Known
to fail outside (the hazards in `PROJECT.json` name the most important; TLC was
used to confirm those marked *):

* a lost norm packet blocks `CommunicateNorm` for ever, because Reset skips norm
  slots*; with `RxThread` split into accesses and timeouts allowed a task can stay
  unfinished* (`EveryTaskFinishes` holds at the grain of `IncaSystem`; the locks
  that are commented out in `RxThread`, or storing the key before the flag, would
  close the gap); a switch whose route table leads to a worker gives it zeroed
  packets with the round number 0, which it takes for answers*;
* the cross-barrier optimizer's final step does not wait for a parameter the
  poller has in hand*; half precision with several backward passes polls a handle
  that is None*; `DistributedDataParallel` hangs when workers take different
  branches*; two or more parameters without gradient are pushed in set order*, which
  under INCA lays the vectors out differently and makes `AppliedIsAverage` fail; half
  precision raises in `step()` when a layer has had no backward pass
  (`imagenet18/__init__.py:204`, `torch/ops.py:69`; modelled), and pushes a layer that
  is skipped after it was used again with its old sum;
* LM scripts that resume within an epoch with gradient accumulation pass over the
  wrong number of batches*; Keras resumed within the warm-up or after a reduction takes
  the checkpoint's rate for the base rate on rank 0 (`_keras/callbacks.py:146`), so that
  neither the schedule of `keras_imagenet_resnet50.py:146-151` nor the agreement of the
  workers holds* (in the run, exempted by `FromBaseRate`); scripts that save per node, or that do not broadcast the epoch
  to resume from, are not restarted on two nodes*; shards of unequal size*;
* cores excluded from the middle of a range are bound all the same
  (`launch.py:177`); more processes
  than the cores allow end in an exception with processes left behind*, and so do one
  hyper-threaded core per node, halved twice (lines 62 and 113), and an excluded core
  that empties a quota; `check_env` ends with status 0 when a variable is missing
  (line 152), which `dist_launcher` does not let happen; the launcher does not see the failure of a later process while an earlier one runs.

Read in the code, outside the models: `dist_launcher` sends each command to the
background of its ssh session; `torch.save` is not atomic, so a crash may leave half a file
that the next start loads; the mirrored strategy does not broadcast the variables'
initial values between workers; `max_info_tensor` (`torch/__init__.py:194`) is used
and never created; in cross barrier nothing waits for parameters that a module with
children holds itself (`cross_barrier.py:198`).

## 4. The proofs

The theorems hold for every finite set of workers, every program of tasks or
calls, and all numbers of slots, keys, registers, passes, hosts and processes
that the assumptions on the constants allow:

* `WorkerAssumption`, `SlotAssumption`, `KeyAssumption`, `ProgramAssumption`,
  `BuildAssumption`, `ServerAssumption`, `NormAssumption`, `PassAssumption`,
  `RegisterAssumption`, `RouteAssumption`: the constants are numbers of their kind
  and the slots fit into the server and the switch;
* `PartsAssumption`: a task needs no more keys than there are. A partition has at
  most 4096000 bytes (`global.cc:43`), far below 1200000 packets;
* `ClusterAssumption`: a host is an entry of the hostfiles, with its own ssh
  session; a machine listed twice is two hosts. `LocalSizeAssumption`: a host has
  at least one process;
* `ForwardAssumption` (cross barrier): a forward pass goes through at least one
  layer and through none twice. `RootAssumption`: the root is one of the workers,
  and no worker is called like one of the model's other values. `NamesAssumption`:
  a tensor has a name of its own. `CountsAssumption`: steps, passes, replicas and
  merge calls are at least one. `BytesAssumption`: sizes are numbers.

| Theorem | Statement |
|---|---|
| `TypeCorrect` | `Spec => []TypeOK` |
| `Inductive` | `Spec => []IndInv` |
| `RoundsAgreeOnKeys` | `Spec => []SameRoundSameKey` |
| `RepliesAreFullSums` | `Spec => []ReplyIsFullSum` |
| `AcceptedRepliesAwaited` | `Spec => []AcceptedReplyIsAwaited` |
| `BuffersLocalOrFull` | `Spec => []BufferLocalOrFullSum` |
| `RoundsAdvanceWithSlots` | `Spec => RoundAdvancesWithSlot` |
| `FinishInvariance`, `FinishedOnce` | `Spec => []FinishInv`, `Spec => []FinishedExactlyOnce` |
| `RoundsAnsweredOnce` | `Spec => []AnsweredInv`: the server answers a round once |
| `NobodyElseWrites` | `QuietSpec => []ThreadInv` |
| `RxThreadAtomic` | `QuietSpec => RxThreadIsAtomic`: the split `RxThread` implements `IncaSystem` |
| `NormTypeCorrect`, `NormInvariance` | `Spec => []NormTypeOK`, `Spec => [](NormTypes /\ NormInv)` |
| `NothingForgotten` | `Spec => []NormNotForgotten` |
| `NormRefinement` | `Spec => ImplementsAllReduce`: the exchange implements `MaxAllReduce` |
| `SlotRecovered` | in the switch build a client finds its slot from the last register's index |
| `SwitchTypeCorrect`, `PassInvariance` | `Spec => []SwitchTypeOK`, `Spec => [](SwitchTypes /\ PassInv)` |
| `OneMulticast` | `Spec => []OneMulticastPerRound` |
| `KeyInvariance`, `MulticastIsComplete`, `MulticastAwaited` | with gradients only and `RouteTo = {}`: `KeyInv`, `MulticastHasEveryWorker`, `MulticastIsAwaited` always hold |
| `FailuresPropagate` | `Spec => []NoFailureIsSwallowed` |
| `ForwardPassReadsUpdated` | `Spec => []ForwardReadsUpdated` (cross barrier) |
| `MXNetUpdatesOnce` | `Spec => []UpdatedOnceWithEverything` |
| `TrainingStartsFromRoot` | `Spec => []StartsFromRoot` (half precision, MXNet, DDP) |
| `ReplicasStayEqual` | `Spec => []ReplicasAgree` (TensorFlow, mirrored strategy) |

### Rounds and sums

None of the properties is inductive: whether two packets of a
round agree depends on how often each worker has used the slot, which no single
variable says. The invariants make it explicit. All workers draw the same counter
values, the queue holds the last of them in order (`QueueInv`), so the value at
its head, `Front`, says how many packets have left, and `Sent(Front, s)` how many
of them through slot `s`. `SlotInv` says that the slot's round is that number,
less the packet outstanding. This much is about the client alone and is the same
for both aggregators: `ClientInv`, with one lemma per client action in
`ClientProofs`. Hence slot and round determine the counter value,
`s + MAX_AGTR_COUNT * round`, and so key and command (`Genuine`, `PacketInv`,
`TxInv`), on all workers alike. `ServerInv` adds that the count is the number of
workers counted, that the sum holds exactly their gradients, and that a counted
worker has no second packet of the round under way; `ReplyInv` follows when the
count is full. A reply can only pass the round test if its round is below
`Sent(Front)`, so the slot is occupied, and by its key.

`ClientProofs` begins with the arithmetic: division with remainder, its
uniqueness, how it changes when the counter advances, and when wrapped counters
differ. `IncaProofs` proves type correctness, then one lemma per action, the
induction and the corollaries.

### Finishing once

`FinishedExactlyOnce` counts the open parts of a task, and the code counts them in
an array that wraps. The model's bound `KeysFree` speaks of packet keys only; that
the part counters do not collide has to be derived. Every task draws at least one
key, so fewer than `DPDK_KEY_TOTAL` tasks have been pushed since any task that
still has a packet outstanding (`TableInv`), hence its part counter is its own
(`PartInv`), hence the counter reaches its total just when the last part is done
(`EntryInv`). `KeysInv` keeps a key in one place, so that no part counts twice.

### RxThread without its locks

`RxThreadIsAtomic` is a refinement: the atomic `RxPacket` happens when the part is
compared, and until then the reply counts as undelivered. `Sys` in `ThreadProofs`
is `IncaProofs` under that mapping, so that every lemma about the atomic client can
be cited for the state `RxThread` shows. `ThreadInv` says that this state satisfies
`IndInv`, `FinishInv` and `AnsweredInv`, and that what `RxThread` has read is still
so when it writes (`RxInv`): the slot's round, the buffer before or after the copy,
the part counter. `AnsweredInv` is needed because a reply in `RxThread`'s hands is
off the network: if the server could answer a round twice, the mapped set of
replies would lose one of two equal copies. Each access before the comparison is
shown to stutter, the comparison to be `RxPacket`, and each action of the other
threads to be the same action of `IncaSystem`. The proof attempt showed that the
bound on outstanding packets must not read `slot_dpdk_key`, which `RxThread` may
already have cleared for the next packet (`PushTask`); the earlier instance, whose
keys did not wrap, had not shown it.

### Norms

A worker makes its next call only when it has been answered, which the server does
only when it has counted everyone. So no worker is more than one call ahead: the
rounds the server has completed lie between the calls answered and the calls made
(`RoundInv`), a packet on its way is of the round its slot works on next
(`PacketInv`), and the bitmap, which the code writes and never reads, names
exactly the workers in the running maximum (`ServerInv`). A reply then holds the
maximum of one call (`ReplyInv`), and `NormReturn` maps to the return of the
abstract all-reduce; every other step but the call stutters. Losses are allowed
throughout: they make a call hang, not return a wrong norm.

### The switch

The switch has a count and a round for each register and looks at no bitmap.
`CountInv` gives each count a set of workers as a witness: their packets of the
round have left and are past the register, and their gradients are in it. That a
packet is past a register for good needs that a worker sends one packet per slot
and round and that it is in one place (`TxInv`, `OneCopyInv`), through all passes.
So a full count means that all workers have sent and that all their gradients are
in the packet (`Multicast`). This holds whatever the packets carry (`PassInv`).

That they are of one key (`KeyInv`) is proved for programs of gradients and for
the route table the repository installs, which is empty. Both hypotheses are
needed: TLC violates `MulticastIsAwaited` with `RouteTo = Worker` (one slot, two
passes, two tasks), where a zeroed late packet is taken for an answer, and with
tensors that are not aggregated between gradients (two slots, two passes, four
tasks), for whose replies `RxThread` never sets the slot index. In a training
run such tensors go to ps-lite; the first is the case of the testbed, section 3.

### The launcher

`LaunchInv` says of every host what its position in the list and its threads say:
hosts further down have no launcher (`NotYetReached`), and the main thread has
started, or joined, exactly the threads before its index (`ThreadInv`).

### Plugins

The plugin is chosen in the initial state and stays, so each theorem rests on one
inductive invariant per plugin it speaks of, with one lemma per action.

*Cross barrier* (`CBInv`). The main thread, the poller and the core share locks,
delays and a queue. A parameter's lock is held exactly while one event of it is
queued or with the poller, and that event is of its last push; a push has been
applied unless its event is still on the way (`CBLockInv`). The layers the pass has
gone through are unlocked (`CBPassInv`). That the hook finds no lock of its own, and
pushes only once, needs the delays: the poller resets a delay before it releases the
lock, and a parameter whose delay is used up is locked, or waits for `synchronize`
with an empty handle (`CBDelayInv`).

*MXNet* (`MXInv`). Gradients of all parameters proceed independently. The n-th
push of a parameter is the worker's n-th gradient, the number of pushes follows
from the number of updates and the parameter's stage (`MXGradInv`), and the step
counts what all parameters have reached (`MXStepInv`). `EachOnce` goes through the
compressor settings and tensor sizes: what the core and the adapters put into the
gradient and what the optimizer adds are together momentum and weight decay, once
each. `MXRootInv` is the broadcast before the first update.

*Broadcasts* (`HalfInv`, `DDPInv`, `MXInv`). Everyone but the root pushes zeros, so the
sum is the root's value if the n-th operations of a name belong together. For DDP the
broadcast of pass b + 1 of step s is number `(s - 1) * backward_passes_per_step + b + 1`;
that a number determines step and pass is the arithmetic of that proof.

*Mirrored strategy* (`MSInv`). One thread of a worker runs at a time: replicas before
the main thread's index are paused at their next merge call or have ended, those
after it have not been woken since the last merge, and the one at the index is
active (`MSThreadInv`). The number of updates gives the calls made in the step
(`Made`), so all arguments taken in one merge are of one call (`MSSumInv`), also
after a replica has raised or returned early: then no merge follows.

*TensorFlow* (`TFInv`). The broadcast may come before the first step or, with Keras
and tapes, after its update. `TFVarInv` counts the pushes, updates and broadcasts of
every variable from the worker's place and the variable's stage, and says what each
of them is; a variable on which the loss does not depend has none.

### Checked by TLC only

* Liveness (`EveryTaskFinishes`, `EveryNormCallReturns`, `TrainingFinishes`,
  `JobFinishes`, `LaunchersReturn`): fairness is out of the prover's reach.
* `CoresAreOwn`: `allocate_cpu` is a fold over the processes, and what a fold
  computes needs induction over data.
* `AppliedIsAverage`, `HookNeverRaises`, `HandlesAccountedFor`,
  `UpdatesAreSynchronous`: they are about the order of lists (handles in the order of
  a dict, missing parameters in the order of a set, the steps that push a parameter),
  built with `SelectSeq`, `SetToSeqs` and `SetToSortSeq`, about which the library has
  no theorems and whose recursion needs induction over data. Two of them also hold
  only within the instance: half precision needs one backward pass per step, and
  with several missing parameters workers may push in different orders (section 3).
* The safety properties of `TrainingJob`: what is left to do on a worker is a list
  spliced together from the lists of 32 scripts, and `ScheduleFollowed` goes through a
  fold over the callbacks; an inductive invariant would be a table of all their
  positions.

`IndInv`, `FinishInv` and `NormInv` are checked by runs; `AnsweredInv`, `PassInv`,
`KeyInv`, `LaunchInv` and the invariants of the plugins were checked on small
instances when they were written, and are left to the proofs.

## 5. Not modelled, and the plan

Not modelled:

* of the core: port and memory set-up, shutdown, timing and logging code, the code
  nothing calls (`Send`, `BackupTxThread`, `GetFinishKey`, the server's older
  receive loop), the numerical content of vectors (with it the packed 8-bit and
  the saturating additions);
* the C++ worker pipeline, local coordination (sockets, NCCL) and the BytePS
  server. What would be at stake there: `DPDKListenerLoop` clears a table entry
  after the task has moved on (`core_loops.cc:221`), a fast worker's next push
  overwriting a sum (`server.cc:418`), pulls that wait for an answer
  (`server.cc:431`), priorities changed inside a heap (`queue.h:85`). In the INCA
  build gradients do not go through the BytePS server;
* the switch's control plane: `setup_ports.py` is used for the recirculation port,
  `control.py` drives another P4 program;
* of the plugins: asynchronous modes, TopK and the other numeric compressors,
  sparse gradients, MXNet's deferred initialisation (`mxnet/__init__.py:356`),
  `MyCollectiveAllReduce` and `my_collective_reduce` (they call a
  function that does not exist), device lists with several workers, graph mode of
  the mirrored strategy;
* of the scripts: networks, data pipelines, arguments, evaluation's numbers, what
  the elastic benchmark's suspend and resume do to the core, and the `max_steps` limit;
* `setup.py`, the MXNet symbol files, vendored ps-lite.

What could follow, in this order:

1. The packed 8-bit additions, as operators against lane-wise sums.
2. `ScheduledQueue`, `ReadyTable` and the stage loops with `FinishOrProceed`, to
   follow the order in which a plugin starts its operations to the wire.
3. `BytePSServer`: whether `COPY_FIRST` of a fast worker's next push can overwrite
   the sum before a slow worker's pull is answered, and whether its queue keeps the
   operations of a key in order.
4. An abstract gradient all-reduce with timeouts, implemented by `IncaSystem`.
5. `FirstProcessDownloads` as a theorem about the pair of barriers alone.
