---------------------------- MODULE TrainingJob ------------------------------
(* A distributed training job: every worker runs the same script (JobScripts *)
(* says which steps it consists of) on its own, and meets the others in the  *)
(* collective operations of the library.  The operator restarts a job that   *)
(* was killed; the checkpoints on the nodes' disks are what is left of it.   *)
(* A model's weights are where they came from and the updates applied since. *)
EXTENDS PushPullCore, JobScripts, LearningRate

CONSTANTS
    Root,           \* rank 0
    Rank,           \* Rank[w]: bps.rank()
    Runs,           \* the <<script, placement>> pairs: placement[w] is w's node
    Restartable,    \* those the operator restarts
    MaxCrashes, Epochs,
    Samples,        \* Samples[script]: size of the data set
    BatchSize,
    Accumulate,     \* Accumulate[script]: gradient_accumulation_steps
    SaveSteps, SaveLimit    \* save_steps, save_total_limit

VARIABLES
    script, node,   \* what is run, and on which nodes
    todo,           \* todo[w]: the operations before w
    epoch, batch,   \* the position in the data
    skip,           \* batches w still passes over after a resume
    resume,         \* the number in the name of the checkpoint w resumes from
    global_step,
    weights, opt,   \* model.state_dict() and optimizer.state_dict()
    partial,        \* gradients accumulated since the last update
    keras,          \* lr, momentum and the callbacks' state
    logs,           \* whose metrics are in the logs of the epoch
    disk,           \* disk[n]: the checkpoints on node n
    cached,         \* cached[n]: who downloaded the model, and who built the data set
    crashes

position == <<epoch, batch, skip, resume, global_step>>
model == <<weights, opt, partial, keras, logs>>
job == <<script, node, crashes>>
vars == <<todo, position, model, disk, cached, job, core>>

Node == {node[w] : w \in Worker}
IsFirst(w) == \A v \in Worker : node[v] = node[w] => Rank[w] <= Rank[v]  \* local_rank 0
Program == programs[script]
Fresh(w) == [from |-> w, updates |-> <<>>]
Tensor == {"init", "barrier", "resume", "params", "state", "vars", "buffers", "metric", "grad"}

\* What the processes start with.
All(value) == [w \in Worker |-> value]
Untrained == [w \in Worker |-> Fresh(w)]
OwnLogs == [w \in Worker |-> {w}]
Init ==
    \E run \in Runs :
        /\ script = run[1] /\ node = run[2]
        /\ todo = All(Program.setup \o <<"epoch">>)
        /\ epoch = All(0) /\ batch = All(0) /\ skip = All(0) /\ resume = All(0)
        /\ global_step = All(0)
        /\ weights = Untrained /\ opt = All(<<>>) /\ partial = All({})
        /\ keras = All(NewOptimizer(Unit)) /\ logs = OwnLogs
        /\ CoreInit(Tensor)
        /\ disk = [n \in Node |-> {}]
        /\ cached = [n \in Node |-> [download_model |-> None, download_data |-> None]]
        /\ crashes = 0

\* The whole job dies and is started again; the disks stay.
Restart ==
    /\ <<script, node>> \in Restartable /\ crashes < MaxCrashes
    /\ \E w \in Worker : todo[w] # <<>>
    /\ crashes' = crashes + 1
    /\ todo' = All(Program.setup \o <<"epoch">>)
    /\ epoch' = All(0) /\ batch' = All(0) /\ skip' = All(0) /\ resume' = All(0)
    /\ global_step' = All(0)
    /\ weights' = Untrained /\ opt' = All(<<>>) /\ partial' = All({})
    /\ keras' = All(NewOptimizer(Unit)) /\ logs' = OwnLogs
    /\ CoreRestart(Tensor)
    /\ UNCHANGED <<script, node, disk, cached>>

-----------------------------------------------------------------------------
At(w, op) == todo[w] # <<>> /\ Head(todo[w]) = op
Then(w, more) == todo' = [todo EXCEPT ![w] = more \o Tail(@)]
Step(w, op) == At(w, op) /\ Then(w, <<>>)

\* How many batches of an epoch a worker gets.
Ceil(a, b) == (a + b - 1) \div b
Total == Samples[script]
Share(w) == Total \div Size + (IF Rank[w] < Total % Size THEN 1 ELSE 0)
\* DistributedSampler repeats samples until all workers have as many.
Sampled(w) == Ceil(Ceil(Total, Size), BatchSize)
Batches(w) ==
    CASE Program.data = "sampler" -> Sampled(w)
      [] Program.data = "part" -> Ceil(Share(w), BatchSize)         \* num_parts
      [] Program.data = "shard" -> Share(w) \div BatchSize          \* last_batch='discard'
      [] Program.data = "discard" -> Total \div BatchSize
      [] Program.data = "whole" -> Ceil(Total, BatchSize)
      [] Program.data = "divided" -> (Total \div BatchSize) \div Size

-----------------------------------------------------------------------------
(* Local steps of a script.                                                 *)
seed(w) ==
    /\ Step(w, "seed")
    /\ weights' = [weights EXCEPT ![w].from = "seed"]
    /\ UNCHANGED <<position, opt, partial, keras, logs, disk, cached, job, core>>

\* The checkpoint to resume from: the newest on the worker's own node, on the node
\* of rank 0 alone, or the newest that every worker has, named by the operator.
Labels(w, by) == {c.at : c \in {e \in disk[node[w]] : e.by \in {by, "shared"}}}
Newest(labels) == IF labels = {} THEN 0 ELSE Max(labels)
Found(w, op) ==
    CASE op = "find" -> Newest(Labels(w, "shared"))
      [] op = "find_root" -> IF w = Root THEN Newest(Labels(w, "shared")) ELSE 0
      [] op = "given" -> Newest({n \in Labels(w, w) : \A v \in Worker : n \in Labels(v, v)})
find(w, op) ==
    /\ op \in {"find", "find_root", "given"} /\ Step(w, op)
    /\ resume' = [resume EXCEPT ![w] = Found(w, op)]
    /\ UNCHANGED <<epoch, batch, skip, global_step, model, disk, cached, job, core>>

\* What the checkpoint w resumes from holds.
Checkpoint(w) == CHOOSE c \in disk[node[w]] : c.at = resume[w] /\ c.by \in {w, "shared"}
load(w, op) ==
    /\ op \in {"load_root", "load_all", "load_own"} /\ Step(w, op)
    /\ IF resume[w] > 0 /\ (op = "load_root" => w = Root)
       THEN /\ weights' = [weights EXCEPT ![w] = Checkpoint(w).weights]
            /\ opt' = [opt EXCEPT ![w] = IF Program.optimizer_with_model THEN Checkpoint(w).opt ELSE @]
            /\ keras' = [keras EXCEPT ![w] = NewOptimizer(Checkpoint(w).lr)]
            \* With TensorFlow 1 the step is one of the variables.
            /\ global_step' = [global_step EXCEPT ![w] =
                    IF op = "load_root" /\ Program.by_step THEN resume[w] ELSE @]
       ELSE UNCHANGED <<weights, opt, keras, global_step>>
    /\ UNCHANGED <<epoch, batch, skip, resume, partial, logs, disk, cached, job, core>>

\* "Check if saved optimizer or scheduler states exist": not if the job died
\* before they were written.
load_opt(w) ==
    /\ Step(w, "load_opt")
    /\ opt' = [opt EXCEPT ![w] =
            IF resume[w] > 0 THEN Checkpoint(w).opt ELSE @]
    /\ UNCHANGED <<position, weights, partial, keras, logs, disk, cached, job, core>>

\* Where training continues: after whole epochs, or after a number of updates.
from_epoch(w) ==
    /\ Step(w, "from_epoch")
    /\ epoch' = [epoch EXCEPT ![w] = resume[w]]
    /\ UNCHANGED <<batch, skip, resume, global_step, model, disk, cached, job, core>>
NothingSkipped(w) == 0
Skipped(w) == resume[w] % (Batches(w) \div Accumulate[script])
from_step(w) ==
    /\ Step(w, "from_step")
    /\ epoch' = [epoch EXCEPT ![w] = resume[w] \div (Batches(w) \div Accumulate[script])]
    /\ skip' = [skip EXCEPT ![w] = Skipped(w)]
    /\ global_step' = [global_step EXCEPT ![w] = resume[w]]
    /\ UNCHANGED <<batch, resume, model, disk, cached, job, core>>
\* run_lm_finetuning.py counts in batches.
from_batch(w) ==
    /\ Step(w, "from_batch")
    /\ epoch' = [epoch EXCEPT ![w] = (resume[w] * Accumulate[script]) \div Batches(w)]
    /\ skip' = [skip EXCEPT ![w] = (resume[w] * Accumulate[script]) % Batches(w)]
    /\ global_step' = [global_step EXCEPT ![w] = resume[w]]
    /\ UNCHANGED <<batch, resume, model, disk, cached, job, core>>

\* The monitored session goes by the global step that was broadcast.
from_global_step(w) ==
    /\ Step(w, "from_global_step")
    /\ epoch' = [epoch EXCEPT ![w] = global_step[w] \div Batches(w)]
    /\ batch' = [batch EXCEPT ![w] = global_step[w] % Batches(w)]
    /\ UNCHANGED <<skip, resume, global_step, model, disk, cached, job, core>>

\* broadcast_optimizer_state: "Newly created optimizers will not have their state
\* initialized, so do that initialization here", with a step on zero gradients.
\* The step still decays the weights.
ZeroStep == [grads |-> {}, lr |-> Unit]
init_state(w) ==
    /\ Step(w, "init_state")
    /\ IF opt[w] = <<>> /\ Program.optimizer # "stateless"
       THEN /\ opt' = [opt EXCEPT ![w] = <<ZeroStep>>]
            /\ weights' = [weights EXCEPT ![w].updates =
                    IF Program.optimizer = "decay" THEN Append(@, ZeroStep) ELSE @]
       ELSE UNCHANGED <<opt, weights>>
    /\ UNCHANGED <<position, partial, keras, logs, disk, cached, job, core>>

\* from_pretrained and load_and_cache_examples: what is not in the node's cache is
\* downloaded, or built, and stored there.
download(w, op) ==
    /\ op \in {"download_model", "download_data"} /\ Step(w, op)
    /\ cached' = [cached EXCEPT ![node[w]][op] = IF @ = None THEN w ELSE @]
    /\ UNCHANGED <<position, model, disk, job, core>>

\* Keras: fit() starts, with the rate of the optimizer; the end of a batch; and
\* ReduceLROnPlateau, which goes by the metrics in the logs.  The last worker's
\* metric is the one that does not improve.
Callbacks == IF Program.schedule = "callbacks" THEN <<1, 2, 3>> ELSE <<1>>
Stagnates(w) == \E v \in logs[w] : Rank[v] = Size - 1
KerasStep(w, op) ==
    CASE op = "fit_begin" -> on_train_begin(keras[w])
      [] op = "batch_end" -> on_batch_end(keras[w], Callbacks)
      [] op = "plateau" -> on_plateau(keras[w], Stagnates(w))
keras_callback(w, op) ==
    /\ op \in {"fit_begin", "batch_end", "plateau"} /\ Step(w, op)
    /\ keras' = [keras EXCEPT ![w] = KerasStep(w, op)]
    /\ UNCHANGED <<position, weights, opt, partial, logs, disk, cached, job, core>>

\* Work between collectives that leaves what is modelled alone: a validation, the
\* final model written for its users, bps.suspend().
other_work(w, op) ==
    /\ op \in {"evaluate", "export", "suspend"} /\ Step(w, op)
    /\ UNCHANGED <<position, model, disk, cached, job, core>>

\* The loop over the epochs.
epoch_loop(w) ==
    /\ At(w, "epoch")
    /\ IF epoch[w] < Epochs
       THEN Then(w, Program.before \o Program.epoch \o <<"next", "epoch">>)
       ELSE Then(w, Program.finish)
    /\ UNCHANGED <<position, model, disk, cached, job, core>>
epoch_next(w) ==
    /\ Step(w, "next")
    /\ epoch' = [epoch EXCEPT ![w] = @ + 1] /\ batch' = [batch EXCEPT ![w] = 0]
    /\ logs' = [logs EXCEPT ![w] = {w}]
    /\ UNCHANGED <<skip, resume, global_step, weights, opt, partial, keras, disk, cached, job, core>>

-----------------------------------------------------------------------------
(* Checkpoints.  LM scripts write the model, delete old checkpoints, and then *)
(* write the optimizer; the others write one file.                          *)
Saves(w, op) ==
    CASE op \in {"save_root", "save_timer"} -> w = Root
      [] op \in {"save_first", "save_model", "rotate", "save_opt"} -> IsFirst(w)
      [] op \in {"save_all", "save_own"} -> TRUE
Due(w, op) ==
    op \in {"save_model", "rotate", "save_opt"} \/ (op = "save_all" /\ Program.by_step)
        => global_step[w] % SaveSteps = 0
Saved(w, op) ==
    [at |-> IF Program.by_step THEN global_step[w] ELSE epoch[w] + 1,
     by |-> IF op = "save_own" THEN w ELSE "shared",
     weights |-> weights[w], lr |-> keras[w].lr,
     opt |-> IF op = "save_model" THEN <<>> ELSE opt[w]]
\* _rotate_checkpoints: only the newest save_total_limit stay.
_rotate_checkpoints(d) == {c \in d : Cardinality({e \in d : e.at > c.at}) < SaveLimit}
Written(d, c) == {e \in d : <<e.at, e.by>> # <<c.at, c.by>>} \cup {c}
save(w, op) ==
    /\ op \in {"save_root", "save_timer", "save_first", "save_all", "save_own",
              "save_model", "rotate", "save_opt"}
    /\ Step(w, op)
    /\ \/ /\ Saves(w, op) /\ Due(w, op)
          /\ disk' = [disk EXCEPT ![node[w]] =
                IF op = "rotate" THEN _rotate_checkpoints(@) ELSE Written(@, Saved(w, op))]
       \/ /\ ~(Saves(w, op) /\ Due(w, op)) \/ op = "save_timer"   \* every ten minutes
          /\ disk' = disk
    /\ UNCHANGED <<position, model, cached, job, core>>

-----------------------------------------------------------------------------
(* Collective operations: start, then wait.                                 *)
TensorOf ==
    [init |-> "init", wait_unless_first |-> "barrier", wait_if_first |-> "barrier",
     bcast_resume |-> "resume", bcast_params |-> "params", bcast_state |-> "state",
     bcast_vars |-> "vars", bcast_model_vars |-> "vars", bcast_buffers |-> "buffers",
     average |-> "metric"]
Blocking == DOMAIN TensorOf

SwappedBarriers(w, op) ==
    \/ op = "wait_unless_first" /\ ~IsFirst(w)
    \/ op = "wait_if_first" /\ IsFirst(w)
    \/ op = "bcast_state" /\ opt[w] = <<>>
    \/ op \in {"bcast_vars", "bcast_model_vars"} /\ keras[w].broadcast_done
NobodyReleases(w, op) ==
    \/ op = "wait_unless_first" /\ IsFirst(w)
    \/ op = "wait_if_first"
    \/ op = "bcast_state" /\ opt[w] = <<>>
    \/ op \in {"bcast_vars", "bcast_model_vars"} /\ keras[w].broadcast_done
\* Conditions under which a script passes over a collective.
Passes(w, op) ==
    \/ op = "wait_unless_first" /\ IsFirst(w)
    \/ op = "wait_if_first" /\ ~IsFirst(w)
    \/ op = "bcast_state" /\ opt[w] = <<>>
    \/ op \in {"bcast_vars", "bcast_model_vars"} /\ keras[w].broadcast_done
pass_over(w, op) ==
    /\ op \in Blocking /\ Step(w, op) /\ TensorOf[op] \notin live[w] /\ Passes(w, op)
    /\ UNCHANGED <<position, model, disk, cached, job, core>>

Payload(w, op) ==
    CASE op = "bcast_resume" -> resume[w]
      [] op = "bcast_params" -> weights[w]
      [] op = "bcast_state" -> opt[w]
      [] op \in {"bcast_vars", "bcast_model_vars"} ->
            [weights |-> weights[w], opt |-> opt[w], lr |-> keras[w].lr,
             momentum |-> keras[w].momentum, global_step |-> global_step[w]]
      [] OTHER -> 0
start(w, op) ==
    /\ op \in Blocking /\ At(w, op) /\ TensorOf[op] \notin live[w] /\ ~Passes(w, op)
    /\ push_pull_async(w, TensorOf[op],
            [from |-> w, at |-> <<epoch[w], batch[w]>>, value |-> Payload(w, op)])
    /\ UNCHANGED <<todo, position, model, disk, cached, job>>

\* All but the root pushed zeros: the sum is the root's value.
FromRoot(w, tensor) == (CHOOSE o \in Output(w, tensor) : o.from = Root).value
KeepsOwn(w) == resume[w]
ResumesFrom(w) == FromRoot(w, "resume")
OwnMetrics(w) == {w}
Averaged(w) == {o.from : o \in Output(w, "metric")}
AllVars(w, op) == op \in {"bcast_vars", "bcast_model_vars"}
finish(w, op) ==
    /\ op \in Blocking /\ Step(w, op) /\ TensorOf[op] \in live[w]
    /\ synchronize(w, TensorOf[op])
    /\ resume' = IF op = "bcast_resume" THEN [resume EXCEPT ![w] = ResumesFrom(w)] ELSE resume
    /\ weights' = CASE op = "bcast_params" -> [weights EXCEPT ![w] = FromRoot(w, "params")]
                    [] AllVars(w, op) -> [weights EXCEPT ![w] = FromRoot(w, "vars").weights]
                    [] OTHER -> weights
    /\ opt' = CASE op = "bcast_state" -> [opt EXCEPT ![w] = FromRoot(w, "state")]
                [] AllVars(w, op) -> [opt EXCEPT ![w] = FromRoot(w, "vars").opt]
                [] OTHER -> opt
    \* With TensorFlow 1 the rate, the momentum and the step are variables as well.
    /\ keras' = CASE op = "bcast_vars" ->
                    [keras EXCEPT ![w].lr = FromRoot(w, "vars").lr,
                                  ![w].momentum = FromRoot(w, "vars").momentum,
                                  ![w].broadcast_done = TRUE]
                  [] op = "bcast_model_vars" -> [keras EXCEPT ![w].broadcast_done = TRUE]
                  [] OTHER -> keras
    /\ global_step' = IF op = "bcast_vars"
                      THEN [global_step EXCEPT ![w] = FromRoot(w, "vars").global_step]
                      ELSE global_step
    /\ logs' = IF op = "average" THEN [logs EXCEPT ![w] = Averaged(w)] ELSE logs
    /\ UNCHANGED <<epoch, batch, skip, partial, disk, cached, job>>

-----------------------------------------------------------------------------
(* The training loop, one batch at a time.                                  *)
More(w) == batch[w] + 1 < Batches(w)
Onward(w, ops) == Then(w, ops \o (IF More(w) THEN Program.before \o <<"train">> ELSE <<>>))

\* "Skip past any already trained steps if resuming training".
skip_batch(w) ==
    /\ At(w, "train") /\ skip[w] > 0 /\ "grad" \notin live[w]
    /\ skip' = [skip EXCEPT ![w] = @ - 1]
    /\ batch' = [batch EXCEPT ![w] = @ + 1]
    /\ Onward(w, <<>>)
    /\ UNCHANGED <<epoch, resume, global_step, model, disk, cached, job, core>>

Seen(w) == partial[w] \cup {<<epoch[w], batch[w]>>}
Updates(w) == (batch[w] + 1) % Accumulate[script] = 0

\* Forward and backward; no update yet.
accumulate(w) ==
    /\ At(w, "train") /\ skip[w] = 0 /\ "grad" \notin live[w]
    /\ Program.accumulates /\ ~Updates(w)
    /\ partial' = [partial EXCEPT ![w] = Seen(w)]
    /\ batch' = [batch EXCEPT ![w] = @ + 1]
    /\ Onward(w, <<>>)
    /\ UNCHANGED <<epoch, skip, resume, global_step, weights, opt, keras, logs, disk, cached, job, core>>

ByCallbacks == Program.schedule \in {"callbacks", "warmup"}
\* Forward, backward, and the gradients are on their way.
backward(w) ==
    /\ At(w, "train") /\ skip[w] = 0 /\ "grad" \notin live[w]
    /\ Program.accumulates => Updates(w)
    /\ push_pull_async(w, "grad",
            [from |-> w, at |-> <<epoch[w], batch[w]>>, value |-> Seen(w)])
    /\ keras' = [keras EXCEPT ![w] =
            IF ByCallbacks THEN on_batch_begin(@, Callbacks, epoch[w], batch[w], Batches(w)) ELSE @]
    /\ UNCHANGED <<todo, position, weights, opt, partial, logs, disk, cached, job>>

Rate(w) == CASE ByCallbacks -> keras[w].lr
             [] Program.schedule = "position" ->
                    adjust_learning_rate(epoch[w], batch[w], Batches(w))
             [] OTHER -> Unit
\* optimizer.step: the averaged gradient is applied.
optimizer_step(w) ==
    LET u == [grads |-> {<<o.from, o.value>> : o \in Output(w, "grad")}, lr |-> Rate(w)] IN
    /\ At(w, "train") /\ "grad" \in live[w] /\ synchronize(w, "grad")
    /\ weights' = [weights EXCEPT ![w].updates = Append(@, u)]
    /\ opt' = [opt EXCEPT ![w] = IF Program.optimizer = "stateless" THEN @ ELSE Append(@, u)]
    /\ partial' = [partial EXCEPT ![w] = {}]
    /\ global_step' = [global_step EXCEPT ![w] = @ + 1]
    /\ batch' = [batch EXCEPT ![w] = @ + 1]
    /\ Onward(w, Program.each)
    /\ UNCHANGED <<epoch, skip, resume, keras, logs, disk, cached, job>>

-----------------------------------------------------------------------------
Work(w) ==
    \/ seed(w) \/ load_opt(w) \/ from_epoch(w) \/ from_step(w) \/ from_batch(w)
    \/ from_global_step(w) \/ init_state(w) \/ epoch_loop(w) \/ epoch_next(w)
    \/ skip_batch(w) \/ accumulate(w) \/ backward(w) \/ optimizer_step(w)
    \/ todo[w] # <<>> /\ LET op == Head(todo[w]) IN
        \/ find(w, op) \/ load(w, op) \/ save(w, op) \/ keras_callback(w, op)
        \/ download(w, op) \/ other_work(w, op) \/ pass_over(w, op) \/ start(w, op) \/ finish(w, op)
Next == (\E w \in Worker : Work(w)) \/ Restart
Spec == Init /\ [][Next]_vars /\ \A w \in Worker : WF_vars(Work(w))

-----------------------------------------------------------------------------
(* Properties.                                                              *)

\* The core matches operations by name and by how often the name was used, not by
\* what they are for: whatever was skipped or resumed, workers must meet in the
\* same epoch and batch.
CollectivesMatch ==
    \A t \in Tensor, v, w \in Worker :
        \A n \in DOMAIN pushed[v][t] \cap DOMAIN pushed[w][t] :
            pushed[v][t][n].at = pushed[w][t][n].at

\* The operations that make a worker's model equal to the others' are behind it.
Synchronised(w) ==
    /\ \A i \in DOMAIN todo[w] : todo[w][i] \notin
            {"seed", "load_root", "load_all", "load_own", "load_opt", "bcast_params",
             "init_state", "bcast_state", "from_epoch", "from_step", "from_batch"}
    /\ (\E i \in DOMAIN (Program.setup \o Program.each) :
            (Program.setup \o Program.each)[i] \in {"bcast_vars", "bcast_model_vars"})
        => keras[w].broadcast_done
Place(w) == <<epoch[w], batch[w], global_step[w], live[w]>>
\* on_train_begin found the rate that the schedule is made for.  A job resumed within
\* the warm-up or after a reduction finds the checkpoint's rate instead, on rank 0
\* and on no other worker: callbacks.py:146 makes that rank 0's initial_lr, and from
\* there on the workers train with different rates.
FromBaseRate == \A w \in Worker, c \in Callback : keras[w].initial_lr[c] \in {0, Unit}
\* Data-parallel training: workers that are at the same place have the same model
\* and optimizer state, also when the job was resumed from checkpoints (of the Keras
\* script: checkpoints of the base rate).
ModelsAgree ==
    FromBaseRate => \A v, w \in Worker :
        Synchronised(v) /\ Synchronised(w) /\ Place(v) = Place(w)
            => weights[v] = weights[w] /\ opt[v] = opt[w]

\* The batches that are in a model.
Trained(w) == {i \in DOMAIN weights[w].updates : weights[w].updates[i].grads # {}}
With(w, v, at) ==
    {i \in Trained(w) : \E g \in weights[w].updates[i].grads : g[1] = v /\ at \in g[2]}
\* A finished model has learned from every batch of every worker exactly once, no
\* matter where the job was killed and what it skipped when it was resumed.
EveryBatchOnce ==
    \A w \in Worker : todo[w] = <<>> /\ Synchronised(w) =>
        \A v \in Worker, e \in 0..(Epochs - 1), b \in 0..(Batches(w) - 1) :
            Cardinality(With(w, v, <<e, b>>)) = 1

\* The callbacks bring about the schedule that adjust_learning_rate computes, also
\* when the job is resumed from a checkpoint of the base rate, and the momentum is
\* corrected for the batch in which the rate changed and no longer.
ScheduleFollowed ==
    /\ \A w \in Worker : At(w, "train") /\ "grad" \notin live[w] => keras[w].momentum = "own"
    /\ script = "keras_resnet50" /\ FromBaseRate =>
      \A w \in Worker : \A i \in Trained(w) :
        LET u == weights[w].updates[i] IN
        \A g \in u.grads : \A at \in g[2] : u.lr = adjust_learning_rate(at[1], at[2], Batches(w))

\* "Barrier to make sure only the first process in distributed training download
\* model & vocab", and "process the dataset": on every node, in the scripts that have
\* the barriers.
FirstProcessDownloads == script \in {"temp", "kevin"} =>
    \A n \in Node : \A what \in DOMAIN cached[n] :
        cached[n][what] # None => IsFirst(cached[n][what])

\* The job ends on all workers: nobody waits for a collective that others do not enter.
JobFinishes == <>[](\A w \in Worker : todo[w] = <<>>)
=============================================================================
