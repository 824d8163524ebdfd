---------------------------- MODULE LearningRate -----------------------------
(* The learning rate of a job.  PyTorch scripts compute it from the position *)
(* (adjust_learning_rate); with Keras a list of callbacks changes it, and    *)
(* corrects the optimizer's momentum for the batch in which it changes       *)
(* (byteps/_keras/callbacks.py).  Rates are multiples of 1 / Unit.           *)
EXTENDS Naturals, Sequences, SequencesExt

CONSTANTS
    Size,       \* bps.size()
    Warmup,     \* warmup_epochs
    Decay,      \* the epoch from which the rate is divided by 10
    Unit        \* base_lr * bps.size(), the rate between warm-up and decay

\* multiplier of LearningRateWarmupCallbackImpl, applied to an initial rate:
\* a straight line from 1 / Size to 1.
warmup_multiplier(initial, epoch, batch, steps) ==
    (initial * ((epoch * steps + batch + 1) * (Size - 1) + Warmup * steps))
        \div (Size * Warmup * steps)

\* adjust_learning_rate of the PyTorch ImageNet scripts.
adjust_learning_rate(epoch, batch, steps) ==
    CASE epoch < Warmup -> warmup_multiplier(Unit, epoch, batch, steps)
      [] Warmup <= epoch /\ epoch < Decay -> Unit
      [] OTHER -> Unit \div 10

-----------------------------------------------------------------------------
(* The callbacks of keras_imagenet_resnet50.py, in the order of the list,   *)
(* with the epochs they are responsible for.                                *)
Never == 1000
callbacks ==
    << [start_epoch |-> 0, end_epoch |-> Warmup, staircase |-> FALSE, by |-> 1],
       [start_epoch |-> Warmup, end_epoch |-> Decay, staircase |-> TRUE, by |-> 1],
       [start_epoch |-> Decay, end_epoch |-> Never, staircase |-> TRUE, by |-> 10] >>
Callback == 1..Len(callbacks)

None == "none"
\* LearningRateScheduleCallbackImpl.__init__ of all of them, on an optimizer.
NewOptimizer(lr) ==
    [lr |-> lr, momentum |-> "own", initial_lr |-> [c \in Callback |-> 0],
     restore_momentum |-> [c \in Callback |-> None], broadcast_done |-> FALSE]

\* on_train_begin: the rate the optimizer has now is the initial one.
on_train_begin(o) == [o EXCEPT !.initial_lr = [c \in Callback |-> o.lr]]

InclusiveScope(c, epoch) ==
    callbacks[c].start_epoch <= epoch /\ epoch <= callbacks[c].end_epoch
InScope(c, epoch) == callbacks[c].start_epoch <= epoch /\ epoch < callbacks[c].end_epoch

FromCurrent(o, c, epoch, batch, steps) ==
    IF callbacks[c].staircase THEN o.lr \div callbacks[c].by
    ELSE warmup_multiplier(o.lr, epoch, batch, steps)
new_lr(o, c, epoch, batch, steps) ==
    IF callbacks[c].staircase THEN o.initial_lr[c] \div callbacks[c].by
    ELSE warmup_multiplier(o.initial_lr[c], epoch, batch, steps)

\* _adjust_learning_rate: momentum * new_lr / old_lr for this batch.
_adjust_learning_rate(o, c, lr) ==
    [o EXCEPT !.lr = lr,
              !.restore_momentum[c] = o.momentum,
              !.momentum = IF lr = o.lr THEN @ ELSE "corrected"]

\* on_batch_begin of one callback.
batch_begin(o, c, epoch, batch, steps) ==
    IF InScope(c, epoch) /\ (callbacks[c].staircase => batch = 0)
    THEN _adjust_learning_rate(o, c, new_lr(o, c, epoch, batch, steps)) ELSE o

\* _restore_momentum_if_needed of one callback.
batch_end(o, c) ==
    IF o.restore_momentum[c] = None THEN o
    ELSE [o EXCEPT !.momentum = o.restore_momentum[c], !.restore_momentum[c] = None]

\* All the callbacks cs of a script, in the order of its list.
on_batch_begin(o, cs, epoch, batch, steps) ==
    FoldLeft(LAMBDA a, c : batch_begin(a, c, epoch, batch, steps), o, cs)
on_batch_end(o, cs) == FoldLeft(batch_end, o, cs)

\* ReduceLROnPlateau, on the metrics in the logs.
on_plateau(o, stagnates) == [o EXCEPT !.lr = IF stagnates THEN @ \div 10 ELSE @]
=============================================================================
