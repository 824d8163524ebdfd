---------------------------- MODULE CrossBarrier -----------------------------
(* byteps/torch/cross_barrier.py: the optimizer wrapper that lets the next  *)
(* forward pass start while gradients are still being aggregated.  In every *)
(* worker process the main thread runs the training loop (forward hooks,    *)
(* backward hooks, step) and a poller thread takes (p, handle) events from  *)
(* a FIFO, applies the finished ones and puts the others back.  A lock per  *)
(* parameter keeps the forward pass away from a parameter in flight.        *)
(*                                                                          *)
(* A gradient is the set of contributions <<worker, step>> summed into it.  *)
(* The core under byteps_push_pull is external: the n-th push of p finishes *)
(* on a worker some time after every worker has made its n-th push of p.    *)
EXTENDS Naturals, Sequences, FiniteSets, SequencesExt

CONSTANTS
    Worker,     \* the processes; size() = Cardinality(Worker)
    Param,      \* the parameters that require a gradient
    Forward,    \* Forward[k]: those the forward pass of step k meets, in order
    final_step, \* num_steps
    Momentum    \* group['momentum'] # 0

None == 0                       \* handles are numbered from 1
Sentinel == [p |-> "none", handle |-> None]

VARIABLES
    opt,                \* the torch optimizer that is wrapped
    step, pc, idx,      \* main thread: self._step, where it is, which parameter
    handles,            \* self._handles, an insertion-ordered dict
    locks,              \* self._locks: is the lock held
    push_pull_delay,    \* self._push_pull_delay
    grad,               \* p.grad
    param,              \* p.data and self.state[p]
    event_queue,        \* self._event_queue
    ppc, event,         \* poller thread: where it is, the event it holds
    pushed, done        \* the core: gradients pushed and operations finished

main == <<step, pc, idx, handles>>
poller == <<ppc, event>>
core == <<pushed, done>>
vars == <<opt, main, locks, push_pull_delay, grad, param, event_queue, poller, core>>

Keys(d) == {d[i].p : i \in DOMAIN d}
\* d[p] = h: in place when the key is there, at the end otherwise.
SetItem(d, p, h) ==
    IF p \in Keys(d)
    THEN [i \in DOMAIN d |-> IF d[i].p = p THEN [p |-> p, handle |-> h] ELSE d[i]]
    ELSE Append(d, [p |-> p, handle |-> h])
DelItem(d, p) ==
    IF p \in Keys(d) THEN RemoveAt(d, CHOOSE i \in DOMAIN d : d[i].p = p) ELSE d

Init ==
    /\ opt \in {"SGD", "Adam", "RMSprop"}
    /\ step = [w \in Worker |-> 0]
    /\ pc = [w \in Worker |-> "init"]
    /\ idx = [w \in Worker |-> 0]
    /\ handles = [w \in Worker |-> <<>>]
    /\ locks = [w \in Worker |-> [p \in Param |-> FALSE]]
    /\ push_pull_delay = [w \in Worker |-> [p \in Param |-> 1]]
    /\ grad = [w \in Worker |-> [p \in Param |-> {}]]
    /\ param = [w \in Worker |-> [p \in Param |-> [data |-> <<>>, buf |-> <<>>, step |-> 0]]]
    /\ event_queue = [w \in Worker |-> <<>>]
    /\ ppc = [w \in Worker |-> "get"]
    /\ event = [w \in Worker |-> Sentinel]
    /\ pushed = [w \in Worker |-> [p \in Param |-> <<>>]]
    /\ done = [w \in Worker |-> [p \in Param |-> 0]]

-----------------------------------------------------------------------------
(* What a mistake in the code would do; used by the mutation checks only.   *)

\* The forward pass does not wait for the lock.
HookWithoutLock(w) ==
    LET p == Forward[step[w]][idx[w]] IN
    /\ pc[w] = "forward"
    /\ handles' = [handles EXCEPT ![w] = DelItem(@, p)]
    /\ IF idx[w] < Len(Forward[step[w]])
       THEN idx' = [idx EXCEPT ![w] = @ + 1] /\ UNCHANGED pc
       ELSE pc' = [pc EXCEPT ![w] = "backward"] /\ UNCHANGED idx
    /\ UNCHANGED <<opt, step, locks, push_pull_delay, grad, param, event_queue, poller, core>>

\* The gradient of the finished step stays.
GradientNotCleared(w) ==
    /\ ppc[w] = "zero_one_grad"
    /\ ppc' = [ppc EXCEPT ![w] = "release"]
    /\ UNCHANGED <<opt, main, locks, push_pull_delay, grad, param, event_queue, event, core>>

\* The lock released before the gradient is cleared.
EarlyRelease(w) ==
    /\ ppc[w] = "zero_one_grad"
    /\ locks' = [locks EXCEPT ![w][event[w].p] = FALSE]
    /\ ppc' = [ppc EXCEPT ![w] = "release"]
    /\ UNCHANGED <<opt, main, push_pull_delay, grad, param, event_queue, event, core>>

\* The last step joins a poller it has not told to exit.
JoinWithoutSentinel(w) ==
    /\ pc[w] = "step" /\ Param \subseteq Keys(handles[w])
    /\ \A i \in DOMAIN handles[w] : handles[w][i].handle # None
    /\ step[w] = final_step
    /\ event_queue[w] = <<>>
    /\ pc' = [pc EXCEPT ![w] = "join"]
    /\ UNCHANGED <<opt, step, idx, handles, locks, push_pull_delay, grad, param, event_queue,
                   poller, core>>

-----------------------------------------------------------------------------
(* The update rules.  p.data is the sequence of directions it was moved by, *)
(* a direction the sequence of gradients it depends on: SGD's momentum      *)
(* buffer and the moving averages of Adam and RMSprop depend on all so far. *)
sgd(s, g) ==
    LET buf == IF Momentum THEN Append(s.buf, g) ELSE s.buf
    IN  [s EXCEPT !.buf = buf,
                  !.data = Append(@, IF Momentum THEN buf ELSE <<g>>)]

adam(s, g) ==
    LET avg == Append(s.buf, g)
    IN  [data |-> Append(s.data, avg), buf |-> avg, step |-> s.step + 1]

rmsprop(s, g) ==
    LET avg == Append(s.buf, g)
    IN  [data |-> Append(s.data, avg), buf |-> avg, step |-> s.step + 1]

Update(s, g) == CASE opt = "SGD"     -> sgd(s, g)
                  [] opt = "Adam"    -> adam(s, g)
                  [] opt = "RMSprop" -> rmsprop(s, g)

-----------------------------------------------------------------------------
(* The main thread.                                                         *)

\* The layers that take part in the pass of w's step.
Layers(w) == Forward[step[w]]

\* Step 0: broadcast_optimizer_state calls step() once, on zero gradients,
\* which move no parameter.
StepZero(w) ==
    /\ pc[w] = "init"
    /\ step' = [step EXCEPT ![w] = 1]
    /\ pc' = [pc EXCEPT ![w] = "zero_grad"]
    /\ UNCHANGED <<opt, idx, handles, locks, push_pull_delay, grad, param, event_queue, poller, core>>

\* zero_grad is a no-op from step 1 on; the poller clears each gradient.
zero_grad(w) ==
    /\ pc[w] = "zero_grad"
    /\ grad' = IF step[w] > 0 THEN grad
               ELSE [grad EXCEPT ![w] = [p \in Param |-> {}]]
    /\ pc' = [pc EXCEPT ![w] = "forward"]
    /\ idx' = [idx EXCEPT ![w] = 1]
    /\ UNCHANGED <<opt, step, handles, locks, push_pull_delay, param, event_queue, poller, core>>

\* Forget the old handle, then pass through the lock.
pre_forward_hook(w) ==
    LET p == Layers(w)[idx[w]] IN
    /\ pc[w] = "forward"
    /\ ~locks[w][p]
    /\ handles' = [handles EXCEPT ![w] = DelItem(@, p)]
    /\ IF idx[w] < Len(Layers(w))
       THEN idx' = [idx EXCEPT ![w] = @ + 1] /\ UNCHANGED pc
       ELSE pc' = [pc EXCEPT ![w] = "backward"] /\ UNCHANGED idx
    /\ UNCHANGED <<opt, step, locks, push_pull_delay, grad, param, event_queue, poller, core>>

\* _DistributedOptimizer._make_hook: the gradient has just been accumulated.
hook(w) ==
    LET p == Layers(w)[idx[w]] IN
    /\ pc[w] = "backward"
    /\ grad' = [grad EXCEPT ![w][p] = @ \cup {<<w, step[w]>>}]
    /\ IF push_pull_delay[w][p] > 0
       THEN /\ push_pull_delay' = [push_pull_delay EXCEPT ![w][p] = @ - 1]
            /\ handles' = [handles EXCEPT ![w] = SetItem(@, p, None)]
            /\ IF idx[w] > 1
               THEN idx' = [idx EXCEPT ![w] = @ - 1] /\ UNCHANGED pc
               ELSE pc' = [pc EXCEPT ![w] = "step"] /\ UNCHANGED idx
       ELSE /\ pc' = [pc EXCEPT ![w] = "raised"]
            /\ UNCHANGED <<idx, handles, push_pull_delay>>
    /\ UNCHANGED <<opt, step, locks, param, event_queue, poller, core>>

push_pull_grad_async(w, p) ==
    LET h == Len(pushed[w][p]) + 1 IN
    /\ ~locks[w][p]
    /\ locks' = [locks EXCEPT ![w][p] = TRUE]
    /\ pushed' = [pushed EXCEPT ![w][p] = Append(@, grad[w][p])]
    /\ event_queue' = [event_queue EXCEPT ![w] = Append(@, [p |-> p, handle |-> h])]
    /\ handles' = [handles EXCEPT ![w] = SetItem(@, p, h)]

\* requires_update - handles.keys(), in the arbitrary order of a Python set;
\* then the handles that the hooks left at None, in the order of the dict.
Missing(w) == Param \ Keys(handles[w])
NoHandle(w) == {i \in DOMAIN handles[w] : handles[w][i].handle = None}

synchronize(w) ==
    /\ pc[w] = "step"
    /\ \/ \E p \in Missing(w) : push_pull_grad_async(w, p)
       \/ /\ Missing(w) = {}
          /\ \E i \in NoHandle(w) :
                /\ \A j \in NoHandle(w) : i <= j
                /\ push_pull_grad_async(w, handles[w][i].p)
    /\ UNCHANGED <<opt, step, pc, idx, push_pull_delay, grad, param, poller, done>>

StepReturns(w) ==
    /\ pc[w] = "step" /\ Missing(w) = {} /\ NoHandle(w) = {}
    /\ step[w] # final_step
    /\ step' = [step EXCEPT ![w] = @ + 1]
    /\ pc' = [pc EXCEPT ![w] = "zero_grad"]
    /\ UNCHANGED <<opt, idx, handles, locks, push_pull_delay, grad, param, event_queue, poller, core>>

\* The last step waits for an empty queue, posts the sentinel and joins.
FinalStepDrained(w) ==
    /\ pc[w] = "step" /\ Missing(w) = {} /\ NoHandle(w) = {}
    /\ step[w] = final_step
    /\ event_queue[w] = <<>>
    /\ event_queue' = [event_queue EXCEPT ![w] = Append(@, Sentinel)]
    /\ pc' = [pc EXCEPT ![w] = "join"]
    /\ UNCHANGED <<opt, step, idx, handles, locks, push_pull_delay, grad, param, poller, core>>

Join(w) ==
    /\ pc[w] = "join" /\ ppc[w] = "exited"
    /\ step' = [step EXCEPT ![w] = @ + 1]
    /\ pc' = [pc EXCEPT ![w] = "finished"]
    /\ UNCHANGED <<opt, idx, handles, locks, push_pull_delay, grad, param, event_queue, poller, core>>

-----------------------------------------------------------------------------
(* The poller thread: _poll.                                                *)

PollGet(w) ==
    /\ ppc[w] = "get" /\ event_queue[w] # <<>>
    /\ event' = [event EXCEPT ![w] = Head(event_queue[w])]
    /\ event_queue' = [event_queue EXCEPT ![w] = Tail(@)]
    /\ ppc' = [ppc EXCEPT ![w] = IF Head(event_queue[w]) = Sentinel THEN "exited" ELSE "poll"]
    /\ UNCHANGED <<opt, main, locks, push_pull_delay, grad, param, core>>

PollAgain(w) ==
    /\ ppc[w] = "poll" /\ done[w][event[w].p] < event[w].handle
    /\ event_queue' = [event_queue EXCEPT ![w] = Append(@, event[w])]
    /\ event' = [event EXCEPT ![w] = Sentinel]
    /\ ppc' = [ppc EXCEPT ![w] = "get"]
    /\ UNCHANGED <<opt, main, locks, push_pull_delay, grad, param, core>>

PollFinished(w) ==
    LET p == event[w].p
        output == UNION {pushed[v][p][event[w].handle] : v \in Worker}
    IN
    /\ ppc[w] = "poll" /\ done[w][p] >= event[w].handle
    /\ grad' = [grad EXCEPT ![w][p] = output]
    /\ push_pull_delay' = [push_pull_delay EXCEPT ![w][p] = 1]
    /\ param' = [param EXCEPT ![w][p] = Update(@, output)]
    /\ ppc' = [ppc EXCEPT ![w] = "zero_one_grad"]
    /\ UNCHANGED <<opt, main, locks, event_queue, event, core>>

zero_one_grad(w) ==
    /\ ppc[w] = "zero_one_grad"
    /\ grad' = [grad EXCEPT ![w][event[w].p] = {}]
    /\ ppc' = [ppc EXCEPT ![w] = "release"]
    /\ UNCHANGED <<opt, main, locks, push_pull_delay, param, event_queue, event, core>>

PollRelease(w) ==
    /\ ppc[w] = "release"
    /\ locks' = [locks EXCEPT ![w][event[w].p] = FALSE]
    /\ event' = [event EXCEPT ![w] = Sentinel]
    /\ ppc' = [ppc EXCEPT ![w] = "get"]
    /\ UNCHANGED <<opt, main, push_pull_delay, grad, param, event_queue, core>>

-----------------------------------------------------------------------------
\* The core marks the handle of w's next push of p done.
MarkDone(w, p) ==
    /\ \A v \in Worker : Len(pushed[v][p]) > done[w][p]
    /\ done' = [done EXCEPT ![w][p] = @ + 1]
    /\ UNCHANGED <<opt, main, locks, push_pull_delay, grad, param, event_queue, poller, pushed>>

Main(w) ==
    \/ StepZero(w) \/ zero_grad(w) \/ pre_forward_hook(w) \/ hook(w)
    \/ synchronize(w) \/ StepReturns(w) \/ FinalStepDrained(w) \/ Join(w)

Poller(w) == PollGet(w) \/ PollAgain(w) \/ PollFinished(w) \/ zero_one_grad(w) \/ PollRelease(w)

-----------------------------------------------------------------------------
\* The events in flight on w: queued, or in the poller's hands.
InFlight(w) == (Range(event_queue[w]) \cup {event[w]}) \ {Sentinel}

\* Lock protocol of _push_pull_grad_async / _poll: a parameter's lock is held
\* exactly while one event of it is in flight, so acquire never finds the main
\* thread's own lock held for good and release never meets a free lock.
LockHeldWhileInFlight ==
    \A w \in Worker, p \in Param :
        Cardinality({e \in InFlight(w) : e.p = p}) = (IF locks[w][p] THEN 1 ELSE 0)

\* pre_forward_hook ("block forward computation until the push-pull and
\* parameter update is finished"): whatever the layers computed so far read is
\* the result of every push made of it, and of nothing newer.
ForwardReadsUpdated ==
    \A w \in Worker : pc[w] \in {"forward", "backward"} =>
        \A i \in 1..Len(Layers(w)) :
            pc[w] = "backward" \/ i < idx[w] =>
                LET p == Layers(w)[i]
                IN  Len(param[w][p].data) = Len(pushed[w][p]) /\ ~locks[w][p]

\* The steps that push p: those whose pass meets it, and step 1, which finds
\* no handle of it.
PushSteps(p) ==
    SetToSortSeq({1} \cup {k \in 1..final_step : p \in Range(Forward[k])}, <)

\* The contributions synchronous data-parallel training averages in the n-th.
StepSum(p, n) ==
    LET k == PushSteps(p)[n]
    IN  IF p \in Range(Forward[k]) THEN {<<w, k>> : w \in Worker} ELSE {}

\* Crossing the barrier changes no result: the n-th update of p is made, on
\* every worker, from the gradients all workers computed in the n-th step that
\* pushes p, each counted once, whatever step the other parameters are at.
UpdatesAreSynchronous ==
    \A w \in Worker, p \in Param : \A n \in 1..Len(param[w][p].data) :
        LET direction == param[w][p].data[n]
        IN  /\ Last(direction) = StepSum(p, n)
            /\ Len(direction) > 1 => direction = [j \in 1..n |-> StepSum(p, j)]

\* The assertions of the backward hook (torch/__init__.py: "Gradients were
\* computed more than backward_passes_per_step times before call to step()")
\* never fire: the poller resets the delay before the forward pass may go on.
HookNeverRaises == \A w \in Worker : pc[w] # "raised"
=============================================================================
