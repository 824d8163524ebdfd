---------------------------- MODULE PluginProofs -----------------------------
(* Theorems about the framework plugins, for all numbers of workers, of      *)
(* parameters and of training steps: what updates hold, when they are read,  *)
(* and what training starts from.                                            *)
EXTENDS ReplicaProofs

-----------------------------------------------------------------------------
(* The cross-barrier optimizer: its main thread and its poller.             *)

Gradient == SUBSET (Worker \X Nat)
Event == [p : Weights, handle : Nat \ {0}]
None == CB!None
Sentinel == CB!Sentinel

MainPc == {"init", "zero_grad", "forward", "backward", "step", "join", "finished"}

CBTypeOK ==
    /\ opt \in {"SGD", "Adam", "RMSprop"}
    /\ step \in [Worker -> Nat]
    /\ pc \in [Worker -> MainPc]
    /\ idx \in [Worker -> Nat]
    /\ handles \in [Worker -> Seq([p : Weights, handle : Nat])]
    /\ locks \in [Worker -> [Weights -> BOOLEAN]]
    /\ push_pull_delay \in [Worker -> [Weights -> {0, 1}]]
    /\ grad \in [Worker -> [Weights -> Gradient]]
    /\ param \in [Worker -> [Weights ->
            [data : Seq(Seq(Gradient)), buf : Seq(Gradient), step : Nat]]]
    /\ event_queue \in [Worker -> Seq(Event \cup {Sentinel})]
    /\ ppc \in [Worker -> {"get", "poll", "zero_one_grad", "release", "exited"}]
    /\ event \in [Worker -> Event \cup {Sentinel}]
    /\ pushed \in [Worker -> [Weights -> Seq(Gradient)]]
    /\ done \in [Worker -> [Weights -> Nat]]

\* The core finishes nothing that some worker has not started.
CBCoreInv ==
    \A v, w \in Worker, p \in Weights : done[w][p] <= Len(pushed[v][p])

\* The poller holds an event of p, whose update it has made or not.
Holds(w, p) == ppc[w] \in {"poll", "zero_one_grad", "release"} /\ event[w].p = p
Updated(w, p) == ppc[w] \in {"zero_one_grad", "release"} /\ event[w].p = p
QueuedAt(w, p, i) == event_queue[w][i] \in Event /\ event_queue[w][i].p = p

\* A parameter's lock is held exactly while one event of it is queued or in
\* the poller's hands; that event is of its last push.
Locked(w, p) ==
    locks[w][p] => Holds(w, p) \/ \E i \in 1..Len(event_queue[w]) : QueuedAt(w, p, i)
HeldOnce(w, p) ==
    Holds(w, p) => locks[w][p] /\ event[w].handle = Len(pushed[w][p])
QueuedOnce(w, p) ==
    \A i \in 1..Len(event_queue[w]) : QueuedAt(w, p, i) =>
        /\ locks[w][p] /\ ~Holds(w, p) /\ event_queue[w][i].handle = Len(pushed[w][p])
        /\ \A j \in 1..Len(event_queue[w]) : QueuedAt(w, p, j) => i = j
AllApplied(w, p) ==
    Len(pushed[w][p]) =
        Len(param[w][p].data) + (IF locks[w][p] /\ ~Updated(w, p) THEN 1 ELSE 0)

CBLockInv(w) ==
    /\ IF ppc[w] \in {"get", "exited"} THEN event[w] = Sentinel ELSE event[w] \in Event
    /\ \A p \in Weights : Locked(w, p) /\ HeldOnce(w, p) /\ QueuedOnce(w, p) /\ AllApplied(w, p)

\* What the pass has gone through so far is not in flight.
CBPassInv(w) ==
    /\ pc[w] \in {"zero_grad", "forward", "backward", "step"} => step[w] \in 1..final_step
    /\ pc[w] \in {"forward", "backward"} => idx[w] \in 1..Len(CB!Layers(w))
    /\ pc[w] \in {"forward", "backward"} =>
        \A i \in 1..Len(CB!Layers(w)) :
            pc[w] = "backward" \/ i < idx[w] => ~locks[w][CB!Layers(w)[i]]

\* A delay that is used up is reset by the poller before it releases the lock,
\* and what no event is in flight for will be pushed before step returns.
CBDelayInv(w) ==
    /\ \A p \in Weights : Updated(w, p) => push_pull_delay[w][p] = 1
    /\ \A p \in Weights : push_pull_delay[w][p] = 0 =>
        \/ locks[w][p]
        \/ /\ pc[w] \in {"backward", "step"}
           /\ \E j \in 1..Len(handles[w]) : handles[w][j] = [p |-> p, handle |-> None]
    /\ pc[w] = "backward" =>
        \A i \in 1..idx[w] : push_pull_delay[w][CB!Layers(w)[i]] = 1

CBLocal(w) == CBLockInv(w) /\ CBPassInv(w) /\ CBDelayInv(w)

CBInv == CBTypeOK /\ CBCoreInv /\ \A w \in Worker : CBLocal(w)

CBStep ==
    \/ \E w \in Worker : CB!Main(w) \/ CB!Poller(w)
    \/ \E w \in Worker, p \in Weights : CB!MarkDone(w, p)

-----------------------------------------------------------------------------
LEMMA CBInit == CB!Init => CBInv
  <1> SUFFICES ASSUME CB!Init PROVE CBInv
    OBVIOUS
  <1> USE DEF CB!Init, Weights
  <1>1. Sentinel = CB!Sentinel /\ {} \in Gradient /\ << >> \in Seq(Gradient)
        /\ << >> \in Seq(Seq(Gradient)) /\ Len(<< >>) = 0
    BY DEF Sentinel, Gradient
  <1>2. CBTypeOK
    <2>1. /\ step \in [Worker -> Nat] /\ pc \in [Worker -> MainPc] /\ idx \in [Worker -> Nat]
          /\ handles \in [Worker -> Seq([p : Weights, handle : Nat])]
      BY DEF MainPc
    <2>2. /\ locks \in [Worker -> [Weights -> BOOLEAN]]
          /\ push_pull_delay \in [Worker -> [Weights -> {0, 1}]]
          /\ grad \in [Worker -> [Weights -> Gradient]]
          /\ pushed \in [Worker -> [Weights -> Seq(Gradient)]]
          /\ done \in [Worker -> [Weights -> Nat]]
      BY <1>1
    <2>3. param \in [Worker -> [Weights -> [data : Seq(Seq(Gradient)), buf : Seq(Gradient), step : Nat]]]
      BY <1>1
    <2>4. /\ event_queue \in [Worker -> Seq(Event \cup {Sentinel})]
          /\ ppc \in [Worker -> {"get", "poll", "zero_one_grad", "release", "exited"}]
          /\ event \in [Worker -> Event \cup {Sentinel}]
      BY <1>1
    <2> QED BY <2>1, <2>2, <2>3, <2>4 DEF CBTypeOK
  <1>3. CBCoreInv
    BY <1>1 DEF CBCoreInv
  <1>4. ASSUME NEW w \in Worker PROVE CBLocal(w)
    <2>1. CBLockInv(w)
      BY <1>1 DEF CBLockInv, Locked, HeldOnce, QueuedOnce, AllApplied, Holds, Updated, QueuedAt
    <2>2. CBPassInv(w)
      BY DEF CBPassInv
    <2>3. CBDelayInv(w)
      BY DEF CBDelayInv, Updated
    <2> QED BY <2>1, <2>2, <2>3 DEF CBLocal
  <1> QED BY <1>2, <1>3, <1>4 DEF CBInv

\* The three parts of the invariant, for a worker whose threads do not move.
LEMMA CBLockFrame ==
  ASSUME NEW w \in Worker, CBLockInv(w),
         UNCHANGED <<locks[w], param[w], event_queue[w], ppc[w], event[w], pushed[w]>>
  PROVE  CBLockInv(w)'
  <1>1. \A p : (Holds(w, p)' <=> Holds(w, p)) /\ (Updated(w, p)' <=> Updated(w, p))
    BY DEF Holds, Updated
  <1>2. \A p, i : QueuedAt(w, p, i)' <=> QueuedAt(w, p, i)
    BY DEF QueuedAt
  <1>3. ASSUME NEW p, Locked(w, p), HeldOnce(w, p) PROVE Locked(w, p)' /\ HeldOnce(w, p)'
    BY <1>1, <1>2, <1>3 DEF Locked, HeldOnce
  <1>4. ASSUME NEW p, QueuedOnce(w, p) PROVE QueuedOnce(w, p)'
    BY <1>1, <1>2, <1>4 DEF QueuedOnce
  <1>5. ASSUME NEW p, AllApplied(w, p) PROVE AllApplied(w, p)'
    BY <1>1, <1>5 DEF AllApplied
  <1> QED BY <1>3, <1>4, <1>5 DEF CBLockInv

LEMMA CBPassFrame ==
  ASSUME NEW w \in Worker, CBPassInv(w), UNCHANGED <<step[w], pc[w], idx[w], locks[w]>>
  PROVE  CBPassInv(w)'
  BY DEF CBPassInv, CB!Layers

LEMMA CBDelayFrame ==
  ASSUME NEW w \in Worker, CBDelayInv(w),
         UNCHANGED <<step[w], pc[w], idx[w], handles[w], locks[w], push_pull_delay[w], ppc[w], event[w]>>
  PROVE  CBDelayInv(w)'
  BY DEF CBDelayInv, Updated, CB!Layers

LEMMA CBOthers ==
  ASSUME CBInv, NEW v \in Worker,
         UNCHANGED <<step[v], pc[v], idx[v], handles[v], locks[v], push_pull_delay[v], param[v],
                     event_queue[v], ppc[v], event[v], pushed[v]>>
  PROVE  CBLocal(v)'
  <1>1. CBLockInv(v)'
    BY CBLockFrame DEF CBInv, CBLocal
  <1>2. CBPassInv(v)'
    BY CBPassFrame DEF CBInv, CBLocal
  <1>3. CBDelayInv(v)'
    BY CBDelayFrame DEF CBInv, CBLocal
  <1> QED BY <1>1, <1>2, <1>3 DEF CBLocal

\* What the forward pass of a step meets.
LEMMA LayersTypes ==
  ASSUME CBInv, NEW w \in Worker, pc[w] \in {"zero_grad", "forward", "backward", "step"}
  PROVE  /\ step[w] \in 1..final_step
         /\ Len(CB!Layers(w)) \in Nat \ {0}
         /\ \A i \in 1..Len(CB!Layers(w)) : CB!Layers(w)[i] \in Weights
         /\ \A i, j \in 1..Len(CB!Layers(w)) : CB!Layers(w)[i] = CB!Layers(w)[j] => i = j
  <1>1. step[w] \in 1..final_step
    BY DEF CBInv, CBLocal, CBPassInv
  <1>2. CB!Layers(w) = Forward[step[w]] /\ Forward[step[w]] \in Seq(Weights) /\ Forward[step[w]] # << >>
    BY <1>1, ForwardAssumption DEF CB!Layers, Weights
  <1>3. DOMAIN Forward[step[w]] = 1..Len(Forward[step[w]])
    BY <1>2
  <1>4. \A i, j \in DOMAIN Forward[step[w]] : Forward[step[w]][i] = Forward[step[w]][j] => i = j
    BY <1>1, ForwardAssumption
  <1> QED BY <1>1, <1>2, <1>3, <1>4

LEMMA DelItemType ==
  ASSUME NEW S, NEW d \in Seq(S), NEW p
  PROVE  CB!DelItem(d, p) \in Seq(S)
  <1>1. CASE p \in CB!Keys(d)
    <2> DEFINE i == CHOOSE i \in DOMAIN d : d[i].p = p
    <2>1. i \in DOMAIN d /\ DOMAIN d = 1..Len(d) /\ Len(d) \in Nat
      BY <1>1 DEF CB!Keys
    <2> HIDE DEF i
    <2>2. SubSeq(d, 1, i - 1) \in Seq(S)
      BY <2>1
    <2>3. SubSeq(d, i + 1, Len(d)) \in Seq(S)
      BY <2>1
    <2>4. CB!DelItem(d, p) = SubSeq(d, 1, i - 1) \o SubSeq(d, i + 1, Len(d))
      BY <1>1 DEF CB!DelItem, CB!RemoveAt, i
    <2> QED BY <2>2, <2>3, <2>4
  <1>2. CASE p \notin CB!Keys(d)
    BY <1>2 DEF CB!DelItem
  <1> QED BY <1>1, <1>2

-----------------------------------------------------------------------------
(* Steps of the main thread.                                                *)

\* Steps that leave the locks, the events and the delays alone.
LEMMA CBMainFrame ==
  ASSUME CBInv, NEW w \in Worker, CBTypeOK',
         UNCHANGED <<locks, push_pull_delay, param, event_queue, ppc, event, pushed, done>>,
         \A v \in Worker : v # w => UNCHANGED <<step[v], pc[v], idx[v], handles[v]>>,
         CBPassInv(w)', CBDelayInv(w)'
  PROVE  CBInv'
  <1>1. CBCoreInv'
    BY DEF CBInv, CBCoreInv
  <1>2. CBLocal(w)'
    BY CBLockFrame DEF CBInv, CBLocal
  <1>3. \A v \in Worker : v # w => CBLocal(v)'
    BY CBOthers
  <1> QED BY <1>1, <1>2, <1>3 DEF CBInv

LEMMA StepZeroStep ==
  ASSUME CBInv, NEW w \in Worker, CB!StepZero(w)
  PROVE  CBInv'
  <1>1. CBTypeOK'
    BY DEF CBInv, CBTypeOK, MainPc, CB!StepZero, CB!poller, CB!core
  <1>2. /\ pc'[w] = "zero_grad" /\ step'[w] = 1
        /\ UNCHANGED <<locks, push_pull_delay, param, event_queue, ppc, event, pushed, done, idx, handles>>
        /\ \A v \in Worker : v # w => UNCHANGED <<step[v], pc[v], idx[v], handles[v]>>
    BY DEF CBInv, CBTypeOK, MainPc, CB!StepZero, CB!poller, CB!core
  <1>3. CBPassInv(w)'
    BY <1>2, ForwardAssumption DEF CBPassInv
  <1>4. CBDelayInv(w)'
    BY <1>2 DEF CBInv, CBLocal, CBDelayInv, Updated, CB!StepZero
  <1> QED BY <1>1, <1>2, <1>3, <1>4, CBMainFrame

LEMMA ZeroGradStep ==
  ASSUME CBInv, NEW w \in Worker, CB!zero_grad(w)
  PROVE  CBInv'
  <1>1. step[w] \in 1..final_step /\ pc[w] = "zero_grad" /\ Len(CB!Layers(w)) \in Nat \ {0}
    BY LayersTypes DEF CB!zero_grad
  <1>2. /\ pc'[w] = "forward" /\ idx'[w] = 1
        /\ UNCHANGED <<locks, push_pull_delay, param, event_queue, ppc, event, pushed, done, step, handles>>
        /\ UNCHANGED <<opt, grad>>
        /\ \A v \in Worker : v # w => UNCHANGED <<step[v], pc[v], idx[v], handles[v]>>
    BY <1>1 DEF CBInv, CBTypeOK, CB!zero_grad, CB!poller, CB!core
  <1>3. CBTypeOK'
    BY <1>2 DEF CBInv, CBTypeOK, MainPc, CB!zero_grad
  <1>4. CBPassInv(w)'
    <2>1. CB!Layers(w)' = CB!Layers(w)
      BY <1>2 DEF CB!Layers
    <2> QED BY <1>1, <1>2, <2>1 DEF CBPassInv
  <1>5. CBDelayInv(w)'
    BY <1>1, <1>2 DEF CBInv, CBLocal, CBDelayInv, Updated
  <1> QED BY <1>2, <1>3, <1>4, <1>5, CBMainFrame

\* The lock that the pass has just gone through is free, so the delay is reset.
LEMMA PreForwardHookStep ==
  ASSUME CBInv, NEW w \in Worker, CB!pre_forward_hook(w)
  PROVE  CBInv'
  <1> DEFINE L == CB!Layers(w)
             p == L[idx[w]]
  <1>1. /\ pc[w] = "forward" /\ ~locks[w][p] /\ CBTypeOK
        /\ UNCHANGED <<opt, step, locks, push_pull_delay, grad, param, event_queue, ppc, event, pushed, done>>
    BY DEF CBInv, CB!pre_forward_hook, CB!poller, CB!core
  <1>2. /\ step[w] \in 1..final_step /\ Len(L) \in Nat \ {0}
        /\ \A i \in 1..Len(L) : L[i] \in Weights
    BY <1>1, LayersTypes
  <1>3. idx[w] \in 1..Len(L) /\ \A i \in 1..Len(L) : i < idx[w] => ~locks[w][L[i]]
    BY <1>1 DEF CBInv, CBLocal, CBPassInv
  <1>4. handles' \in [Worker -> Seq([p : Weights, handle : Nat])]
    <2>1. handles' = [handles EXCEPT ![w] = CB!DelItem(handles[w], p)]
      BY DEF CB!pre_forward_hook
    <2>2. handles \in [Worker -> Seq([p : Weights, handle : Nat])]
      BY <1>1 DEF CBTypeOK
    <2>3. CB!DelItem(handles[w], p) \in Seq([p : Weights, handle : Nat])
      BY <2>2, DelItemType
    <2> QED BY <2>1, <2>2, <2>3
  <1>5. \/ /\ idx[w] < Len(L) /\ idx' = [idx EXCEPT ![w] = @ + 1] /\ pc' = pc
        \/ /\ idx[w] >= Len(L) /\ idx' = idx /\ pc' = [pc EXCEPT ![w] = "backward"]
    BY <1>2, <1>3 DEF CB!pre_forward_hook
  <1>6. CBTypeOK'
    <2>1. idx \in [Worker -> Nat] /\ pc \in [Worker -> MainPc] /\ "backward" \in MainPc
      BY <1>1 DEF CBTypeOK, MainPc
    <2>2. idx' \in [Worker -> Nat]
      BY <1>5, <2>1
    <2>3. pc' \in [Worker -> MainPc]
      BY <1>5, <2>1
    <2> QED BY <1>1, <1>4, <2>2, <2>3 DEF CBTypeOK
  <1>7. \A v \in Worker : v # w => UNCHANGED <<step[v], pc[v], idx[v], handles[v]>>
    BY <1>1, <1>5 DEF CBTypeOK, CB!pre_forward_hook
  <1>8. L' = L
    BY <1>1 DEF CB!Layers
  <1>9. \A i \in 1..Len(L) : i <= idx[w] => ~locks[w][L[i]]
    BY <1>1, <1>3
  <1>10. CBPassInv(w)'
    <2>1. CASE idx[w] < Len(L)
      <3>1. pc'[w] = "forward" /\ idx'[w] = idx[w] + 1
        BY <1>1, <1>5, <2>1 DEF CBTypeOK
      <3>2. idx[w] + 1 \in 1..Len(L) /\ \A i \in 1..Len(L) : i < idx[w] + 1 => i <= idx[w]
        BY <1>2, <1>3, <2>1
      <3>3. \A i \in 1..Len(L) : i < idx'[w] => ~locks'[w][L[i]]
        BY <1>1, <1>9, <3>1, <3>2
      <3> HIDE DEF L
      <3> QED BY <1>1, <1>2, <1>8, <3>1, <3>2, <3>3 DEF CBPassInv, L
    <2>2. CASE idx[w] >= Len(L)
      <3>1. pc'[w] = "backward" /\ idx'[w] = idx[w]
        BY <1>1, <1>2, <1>3, <1>5, <2>2 DEF CBTypeOK
      <3> HIDE DEF L
      <3> QED BY <1>1, <1>2, <1>3, <1>8, <1>9, <2>2, <3>1 DEF CBPassInv, L
    <2> QED BY <1>2, <1>3, <2>1, <2>2
  <1>11. CBDelayInv(w)'
    <2>1. \A q \in Weights : push_pull_delay[w][q] = 0 => locks[w][q]
      BY <1>1 DEF CBInv, CBLocal, CBDelayInv
    <2>2. \A q \in Weights : push_pull_delay[w][q] \in {0, 1}
      BY <1>1 DEF CBTypeOK
    <2>3. pc'[w] = "backward" => idx'[w] = idx[w] /\ \A i \in 1..idx[w] : i \in 1..Len(L)
      BY <1>1, <1>2, <1>3, <1>5 DEF CBTypeOK
    <2>4. pc'[w] = "backward" => \A i \in 1..idx'[w] : push_pull_delay[w][L[i]] = 1
      BY <1>2, <1>9, <2>1, <2>2, <2>3
    <2> HIDE DEF L
    <2> QED BY <1>1, <1>8, <2>1, <2>4 DEF CBInv, CBLocal, CBDelayInv, Updated, L
  <1> QED BY <1>1, <1>6, <1>7, <1>10, <1>11, CBMainFrame

\* When synchronize has pushed all that had no handle, every delay that is used
\* up belongs to a parameter in flight.
LEMMA NoHandleLeft ==
  ASSUME CBInv, NEW w \in Worker, CB!NoHandle(w) = {}
  PROVE  \A q \in Weights : push_pull_delay[w][q] = 0 => locks[w][q]
  <1>1. \A j \in 1..Len(handles[w]) : handles[w][j].handle # None
    <2>1. handles[w] \in Seq([p : Weights, handle : Nat])
      BY DEF CBInv, CBTypeOK
    <2>2. DOMAIN handles[w] = 1..Len(handles[w])
      BY <2>1
    <2> QED BY <2>2 DEF CB!NoHandle, None
  <1>2. ASSUME NEW q \in Weights, push_pull_delay[w][q] = 0, ~locks[w][q] PROVE FALSE
    <2>1. PICK j \in 1..Len(handles[w]) : handles[w][j] = [p |-> q, handle |-> None]
      BY <1>2 DEF CBInv, CBLocal, CBDelayInv
    <2>2. handles[w][j].handle = None
      BY <2>1
    <2> QED BY <1>1, <2>2
  <1> QED BY <1>2

LEMMA StepReturnsStep ==
  ASSUME CBInv, NEW w \in Worker, CB!StepReturns(w)
  PROVE  CBInv'
  <1>1. pc[w] = "step" /\ step[w] # final_step /\ CBTypeOK
    BY DEF CBInv, CB!StepReturns
  <1>2. /\ pc'[w] = "zero_grad" /\ step'[w] = step[w] + 1
        /\ UNCHANGED <<locks, push_pull_delay, param, event_queue, ppc, event, pushed, done, idx, handles>>
        /\ UNCHANGED <<opt, grad>>
        /\ \A v \in Worker : v # w => UNCHANGED <<step[v], pc[v], idx[v], handles[v]>>
    BY <1>1 DEF CBTypeOK, CB!StepReturns, CB!poller, CB!core
  <1>3. CBTypeOK'
    <2>1. step' \in [Worker -> Nat] /\ pc' \in [Worker -> MainPc]
      BY <1>1 DEF CBTypeOK, CB!StepReturns, MainPc
    <2> QED BY <1>1, <1>2, <2>1 DEF CBTypeOK
  <1>4. CBPassInv(w)'
    BY <1>1, <1>2, LayersTypes, ForwardAssumption DEF CBPassInv
  <1>5. CBDelayInv(w)'
    <2>1. \A q \in Weights : push_pull_delay[w][q] = 0 => locks[w][q]
      BY NoHandleLeft DEF CB!StepReturns
    <2> QED BY <1>2, <2>1 DEF CBInv, CBLocal, CBDelayInv, Updated
  <1> QED BY <1>2, <1>3, <1>4, <1>5, CBMainFrame

LEMMA JoinStep ==
  ASSUME CBInv, NEW w \in Worker, CB!Join(w)
  PROVE  CBInv'
  <1>1. pc[w] = "join" /\ CBTypeOK
    BY DEF CBInv, CB!Join
  <1>2. /\ pc'[w] = "finished"
        /\ UNCHANGED <<locks, push_pull_delay, param, event_queue, ppc, event, pushed, done, idx, handles>>
        /\ UNCHANGED <<opt, grad>>
        /\ \A v \in Worker : v # w => UNCHANGED <<step[v], pc[v], idx[v], handles[v]>>
    BY <1>1 DEF CBTypeOK, CB!Join, CB!poller, CB!core
  <1>3. CBTypeOK'
    <2>1. step' \in [Worker -> Nat] /\ pc' \in [Worker -> MainPc]
      BY <1>1 DEF CBTypeOK, CB!Join, MainPc
    <2> QED BY <1>1, <1>2, <2>1 DEF CBTypeOK
  <1>4. CBPassInv(w)'
    BY <1>2 DEF CBPassInv
  <1>5. CBDelayInv(w)'
    BY <1>1, <1>2 DEF CBInv, CBLocal, CBDelayInv, Updated
  <1> QED BY <1>2, <1>3, <1>4, <1>5, CBMainFrame

LEMMA SetItemProperties ==
  ASSUME NEW d \in Seq([p : Weights, handle : Nat]), NEW q \in Weights, NEW h \in Nat
  PROVE  /\ CB!SetItem(d, q, h) \in Seq([p : Weights, handle : Nat])
         /\ \E j \in 1..Len(CB!SetItem(d, q, h)) : CB!SetItem(d, q, h)[j] = [p |-> q, handle |-> h]
         /\ \A j \in 1..Len(d) : d[j].p # q =>
                j \in 1..Len(CB!SetItem(d, q, h)) /\ CB!SetItem(d, q, h)[j] = d[j]
  <1> DEFINE S == [p : Weights, handle : Nat]
             new == [p |-> q, handle |-> h]
             s == CB!SetItem(d, q, h)
  <1>1. Len(d) \in Nat /\ DOMAIN d = 1..Len(d) /\ new \in S /\ \A j \in 1..Len(d) : d[j] \in S
    <2>1. new \in S
      OBVIOUS
    <2> HIDE DEF S, new
    <2>2. d \in Seq(S)
      BY DEF S
    <2> QED BY <2>1, <2>2
  <1>2. CASE q \in CB!Keys(d)
    <2>1. s = [i \in 1..Len(d) |-> IF d[i].p = q THEN new ELSE d[i]]
      BY <1>1, <1>2 DEF CB!SetItem
    <2> HIDE DEF s, new, S
    <2>2. s \in [1..Len(d) -> S]
      BY <1>1, <2>1
    <2>3. s \in Seq(S) /\ Len(s) = Len(d)
      BY <1>1, <2>2
    <2>4. PICK j \in 1..Len(d) : d[j].p = q
      BY <1>1, <1>2 DEF CB!Keys
    <2>5. s[j] = new
      BY <2>1, <2>4
    <2>6. \A i \in 1..Len(d) : d[i].p # q => s[i] = d[i]
      BY <2>1
    <2> QED BY <2>3, <2>4, <2>5, <2>6 DEF s, new, S
  <1>3. CASE q \notin CB!Keys(d)
    <2>1. s = Append(d, new)
      BY <1>3 DEF CB!SetItem
    <2> HIDE DEF s, new
    <2>2. s \in Seq(S) /\ Len(s) = Len(d) + 1 /\ s[Len(d) + 1] = new
      BY <1>1, <2>1
    <2>3. \A j \in 1..Len(d) : j \in 1..Len(s) /\ s[j] = d[j]
      BY <1>1, <2>1
    <2> QED BY <1>1, <2>2, <2>3 DEF s, new
  <1> QED BY <1>2, <1>3

\* The backward hook finds a delay of one: the parameter was not in flight when
\* the forward pass came by, and no hook of the pass has used it yet.
LEMMA HookStep ==
  ASSUME CBInv, NEW w \in Worker, CB!hook(w)
  PROVE  CBInv'
  <1> DEFINE L == CB!Layers(w)
             p == L[idx[w]]
             d == handles[w]
             e == CB!SetItem(d, p, None)
  <1>1. pc[w] = "backward" /\ CBTypeOK /\ CBPassInv(w) /\ CBDelayInv(w) /\ CBLockInv(w)
    BY DEF CBInv, CBLocal, CB!hook
  <1>2. /\ step[w] \in 1..final_step /\ Len(L) \in Nat \ {0}
        /\ \A i \in 1..Len(L) : L[i] \in Weights
        /\ \A i, j \in 1..Len(L) : L[i] = L[j] => i = j
    BY <1>1, LayersTypes
  <1>3. idx[w] \in 1..Len(L) /\ (\A i \in 1..Len(L) : ~locks[w][L[i]]) /\ idx[w] \in Nat
    BY <1>1, <1>2 DEF CBPassInv
  <1>4. /\ \A i \in 1..idx[w] : push_pull_delay[w][L[i]] = 1
        /\ p \in Weights /\ ~locks[w][p] /\ push_pull_delay[w][p] = 1
    <2>1. \A i \in 1..idx[w] : push_pull_delay[w][L[i]] = 1
      BY <1>1 DEF CBDelayInv
    <2>2. idx[w] \in 1..idx[w]
      BY <1>3
    <2> QED BY <1>2, <1>3, <2>1, <2>2
  <1>5. d \in Seq([p : Weights, handle : Nat]) /\ None \in Nat
    BY <1>1 DEF CBTypeOK, None, CB!None
  <1>6. /\ e \in Seq([p : Weights, handle : Nat])
        /\ \E j \in 1..Len(e) : e[j] = [p |-> p, handle |-> None]
        /\ \A j \in 1..Len(d) : d[j].p # p => j \in 1..Len(e) /\ e[j] = d[j]
    <2> HIDE DEF p
    <2> QED BY <1>4, <1>5, SetItemProperties
  <1>7. /\ push_pull_delay' = [push_pull_delay EXCEPT ![w][p] = 0]
        /\ handles' = [handles EXCEPT ![w] = e]
        /\ grad' = [grad EXCEPT ![w][p] = @ \cup {<<w, step[w]>>}]
        /\ IF idx[w] > 1 THEN idx' = [idx EXCEPT ![w] = idx[w] - 1] /\ UNCHANGED pc
                         ELSE pc' = [pc EXCEPT ![w] = "step"] /\ UNCHANGED idx
        /\ UNCHANGED <<opt, step, locks, param, event_queue, ppc, event, pushed, done>>
    BY <1>4 DEF CB!hook, CB!poller, CB!core, None
  <1> HIDE DEF p, e
  <1>8. /\ CBTypeOK'
        /\ IF idx[w] > 1 THEN idx'[w] = idx[w] - 1 /\ pc'[w] = "backward" ELSE pc'[w] = "step"
        /\ \A v \in Worker : v # w => UNCHANGED <<step[v], pc[v], idx[v], handles[v], push_pull_delay[v]>>
    <2>1. /\ push_pull_delay \in [Worker -> [Weights -> {0, 1}]]
          /\ handles \in [Worker -> Seq([p : Weights, handle : Nat])]
          /\ grad \in [Worker -> [Weights -> Gradient]]
          /\ idx \in [Worker -> Nat] /\ pc \in [Worker -> MainPc] /\ "step" \in MainPc
      BY <1>1 DEF CBTypeOK, MainPc
    <2>2. push_pull_delay' \in [Worker -> [Weights -> {0, 1}]]
      BY <1>4, <1>7, <2>1
    <2>3. handles' \in [Worker -> Seq([p : Weights, handle : Nat])]
      BY <1>6, <1>7, <2>1
    <2>4. grad' \in [Worker -> [Weights -> Gradient]]
      <3>1. <<w, step[w]>> \in Worker \X Nat /\ grad[w][p] \in Gradient
        BY <1>2, <1>4, <2>1, ForwardAssumption
      <3>2. grad[w][p] \cup {<<w, step[w]>>} \in Gradient
        BY <3>1 DEF Gradient
      <3> DEFINE g == grad[w][p] \cup {<<w, step[w]>>}
      <3>3. g \in Gradient /\ grad' = [grad EXCEPT ![w][p] = g]
        BY <1>4, <1>7, <2>1, <3>2
      <3> HIDE DEF g
      <3> QED BY <1>4, <2>1, <3>3, ExceptType
    <2>5. idx' \in [Worker -> Nat] /\ IF idx[w] > 1 THEN idx'[w] = idx[w] - 1 ELSE TRUE
      <3>1. CASE idx[w] > 1
        <4>1. idx' = [idx EXCEPT ![w] = idx[w] - 1] /\ idx[w] - 1 \in Nat
          BY <1>3, <1>7, <3>1
        <4> QED BY <2>1, <3>1, <4>1
      <3>2. CASE ~(idx[w] > 1)
        BY <1>7, <2>1, <3>2
      <3> QED BY <3>1, <3>2
    <2>6. pc' \in [Worker -> MainPc] /\ IF idx[w] > 1 THEN pc'[w] = "backward" ELSE pc'[w] = "step"
      BY <1>1, <1>7, <2>1
    <2>7. \A v \in Worker : v # w => UNCHANGED <<step[v], pc[v], idx[v], handles[v], push_pull_delay[v]>>
      BY <1>7, <2>1
    <2> QED BY <1>1, <1>7, <2>2, <2>3, <2>4, <2>5, <2>6, <2>7 DEF CBTypeOK
  <1>9. L' = L
    BY <1>7 DEF CB!Layers
  <1>10. CBPassInv(w)'
    <2> HIDE DEF L
    <2>1. pc'[w] = "backward" => idx[w] - 1 \in 1..Len(L) /\ idx'[w] = idx[w] - 1
      BY <1>2, <1>3, <1>8
    <2> QED BY <1>2, <1>3, <1>7, <1>8, <1>9, <2>1 DEF CBPassInv, L
  <1>11. CBDelayInv(w)'
    <2>1. \A q \in Weights : push_pull_delay'[w][q] = IF q = p THEN 0 ELSE push_pull_delay[w][q]
      BY <1>1, <1>4, <1>7 DEF CBTypeOK
    <2>2. ASSUME NEW q \in Weights, Updated(w, q)' PROVE push_pull_delay'[w][q] = 1
      <3>1. Updated(w, q) /\ Holds(w, q)
        BY <1>7, <2>2 DEF Updated, Holds
      <3>2. q # p
        BY <1>1, <1>4, <3>1 DEF CBLockInv, HeldOnce
      <3> QED BY <1>1, <2>1, <3>1, <3>2 DEF CBDelayInv
    <2>3. ASSUME NEW q \in Weights, push_pull_delay'[w][q] = 0, ~locks[w][q]
          PROVE  \E j \in 1..Len(e) : e[j] = [p |-> q, handle |-> None]
      <3>1. CASE q = p
        BY <1>6, <3>1
      <3>2. CASE q # p
        <4>1. PICK j \in 1..Len(d) : d[j] = [p |-> q, handle |-> None]
          BY <1>1, <2>1, <2>3, <3>2 DEF CBDelayInv
        <4>2. d[j].p = q
          BY <4>1
        <4> QED BY <1>6, <3>2, <4>1, <4>2
      <3> QED BY <3>1, <3>2
    <2>4. handles'[w] = e /\ pc'[w] \in {"backward", "step"}
      BY <1>1, <1>7, <1>8 DEF CBTypeOK
    <2>5. ASSUME pc'[w] = "backward", NEW i \in 1..idx'[w]
          PROVE  push_pull_delay'[w][L[i]] = 1
      <3>1. i \in 1..Len(L) /\ i \in 1..idx[w] /\ i # idx[w]
        BY <1>2, <1>3, <1>8, <2>5
      <3>2. L[i] # p /\ L[i] \in Weights
        BY <1>2, <1>3, <3>1 DEF p
      <3> QED BY <1>4, <2>1, <3>1, <3>2
    <2> HIDE DEF L
    <2> QED BY <1>7, <1>9, <2>2, <2>3, <2>4, <2>5 DEF CBDelayInv, L
  <1>12. CBLocal(w)'
    BY <1>1, <1>7, <1>10, <1>11, CBLockFrame DEF CBLocal
  <1>13. \A v \in Worker : v # w => CBLocal(v)'
    BY <1>7, <1>8, CBOthers
  <1>14. CBCoreInv'
    BY <1>7 DEF CBInv, CBCoreInv
  <1> QED BY <1>8, <1>12, <1>13, <1>14 DEF CBInv

LEMMA CBWorkerStep ==
  ASSUME CBInv, NEW w \in Worker, CBTypeOK', CBCoreInv', CBLocal(w)',
         \A v \in Worker : v # w =>
            UNCHANGED <<step[v], pc[v], idx[v], handles[v], locks[v], push_pull_delay[v], param[v],
                        event_queue[v], ppc[v], event[v], pushed[v]>>
  PROVE  CBInv'
  <1>1. ASSUME NEW v \in Worker, v # w PROVE CBLocal(v)'
    BY <1>1, CBOthers
  <1> QED BY <1>1 DEF CBInv

\* A parameter pushed by synchronize has no event in flight.
LEMMA PushStep ==
  ASSUME CBInv, NEW w \in Worker, NEW p \in Weights, pc[w] = "step",
         CB!push_pull_grad_async(w, p),
         UNCHANGED <<opt, step, pc, idx, push_pull_delay, grad, param, ppc, event, done>>
  PROVE  CBInv'
  <1> DEFINE S == [p : Weights, handle : Nat]
             d == handles[w]
             q == event_queue[w]
             n == Len(q)
             h == Len(pushed[w][p]) + 1
             new == [p |-> p, handle |-> h]
             e == CB!SetItem(d, p, h)
  <1>1. CBTypeOK /\ CBLockInv(w) /\ CBPassInv(w) /\ CBDelayInv(w)
    BY DEF CBInv, CBLocal
  <1>2. /\ handles \in [Worker -> Seq(S)] /\ d \in Seq(S)
        /\ locks \in [Worker -> [Weights -> BOOLEAN]]
        /\ event_queue \in [Worker -> Seq(Event \cup {Sentinel})] /\ q \in Seq(Event \cup {Sentinel})
        /\ pushed \in [Worker -> [Weights -> Seq(Gradient)]] /\ pushed[w][p] \in Seq(Gradient)
        /\ grad[w][p] \in Gradient
    BY <1>1 DEF CBTypeOK
  <1>3. h \in Nat \ {0} /\ new \in Event /\ n \in Nat /\ new.p = p /\ new.handle = h
    BY <1>2 DEF Event
  <1>4. /\ e \in Seq(S)
        /\ \A j \in 1..Len(d) : d[j].p # p => j \in 1..Len(e) /\ e[j] = d[j]
    <2>1. d \in Seq([p : Weights, handle : Nat]) /\ h \in Nat
      BY <1>2, <1>3
    <2> HIDE DEF d, h
    <2> QED BY <2>1, SetItemProperties
  <1>5. /\ ~locks[w][p]
        /\ locks' = [locks EXCEPT ![w][p] = TRUE]
        /\ pushed' = [pushed EXCEPT ![w][p] = Append(pushed[w][p], grad[w][p])]
        /\ event_queue' = [event_queue EXCEPT ![w] = Append(q, new)]
        /\ handles' = [handles EXCEPT ![w] = e]
    BY DEF CB!push_pull_grad_async
  <1> HIDE DEF e, d, q, n, h, new, S
  <1>6. /\ locks' \in [Worker -> [Weights -> BOOLEAN]] /\ locks'[w][p]
        /\ \A r \in Weights : r # p => locks'[w][r] = locks[w][r]
        /\ \A v \in Worker : v # w => locks'[v] = locks[v]
    BY <1>2, <1>5, ExceptType
  <1>7. /\ pushed' \in [Worker -> [Weights -> Seq(Gradient)]]
        /\ Len(pushed'[w][p]) = h
        /\ \A r \in Weights : r # p => pushed'[w][r] = pushed[w][r]
        /\ \A v \in Worker : v # w => pushed'[v] = pushed[v]
    <2>1. Append(pushed[w][p], grad[w][p]) \in Seq(Gradient) /\ Len(Append(pushed[w][p], grad[w][p])) = h
      BY <1>2 DEF h
    <2> DEFINE c == Append(pushed[w][p], grad[w][p])
    <2> HIDE DEF c
    <2>2. c \in Seq(Gradient) /\ Len(c) = h /\ pushed' = [pushed EXCEPT ![w][p] = c]
      BY <1>5, <2>1 DEF c
    <2> QED BY <1>2, <2>2, ExceptType
  <1>8. /\ event_queue' \in [Worker -> Seq(Event \cup {Sentinel})]
        /\ Len(event_queue'[w]) = n + 1
        /\ \A i \in 1..n : event_queue'[w][i] = event_queue[w][i]
        /\ event_queue'[w][n + 1] = new
        /\ \A v \in Worker : v # w => event_queue'[v] = event_queue[v]
    <2>1. event_queue'[w] = Append(q, new)
      BY <1>2, <1>5
    <2> QED BY <1>2, <1>3, <1>5, <2>1 DEF q, n
  <1>9. handles' \in [Worker -> Seq(S)] /\ handles'[w] = e /\ \A v \in Worker : v # w => handles'[v] = handles[v]
    BY <1>2, <1>4, <1>5
  <1>10. CBTypeOK'
    BY <1>1, <1>6, <1>7, <1>8, <1>9 DEF CBTypeOK, S
  <1>11. CBCoreInv'
    <2>1. ASSUME NEW v \in Worker, NEW r \in Weights
          PROVE  Len(pushed'[v][r]) >= Len(pushed[v][r]) /\ Len(pushed'[v][r]) \in Nat /\ Len(pushed[v][r]) \in Nat
      <3>1. pushed'[v][r] \in Seq(Gradient) /\ pushed[v][r] \in Seq(Gradient)
        BY <1>2, <1>7
      <3>2. CASE v = w /\ r = p
        BY <1>7, <3>1, <3>2 DEF h
      <3>3. CASE ~(v = w /\ r = p)
        BY <1>7, <3>1, <3>3
      <3> QED BY <3>2, <3>3
    <2>2. \A v \in Worker, r \in Weights : done[v][r] \in Nat
      BY <1>1 DEF CBTypeOK
    <2> QED BY <2>1, <2>2 DEF CBInv, CBCoreInv
  <1>12. CBLockInv(w)'
    <2>1. \A r : (Holds(w, r)' <=> Holds(w, r)) /\ (Updated(w, r)' <=> Updated(w, r))
      BY DEF Holds, Updated
    <2>2. ASSUME NEW r \in Weights, NEW i \in 1..(n + 1)
          PROVE  QueuedAt(w, r, i)' <=> (i \in 1..n /\ QueuedAt(w, r, i)) \/ (i = n + 1 /\ r = p)
      <3>1. CASE i \in 1..n
        BY <1>3, <1>8, <3>1 DEF QueuedAt
      <3>2. CASE i = n + 1
        BY <1>3, <1>8, <3>2 DEF QueuedAt
      <3> QED BY <1>3, <3>1, <3>2
    <2>3. ~Holds(w, p) /\ \A i \in 1..n : ~QueuedAt(w, p, i)
      BY <1>1, <1>5 DEF CBLockInv, HeldOnce, QueuedOnce, n, q
    <2>4. ASSUME NEW r \in Weights PROVE Locked(w, r)'
      <3>1. ASSUME locks[w][r], ~Holds(w, r) PROVE \E i \in 1..(n + 1) : QueuedAt(w, r, i)'
        <4>1. PICK i \in 1..n : QueuedAt(w, r, i)
          BY <1>1, <3>1 DEF CBLockInv, Locked, n, q
        <4>2. i \in 1..(n + 1)
          BY <1>3
        <4> QED BY <2>2, <4>1, <4>2
      <3>2. ASSUME r = p PROVE \E i \in 1..(n + 1) : QueuedAt(w, r, i)'
        <4>1. n + 1 \in 1..(n + 1)
          BY <1>3
        <4> QED BY <2>2, <3>2, <4>1
      <3> QED BY <1>6, <1>8, <2>1, <3>1, <3>2 DEF Locked
    <2>5. ASSUME NEW r \in Weights PROVE HeldOnce(w, r)'
      BY <1>1, <1>6, <1>7, <2>1, <2>3 DEF CBLockInv, HeldOnce
    <2>6. ASSUME NEW r \in Weights PROVE QueuedOnce(w, r)'
      <3>1. ASSUME NEW i \in 1..(n + 1), QueuedAt(w, r, i)'
            PROVE  /\ locks'[w][r] /\ ~Holds(w, r)' /\ event_queue'[w][i].handle = Len(pushed'[w][r])
                   /\ \A j \in 1..(n + 1) : QueuedAt(w, r, j)' => i = j
        <4>1. CASE r = p
          <5>1. i = n + 1 /\ \A j \in 1..(n + 1) : QueuedAt(w, r, j)' => j = n + 1
            BY <2>2, <2>3, <3>1, <4>1
          <5> QED BY <1>3, <1>6, <1>7, <1>8, <2>1, <2>3, <4>1, <5>1
        <4>2. CASE r # p
          <5>1. i \in 1..n /\ QueuedAt(w, r, i) /\ \A j \in 1..(n + 1) : QueuedAt(w, r, j)' => j \in 1..n /\ QueuedAt(w, r, j)
            BY <2>2, <3>1, <4>2
          <5>2. /\ locks[w][r] /\ ~Holds(w, r) /\ event_queue[w][i].handle = Len(pushed[w][r])
                /\ \A j \in 1..n : QueuedAt(w, r, j) => i = j
            BY <1>1, <5>1 DEF CBLockInv, QueuedOnce, n, q
          <5> QED BY <1>6, <1>7, <1>8, <2>1, <4>2, <5>1, <5>2
        <4> QED BY <4>1, <4>2
      <3> QED BY <1>8, <3>1 DEF QueuedOnce
    <2>7. ASSUME NEW r \in Weights PROVE AllApplied(w, r)'
      <3>1. CASE r = p
        <4>1. ~Updated(w, p)
          BY <2>3 DEF Updated, Holds
        <4>2. param[w][p].data \in Seq(Seq(Gradient))
          <5>1. param[w][p] \in [data : Seq(Seq(Gradient)), buf : Seq(Gradient), step : Nat]
            BY <1>1 DEF CBTypeOK
          <5> QED BY <5>1
        <4>3. Len(param[w][p].data) \in Nat
          BY <4>2
        <4>4. Len(param[w][p].data) = Len(pushed[w][p])
          <5>1. AllApplied(w, p)
            BY <1>1 DEF CBLockInv
          <5>2. ~locks[w][p]
            BY <1>5
          <5> QED BY <4>3, <5>1, <5>2 DEF AllApplied
        <4> QED BY <1>6, <1>7, <2>1, <3>1, <4>1, <4>3, <4>4 DEF AllApplied, h
      <3>2. CASE r # p
        BY <1>1, <1>6, <1>7, <2>1, <3>2 DEF CBLockInv, AllApplied
      <3> QED BY <3>1, <3>2
    <2>8. (IF ppc[w] \in {"get", "exited"} THEN event[w] = Sentinel ELSE event[w] \in Event)'
      BY <1>1 DEF CBLockInv, Sentinel, Event
    <2> QED BY <2>4, <2>5, <2>6, <2>7, <2>8 DEF CBLockInv
  <1>13. CBPassInv(w)'
    BY <1>1 DEF CBPassInv
  <1>14. CBDelayInv(w)'
    <2>1. ASSUME NEW r \in Weights, push_pull_delay[w][r] = 0, ~locks'[w][r]
          PROVE  \E j \in 1..Len(e) : e[j] = [p |-> r, handle |-> None]
      <3>1. r # p /\ ~locks[w][r]
        BY <1>6, <2>1
      <3>2. PICK j \in 1..Len(d) : d[j] = [p |-> r, handle |-> None]
        BY <1>1, <2>1, <3>1 DEF CBDelayInv, d
      <3>3. d[j].p = r
        BY <3>2
      <3> QED BY <1>4, <3>1, <3>2, <3>3
    <2>2. \A r \in Weights : Updated(w, r)' => push_pull_delay'[w][r] = 1
      BY <1>1 DEF CBDelayInv, Updated
    <2> QED BY <1>9, <2>1, <2>2 DEF CBDelayInv
  <1>15. CBLocal(w)'
    BY <1>12, <1>13, <1>14 DEF CBLocal
  <1> QED BY <1>6, <1>7, <1>8, <1>9, <1>10, <1>11, <1>15, CBWorkerStep

LEMMA SynchronizeStep ==
  ASSUME CBInv, NEW w \in Worker, CB!synchronize(w)
  PROVE  CBInv'
  <1>1. \E p \in Weights : CB!push_pull_grad_async(w, p)
    <2>1. CASE \E p \in CB!Missing(w) : CB!push_pull_grad_async(w, p)
      BY <2>1 DEF CB!Missing, Weights
    <2>2. CASE \E i \in CB!NoHandle(w) : CB!push_pull_grad_async(w, handles[w][i].p)
      <3>1. PICK i \in CB!NoHandle(w) : CB!push_pull_grad_async(w, handles[w][i].p)
        BY <2>2
      <3> DEFINE S == [p : Weights, handle : Nat]
      <3>2. handles[w] \in Seq(S) /\ i \in DOMAIN handles[w]
        BY DEF CBInv, CBTypeOK, CB!NoHandle
      <3>3. handles[w][i] \in S
        <4> HIDE DEF S
        <4> QED BY <3>2
      <3> QED BY <3>1, <3>3
    <2> QED BY <2>1, <2>2 DEF CB!synchronize
  <1>2. /\ pc[w] = "step"
        /\ UNCHANGED <<opt, step, pc, idx, push_pull_delay, grad, param, ppc, event, done>>
    BY DEF CB!synchronize, CB!poller
  <1> QED BY <1>1, <1>2, PushStep

LEMMA SentinelIsNoEvent == Sentinel \notin Event /\ Sentinel.handle = None
  BY DEF Sentinel, CB!Sentinel, None, CB!None, Event

\* The sentinel goes behind the last event.
LEMMA FinalStepDrainedStep ==
  ASSUME CBInv, NEW w \in Worker, CB!FinalStepDrained(w)
  PROVE  CBInv'
  <1>1. /\ pc[w] = "step" /\ CBTypeOK /\ CBLockInv(w) /\ CBDelayInv(w)
        /\ event_queue[w] = << >>
    BY DEF CBInv, CBLocal, CB!FinalStepDrained
  <1>2. /\ pc'[w] = "join" /\ event_queue'[w] = <<Sentinel>>
        /\ UNCHANGED <<opt, step, idx, handles, locks, push_pull_delay, grad, param, ppc, event, pushed, done>>
        /\ \A v \in Worker : v # w => UNCHANGED <<pc[v], event_queue[v]>>
    BY <1>1 DEF CBTypeOK, CB!FinalStepDrained, CB!poller, CB!core, Sentinel
  <1>3. CBTypeOK'
    <2>1. pc' \in [Worker -> MainPc]
      BY <1>1 DEF CBTypeOK, CB!FinalStepDrained, MainPc
    <2>2. event_queue' \in [Worker -> Seq(Event \cup {Sentinel})]
      <3>1. event_queue' = [event_queue EXCEPT ![w] = <<Sentinel>>]
        BY <1>1 DEF CB!FinalStepDrained, Sentinel
      <3>2. event_queue \in [Worker -> Seq(Event \cup {Sentinel})]
        BY <1>1 DEF CBTypeOK
      <3>3. <<Sentinel>> \in Seq(Event \cup {Sentinel})
        <4> DEFINE T == Event \cup {Sentinel}
        <4>1. Sentinel \in T
          OBVIOUS
        <4> HIDE DEF T
        <4>2. <<Sentinel>> \in Seq(T)
          BY <4>1
        <4> QED BY <4>2 DEF T
      <3> QED BY <3>1, <3>2, <3>3
    <2> QED BY <1>1, <1>2, <2>1, <2>2 DEF CBTypeOK
  <1>4. CBCoreInv'
    BY <1>2 DEF CBInv, CBCoreInv
  <1>5. CBLockInv(w)'
    <2>1. \A r : (Holds(w, r)' <=> Holds(w, r)) /\ (Updated(w, r)' <=> Updated(w, r))
      BY <1>2 DEF Holds, Updated
    <2>2. \A r \in Weights : \A i \in 1..Len(event_queue'[w]) : ~QueuedAt(w, r, i)'
      <3>1. Len(<<Sentinel>>) = 1 /\ <<Sentinel>>[1] = Sentinel
        OBVIOUS
      <3> QED BY <1>2, <3>1, SentinelIsNoEvent DEF QueuedAt
    <2>3. ASSUME NEW r \in Weights PROVE Locked(w, r)'
      <3>1. Len(event_queue[w]) = 0
        BY <1>1
      <3>2. locks[w][r] => Holds(w, r)
        BY <1>1, <3>1 DEF CBLockInv, Locked
      <3> QED BY <1>2, <2>1, <3>2 DEF Locked
    <2>4. ASSUME NEW r \in Weights PROVE HeldOnce(w, r)' /\ QueuedOnce(w, r)' /\ AllApplied(w, r)'
      <3>1. HeldOnce(w, r)'
        BY <1>1, <1>2, <2>1 DEF CBLockInv, HeldOnce
      <3>2. QueuedOnce(w, r)'
        BY <2>2 DEF QueuedOnce
      <3>3. AllApplied(w, r)'
        BY <1>1, <1>2, <2>1 DEF CBLockInv, AllApplied
      <3> QED BY <3>1, <3>2, <3>3
    <2>5. (IF ppc[w] \in {"get", "exited"} THEN event[w] = Sentinel ELSE event[w] \in Event)'
      BY <1>1, <1>2 DEF CBLockInv, Sentinel, Event
    <2> QED BY <2>3, <2>4, <2>5 DEF CBLockInv
  <1>6. CBPassInv(w)'
    BY <1>2 DEF CBPassInv
  <1>7. CBDelayInv(w)'
    <2>1. \A q \in Weights : push_pull_delay[w][q] = 0 => locks[w][q]
      BY NoHandleLeft DEF CB!FinalStepDrained
    <2> QED BY <1>1, <1>2, <2>1 DEF CBDelayInv, Updated
  <1> QED BY <1>2, <1>3, <1>4, <1>5, <1>6, <1>7, CBWorkerStep DEF CBLocal

-----------------------------------------------------------------------------
(* Steps of the poller.                                                     *)

LEMMA PollGetStep ==
  ASSUME CBInv, NEW w \in Worker, CB!PollGet(w)
  PROVE  CBInv'
  <1> DEFINE q == event_queue[w]
             n == Len(q)
             T == Event \cup {Sentinel}
  <1>1. /\ ppc[w] = "get" /\ q # << >>
        /\ CBTypeOK /\ CBLockInv(w) /\ CBPassInv(w) /\ CBDelayInv(w)
    BY DEF CBInv, CBLocal, CB!PollGet
  <1>2. /\ event_queue \in [Worker -> Seq(T)] /\ q \in Seq(T)
        /\ ppc \in [Worker -> {"get", "poll", "zero_one_grad", "release", "exited"}]
        /\ event \in [Worker -> T]
    BY <1>1 DEF CBTypeOK
  <1>3. /\ n \in Nat \ {0} /\ q[1] \in T /\ Head(q) = q[1]
        /\ Tail(q) \in Seq(T) /\ Len(Tail(q)) = n - 1
        /\ \A i \in 1..(n - 1) : Tail(q)[i] = q[i + 1]
    <2> HIDE DEF T, q
    <2> QED BY <1>1, <1>2
  <1>4. /\ event' = [event EXCEPT ![w] = q[1]]
        /\ event_queue' = [event_queue EXCEPT ![w] = Tail(q)]
        /\ ppc' = [ppc EXCEPT ![w] = IF q[1] = Sentinel THEN "exited" ELSE "poll"]
        /\ UNCHANGED <<opt, step, pc, idx, handles, locks, push_pull_delay, grad, param, pushed, done>>
    BY <1>3 DEF CB!PollGet, CB!main, CB!core, Sentinel
  <1> HIDE DEF T
  <1>5. /\ event' \in [Worker -> T] /\ event'[w] = q[1]
        /\ event_queue' \in [Worker -> Seq(T)] /\ event_queue'[w] = Tail(q)
        /\ ppc' \in [Worker -> {"get", "poll", "zero_one_grad", "release", "exited"}]
        /\ ppc'[w] = IF q[1] = Sentinel THEN "exited" ELSE "poll"
        /\ \A v \in Worker : v # w => UNCHANGED <<event[v], event_queue[v], ppc[v]>>
    <2> HIDE DEF q
    <2>1. event' \in [Worker -> T] /\ event'[w] = q[1]
      BY <1>2, <1>3, <1>4
    <2>2. event_queue' \in [Worker -> Seq(T)] /\ event_queue'[w] = Tail(q)
      BY <1>2, <1>3, <1>4
    <2>3. /\ ppc' \in [Worker -> {"get", "poll", "zero_one_grad", "release", "exited"}]
          /\ ppc'[w] = IF q[1] = Sentinel THEN "exited" ELSE "poll"
      BY <1>2, <1>4
    <2> QED BY <1>2, <1>4, <2>1, <2>2, <2>3
  <1>6. CBTypeOK'
    BY <1>1, <1>4, <1>5 DEF CBTypeOK, T
  <1>7. CBCoreInv'
    BY <1>4 DEF CBInv, CBCoreInv
  <1> HIDE DEF q, n
  <1>8. Len(event_queue'[w]) = n - 1 /\ \A i \in 1..(n - 1) : i + 1 \in 1..n /\ event_queue'[w][i] = q[i + 1]
    BY <1>3, <1>5
  <1>9. 1 \in 1..n /\ \A i \in 1..n : i = 1 \/ i - 1 \in 1..(n - 1)
    BY <1>3
  <1>10. \A r : ~Holds(w, r) /\ ~Updated(w, r) /\ ~Updated(w, r)'
    BY <1>1, <1>5 DEF Holds, Updated
  <1>11. ASSUME NEW r \in Weights
         PROVE  /\ Holds(w, r)' <=> QueuedAt(w, r, 1)
                /\ \A i \in 1..(n - 1) : QueuedAt(w, r, i)' <=> QueuedAt(w, r, i + 1)
    <2>1. Holds(w, r)' <=> QueuedAt(w, r, 1)
      BY <1>3, <1>5, SentinelIsNoEvent DEF Holds, QueuedAt, T, q
    <2>2. \A i \in 1..(n - 1) : QueuedAt(w, r, i)' <=> QueuedAt(w, r, i + 1)
      BY <1>8 DEF QueuedAt, q
    <2> QED BY <2>1, <2>2
  <1>12. CBLockInv(w)'
    <2>1. ASSUME NEW r \in Weights PROVE Locked(w, r)'
      <3>1. ASSUME locks[w][r], ~QueuedAt(w, r, 1) PROVE \E i \in 1..(n - 1) : QueuedAt(w, r, i)'
        <4>1. PICK i \in 1..n : QueuedAt(w, r, i)
          BY <1>1, <1>10, <3>1 DEF CBLockInv, Locked, n, q
        <4>2. i - 1 \in 1..(n - 1) /\ (i - 1) + 1 = i
          BY <1>3, <1>9, <3>1, <4>1
        <4> QED BY <1>11, <4>1, <4>2
      <3> QED BY <1>4, <1>8, <1>11, <3>1 DEF Locked
    <2>2. ASSUME NEW r \in Weights, NEW i \in 1..n, QueuedAt(w, r, i)
          PROVE  /\ locks[w][r] /\ q[i].handle = Len(pushed[w][r])
                 /\ \A j \in 1..n : QueuedAt(w, r, j) => i = j
      BY <1>1, <2>2 DEF CBLockInv, QueuedOnce, n, q
    <2>3. ASSUME NEW r \in Weights PROVE HeldOnce(w, r)'
      BY <1>4, <1>5, <1>9, <1>11, <2>2 DEF HeldOnce
    <2>4. ASSUME NEW r \in Weights PROVE QueuedOnce(w, r)'
      <3>1. ASSUME NEW i \in 1..(n - 1), QueuedAt(w, r, i)'
            PROVE  /\ locks'[w][r] /\ ~Holds(w, r)' /\ event_queue'[w][i].handle = Len(pushed'[w][r])
                   /\ \A j \in 1..(n - 1) : QueuedAt(w, r, j)' => i = j
        <4>1. i + 1 \in 1..n /\ QueuedAt(w, r, i + 1) /\ i \in Nat \ {0}
          BY <1>3, <1>8, <1>11, <3>1
        <4>2. ~QueuedAt(w, r, 1)
          BY <1>9, <2>2, <4>1
        <4>3. \A j \in 1..(n - 1) : QueuedAt(w, r, j)' => i + 1 = j + 1
          BY <1>8, <1>11, <2>2, <4>1
        <4> QED BY <1>4, <1>8, <1>11, <2>2, <4>1, <4>2, <4>3
      <3> QED BY <1>8, <3>1 DEF QueuedOnce
    <2>5. ASSUME NEW r \in Weights PROVE AllApplied(w, r)'
      BY <1>1, <1>4, <1>10 DEF CBLockInv, AllApplied
    <2>6. (IF ppc[w] \in {"get", "exited"} THEN event[w] = Sentinel ELSE event[w] \in Event)'
      BY <1>3, <1>5 DEF T, Sentinel, Event
    <2> QED BY <2>1, <2>3, <2>4, <2>5, <2>6 DEF CBLockInv
  <1>13. CBPassInv(w)'
    BY <1>1, <1>4, CBPassFrame
  <1>14. CBDelayInv(w)'
    BY <1>1, <1>4, <1>10 DEF CBDelayInv, CB!Layers
  <1> QED BY <1>4, <1>5, <1>6, <1>7, <1>12, <1>13, <1>14, CBWorkerStep DEF CBLocal

\* An event whose operation has not finished goes to the end of the queue.
LEMMA PollAgainStep ==
  ASSUME CBInv, NEW w \in Worker, CB!PollAgain(w)
  PROVE  CBInv'
  <1> DEFINE q == event_queue[w]
             n == Len(q)
             T == Event \cup {Sentinel}
  <1>1. /\ ppc[w] = "poll" /\ CBTypeOK /\ CBLockInv(w) /\ CBPassInv(w) /\ CBDelayInv(w)
    BY DEF CBInv, CBLocal, CB!PollAgain
  <1>2. /\ event_queue \in [Worker -> Seq(T)] /\ q \in Seq(T)
        /\ ppc \in [Worker -> {"get", "poll", "zero_one_grad", "release", "exited"}]
        /\ event \in [Worker -> T]
    BY <1>1 DEF CBTypeOK
  <1>3. event[w] \in Event /\ event[w] \in T /\ Sentinel \in T
    BY <1>1 DEF CBLockInv
  <1>4. /\ event' = [event EXCEPT ![w] = Sentinel]
        /\ event_queue' = [event_queue EXCEPT ![w] = Append(q, event[w])]
        /\ ppc' = [ppc EXCEPT ![w] = "get"]
        /\ UNCHANGED <<opt, step, pc, idx, handles, locks, push_pull_delay, grad, param, pushed, done>>
    BY DEF CB!PollAgain, CB!main, CB!core, Sentinel
  <1> HIDE DEF T, q, n
  <1>5. /\ n \in Nat /\ Append(q, event[w]) \in Seq(T) /\ Len(Append(q, event[w])) = n + 1
        /\ \A i \in 1..n : Append(q, event[w])[i] = q[i]
        /\ Append(q, event[w])[n + 1] = event[w]
    BY <1>2, <1>3 DEF n
  <1>6. /\ event' \in [Worker -> T] /\ event'[w] = Sentinel
        /\ event_queue' \in [Worker -> Seq(T)] /\ event_queue'[w] = Append(q, event[w])
        /\ ppc' \in [Worker -> {"get", "poll", "zero_one_grad", "release", "exited"}]
        /\ ppc'[w] = "get"
        /\ \A v \in Worker : v # w => UNCHANGED <<event[v], event_queue[v], ppc[v]>>
    BY <1>2, <1>3, <1>4, <1>5
  <1>7. CBTypeOK'
    BY <1>1, <1>4, <1>6 DEF CBTypeOK, T
  <1>8. CBCoreInv'
    BY <1>4 DEF CBInv, CBCoreInv
  <1>9. /\ Len(event_queue'[w]) = n + 1
        /\ \A i \in 1..n : i \in 1..(n + 1) /\ event_queue'[w][i] = q[i]
        /\ event_queue'[w][n + 1] = event[w] /\ n + 1 \in 1..(n + 1)
        /\ \A i \in 1..(n + 1) : i \in 1..n \/ i = n + 1
    BY <1>5, <1>6
  <1>10. \A r : ~Holds(w, r)' /\ ~Updated(w, r) /\ ~Updated(w, r)' /\ (Holds(w, r) <=> event[w].p = r)
    BY <1>1, <1>6 DEF Holds, Updated
  <1>11. ASSUME NEW r \in Weights, NEW i \in 1..(n + 1)
         PROVE  QueuedAt(w, r, i)' <=> (i \in 1..n /\ QueuedAt(w, r, i)) \/ (i = n + 1 /\ Holds(w, r))
    <2>1. CASE i \in 1..n
      BY <1>5, <1>9, <2>1 DEF QueuedAt, q
    <2>2. CASE i = n + 1
      BY <1>3, <1>5, <1>9, <1>10, <2>2 DEF QueuedAt
    <2> QED BY <1>9, <2>1, <2>2
  <1>12. CBLockInv(w)'
    <2>1. ASSUME NEW r \in Weights PROVE Locked(w, r)'
      <3>1. ASSUME locks[w][r] PROVE \E i \in 1..(n + 1) : QueuedAt(w, r, i)'
        <4>1. CASE Holds(w, r)
          BY <1>9, <1>11, <4>1
        <4>2. CASE ~Holds(w, r)
          <5>1. PICK i \in 1..n : QueuedAt(w, r, i)
            BY <1>1, <3>1, <4>2 DEF CBLockInv, Locked, n, q
          <5> QED BY <1>9, <1>11, <5>1
        <4> QED BY <4>1, <4>2
      <3> QED BY <1>4, <1>9, <3>1 DEF Locked
    <2>2. ASSUME NEW r \in Weights, NEW i \in 1..n, QueuedAt(w, r, i)
          PROVE  /\ locks[w][r] /\ ~Holds(w, r) /\ q[i].handle = Len(pushed[w][r])
                 /\ \A j \in 1..n : QueuedAt(w, r, j) => i = j
      BY <1>1, <2>2 DEF CBLockInv, QueuedOnce, n, q
    <2>3. ASSUME NEW r \in Weights, Holds(w, r)
          PROVE  locks[w][r] /\ event[w].handle = Len(pushed[w][r])
      BY <1>1, <2>3 DEF CBLockInv, HeldOnce
    <2>4. ASSUME NEW r \in Weights PROVE QueuedOnce(w, r)'
      <3>1. ASSUME NEW i \in 1..(n + 1), QueuedAt(w, r, i)'
            PROVE  /\ locks'[w][r] /\ ~Holds(w, r)' /\ event_queue'[w][i].handle = Len(pushed'[w][r])
                   /\ \A j \in 1..(n + 1) : QueuedAt(w, r, j)' => i = j
        <4>1. CASE i \in 1..n
          <5>1. QueuedAt(w, r, i)
            BY <1>5, <1>11, <3>1, <4>1
          <5>2. ~Holds(w, r) /\ \A j \in 1..n : QueuedAt(w, r, j) => i = j
            BY <2>2, <4>1, <5>1
          <5>3. \A j \in 1..(n + 1) : QueuedAt(w, r, j)' => i = j
            BY <1>11, <5>2
          <5> QED BY <1>4, <1>9, <1>10, <2>2, <4>1, <5>1, <5>3
        <4>2. CASE i = n + 1
          <5>1. Holds(w, r)
            BY <1>5, <1>11, <3>1, <4>2
          <5>2. \A j \in 1..n : ~QueuedAt(w, r, j)
            BY <2>2, <5>1
          <5>3. \A j \in 1..(n + 1) : QueuedAt(w, r, j)' => i = j
            BY <1>11, <4>2, <5>2
          <5> QED BY <1>4, <1>9, <1>10, <2>3, <4>2, <5>1, <5>3
        <4> QED BY <1>9, <4>1, <4>2
      <3> QED BY <1>9, <3>1 DEF QueuedOnce
    <2>5. ASSUME NEW r \in Weights PROVE HeldOnce(w, r)' /\ AllApplied(w, r)'
      BY <1>1, <1>4, <1>10 DEF CBLockInv, HeldOnce, AllApplied
    <2>6. (IF ppc[w] \in {"get", "exited"} THEN event[w] = Sentinel ELSE event[w] \in Event)'
      BY <1>6 DEF Sentinel, Event
    <2> QED BY <2>1, <2>4, <2>5, <2>6 DEF CBLockInv
  <1>13. CBPassInv(w)'
    BY <1>1, <1>4, CBPassFrame
  <1>14. CBDelayInv(w)'
    BY <1>1, <1>4, <1>10 DEF CBDelayInv, CB!Layers
  <1> QED BY <1>4, <1>6, <1>7, <1>8, <1>12, <1>13, <1>14, CBWorkerStep DEF CBLocal

\* Each of the update rules moves the parameter once.
LEMMA UpdateMovesOnce ==
  ASSUME CBTypeOK, NEW g \in Gradient,
         NEW s \in [data : Seq(Seq(Gradient)), buf : Seq(Gradient), step : Nat]
  PROVE  /\ CB!Update(s, g) \in [data : Seq(Seq(Gradient)), buf : Seq(Gradient), step : Nat]
         /\ Len(CB!Update(s, g).data) = Len(s.data) + 1
  <1> DEFINE avg == Append(s.buf, g)
             G == Seq(Gradient)
  <1>1. s.data \in Seq(G) /\ s.buf \in G /\ s.step \in Nat /\ avg \in G /\ <<g>> \in G /\ s.step + 1 \in Nat
    OBVIOUS
  <1> HIDE DEF G, avg
  <1>2. /\ Append(s.data, avg) \in Seq(G) /\ Len(Append(s.data, avg)) = Len(s.data) + 1
        /\ Append(s.data, <<g>>) \in Seq(G) /\ Len(Append(s.data, <<g>>)) = Len(s.data) + 1
    BY <1>1
  <1>3. CASE opt = "SGD"
    <2>1. CASE Momentum
      <3>1. CB!Update(s, g) = [s EXCEPT !.buf = avg, !.data = Append(s.data, avg)]
        BY <1>3, <2>1 DEF CB!Update, CB!sgd, avg
      <3>2. CB!Update(s, g) = [data |-> Append(s.data, avg), buf |-> avg, step |-> s.step]
        BY <3>1
      <3> QED BY <1>1, <1>2, <3>2 DEF G
    <2>2. CASE ~Momentum
      <3>1. CB!Update(s, g) = [s EXCEPT !.buf = s.buf, !.data = Append(s.data, <<g>>)]
        BY <1>3, <2>2 DEF CB!Update, CB!sgd
      <3>2. CB!Update(s, g) = [data |-> Append(s.data, <<g>>), buf |-> s.buf, step |-> s.step]
        BY <3>1
      <3> QED BY <1>1, <1>2, <3>2 DEF G
    <2> QED BY <2>1, <2>2
  <1>4. CASE opt \in {"Adam", "RMSprop"}
    <2>1. CB!Update(s, g) = [data |-> Append(s.data, avg), buf |-> avg, step |-> s.step + 1]
      BY <1>4 DEF CB!Update, CB!adam, CB!rmsprop, avg
    <2> QED BY <1>1, <1>2, <2>1 DEF G
  <1> QED BY <1>3, <1>4 DEF CBTypeOK

LEMMA PollFinishedStep ==
  ASSUME CBInv, NEW w \in Worker, CB!PollFinished(w)
  PROVE  CBInv'
  <1> DEFINE p == event[w].p
             h == event[w].handle
             output == UNION {pushed[v][p][h] : v \in Worker}
             R == [data : Seq(Seq(Gradient)), buf : Seq(Gradient), step : Nat]
  <1>1. /\ ppc[w] = "poll" /\ done[w][p] >= h
        /\ CBTypeOK /\ CBCoreInv /\ CBLockInv(w) /\ CBPassInv(w) /\ CBDelayInv(w)
    BY DEF CBInv, CBLocal, CB!PollFinished
  <1>2. /\ ppc \in [Worker -> {"get", "poll", "zero_one_grad", "release", "exited"}]
        /\ grad \in [Worker -> [Weights -> Gradient]]
        /\ push_pull_delay \in [Worker -> [Weights -> {0, 1}]]
        /\ param \in [Worker -> [Weights -> R]]
        /\ \A v \in Worker, r \in Weights : done[v][r] \in Nat /\ pushed[v][r] \in Seq(Gradient)
    BY <1>1 DEF CBTypeOK
  <1>3. event[w] \in Event /\ p \in Weights /\ h \in Nat \ {0}
    <2>1. event[w] \in Event
      BY <1>1 DEF CBLockInv
    <2> QED BY <2>1 DEF Event
  <1> HIDE DEF p, h, R
  <1>4. output \in Gradient
    <2>1. ASSUME NEW v \in Worker PROVE pushed[v][p][h] \in Gradient
      <3>1. h \in 1..Len(pushed[v][p])
        BY <1>1, <1>2, <1>3 DEF CBCoreInv
      <3> QED BY <1>2, <1>3, <3>1
    <2> QED BY <2>1 DEF Gradient
  <1>5. param[w][p] \in R /\ CB!Update(param[w][p], output) \in R
        /\ Len(CB!Update(param[w][p], output).data) = Len(param[w][p].data) + 1
    <2> HIDE DEF output
    <2>1. param[w][p] \in R
      BY <1>2, <1>3
    <2> QED BY <1>1, <1>4, <2>1, UpdateMovesOnce DEF R
  <1>6. /\ grad' = [grad EXCEPT ![w][p] = output]
        /\ push_pull_delay' = [push_pull_delay EXCEPT ![w][p] = 1]
        /\ param' = [param EXCEPT ![w][p] = CB!Update(param[w][p], output)]
        /\ ppc' = [ppc EXCEPT ![w] = "zero_one_grad"]
        /\ UNCHANGED <<opt, step, pc, idx, handles, locks, event_queue, event, pushed, done>>
    BY DEF CB!PollFinished, CB!main, CB!core, p, h
  <1> HIDE DEF output
  <1>7. grad' \in [Worker -> [Weights -> Gradient]]
    BY <1>2, <1>3, <1>4, <1>6, ExceptType
  <1>8. /\ push_pull_delay' \in [Worker -> [Weights -> {0, 1}]]
        /\ push_pull_delay'[w][p] = 1
        /\ \A r \in Weights : r # p => push_pull_delay'[w][r] = push_pull_delay[w][r]
        /\ \A v \in Worker : v # w => push_pull_delay'[v] = push_pull_delay[v]
    BY <1>2, <1>3, <1>6
  <1>9. /\ param' \in [Worker -> [Weights -> R]]
        /\ Len(param'[w][p].data) = Len(param[w][p].data) + 1
        /\ \A r \in Weights : r # p => param'[w][r] = param[w][r]
        /\ \A v \in Worker : v # w => param'[v] = param[v]
    <2> DEFINE u == CB!Update(param[w][p], output)
    <2>1. u \in R /\ Len(u.data) = Len(param[w][p].data) + 1 /\ param' = [param EXCEPT ![w][p] = u]
      BY <1>5, <1>6
    <2> HIDE DEF u
    <2>2. param'[w][p] = u
      BY <1>2, <1>3, <2>1, ExceptType
    <2> QED BY <1>2, <1>3, <2>1, <2>2, ExceptType
  <1>10. /\ ppc' \in [Worker -> {"get", "poll", "zero_one_grad", "release", "exited"}]
         /\ ppc'[w] = "zero_one_grad"
         /\ \A v \in Worker : v # w => ppc'[v] = ppc[v]
    BY <1>2, <1>6
  <1>11. CBTypeOK'
    BY <1>1, <1>6, <1>7, <1>8, <1>9, <1>10 DEF CBTypeOK, R
  <1>12. CBCoreInv'
    BY <1>1, <1>6 DEF CBCoreInv
  <1>13. /\ \A r : (Holds(w, r)' <=> Holds(w, r)) /\ ~Updated(w, r) /\ (Updated(w, r)' <=> r = p)
         /\ Holds(w, p)
    BY <1>1, <1>6, <1>10 DEF Holds, Updated, p
  <1>14. CBLockInv(w)'
    <2>1. \A r, i : QueuedAt(w, r, i)' <=> QueuedAt(w, r, i)
      BY <1>6 DEF QueuedAt
    <2>2. ASSUME NEW r \in Weights PROVE Locked(w, r)' /\ HeldOnce(w, r)'
      BY <1>1, <1>6, <1>13, <2>1 DEF CBLockInv, Locked, HeldOnce
    <2>3. ASSUME NEW r \in Weights PROVE QueuedOnce(w, r)'
      BY <1>1, <1>6, <1>13, <2>1 DEF CBLockInv, QueuedOnce
    <2>4. ASSUME NEW r \in Weights PROVE AllApplied(w, r)'
      <3>1. CASE r = p
        <4>1. AllApplied(w, p) /\ locks[w][p]
          BY <1>1, <1>3, <1>13 DEF CBLockInv, HeldOnce
        <4>2. param[w][p].data \in Seq(Seq(Gradient))
          BY <1>5 DEF R
        <4>3. Len(pushed[w][p]) = Len(param[w][p].data) + 1 /\ Len(param[w][p].data) \in Nat
          <5>1. Len(param[w][p].data) \in Nat
            BY <4>2
          <5>2. ~Updated(w, p)
            BY <1>13
          <5> QED BY <4>1, <5>1, <5>2 DEF AllApplied
        <4>4. Len(pushed'[w][p]) = Len(param'[w][p].data) + 0
          BY <1>6, <1>9, <4>3
        <4> QED BY <1>6, <1>13, <3>1, <4>4 DEF AllApplied
      <3>2. CASE r # p
        BY <1>1, <1>6, <1>9, <1>13, <3>2 DEF CBLockInv, AllApplied
      <3> QED BY <3>1, <3>2
    <2>5. (IF ppc[w] \in {"get", "exited"} THEN event[w] = Sentinel ELSE event[w] \in Event)'
      BY <1>3, <1>6, <1>10 DEF Sentinel, Event
    <2> QED BY <2>2, <2>3, <2>4, <2>5 DEF CBLockInv
  <1>15. CBPassInv(w)'
    BY <1>1, <1>6, CBPassFrame
  <1>16. CBDelayInv(w)'
    <2>1. ASSUME pc[w] = "backward", NEW i \in 1..idx[w]
          PROVE  push_pull_delay'[w][CB!Layers(w)[i]] = 1
      <3>1. push_pull_delay[w][CB!Layers(w)[i]] = 1
        BY <1>1, <2>1 DEF CBDelayInv
      <3>2. CB!Layers(w)[i] \in Weights
        <4>1. idx[w] \in 1..Len(CB!Layers(w)) /\ Len(CB!Layers(w)) \in Nat
          <5>1. idx[w] \in 1..Len(CB!Layers(w))
            BY <1>1, <2>1 DEF CBPassInv
          <5> QED BY <2>1, <5>1, LayersTypes
        <4>2. i \in 1..Len(CB!Layers(w))
          BY <4>1
        <4> QED BY <2>1, <4>2, LayersTypes
      <3> QED BY <1>8, <3>1, <3>2
    <2>2. ASSUME NEW r \in Weights, push_pull_delay'[w][r] = 0
          PROVE  push_pull_delay[w][r] = 0
      BY <1>8, <2>2
    <2>3. CB!Layers(w)' = CB!Layers(w)
      BY <1>6 DEF CB!Layers
    <2> QED BY <1>1, <1>6, <1>8, <1>13, <2>1, <2>2, <2>3 DEF CBDelayInv
  <1> QED BY <1>6, <1>8, <1>9, <1>10, <1>11, <1>12, <1>14, <1>15, <1>16, CBWorkerStep DEF CBLocal

LEMMA ZeroOneGradStep ==
  ASSUME CBInv, NEW w \in Worker, CB!zero_one_grad(w)
  PROVE  CBInv'
  <1>1. /\ ppc[w] = "zero_one_grad"
        /\ CBTypeOK /\ CBLockInv(w) /\ CBPassInv(w) /\ CBDelayInv(w)
    BY DEF CBInv, CBLocal, CB!zero_one_grad
  <1>2. event[w] \in Event /\ event[w].p \in Weights
    <2>1. event[w] \in Event
      BY <1>1 DEF CBLockInv
    <2> QED BY <2>1 DEF Event
  <1>3. /\ ppc' \in [Worker -> {"get", "poll", "zero_one_grad", "release", "exited"}]
        /\ ppc'[w] = "release" /\ \A v \in Worker : v # w => ppc'[v] = ppc[v]
    BY <1>1 DEF CBTypeOK, CB!zero_one_grad
  <1>4. grad' \in [Worker -> [Weights -> Gradient]]
    <2>1. grad \in [Worker -> [Weights -> Gradient]] /\ {} \in Gradient
      BY <1>1 DEF CBTypeOK, Gradient
    <2>2. grad' = [grad EXCEPT ![w][event[w].p] = {}]
      BY DEF CB!zero_one_grad
    <2> QED BY <1>2, <2>1, <2>2, ExceptType
  <1>5. UNCHANGED <<opt, step, pc, idx, handles, locks, push_pull_delay, param, event_queue, event, pushed, done>>
    BY DEF CB!zero_one_grad, CB!main, CB!core
  <1>6. CBTypeOK' /\ CBCoreInv'
    BY <1>1, <1>3, <1>4, <1>5 DEF CBInv, CBTypeOK, CBCoreInv
  <1>7. \A r : (Holds(w, r)' <=> Holds(w, r)) /\ (Updated(w, r)' <=> Updated(w, r))
    BY <1>1, <1>3, <1>5 DEF Holds, Updated
  <1>8. CBLockInv(w)'
    <2>1. \A r, i : QueuedAt(w, r, i)' <=> QueuedAt(w, r, i)
      BY <1>5 DEF QueuedAt
    <2>2. ASSUME NEW r \in Weights PROVE Locked(w, r)' /\ HeldOnce(w, r)'
      BY <1>1, <1>5, <1>7, <2>1 DEF CBLockInv, Locked, HeldOnce
    <2>3. ASSUME NEW r \in Weights PROVE QueuedOnce(w, r)'
      BY <1>1, <1>5, <1>7, <2>1 DEF CBLockInv, QueuedOnce
    <2>4. ASSUME NEW r \in Weights PROVE AllApplied(w, r)'
      BY <1>1, <1>5, <1>7 DEF CBLockInv, AllApplied
    <2>5. (IF ppc[w] \in {"get", "exited"} THEN event[w] = Sentinel ELSE event[w] \in Event)'
      BY <1>2, <1>3, <1>5 DEF Sentinel, Event
    <2> QED BY <2>2, <2>3, <2>4, <2>5 DEF CBLockInv
  <1>9. CBPassInv(w)'
    BY <1>1, <1>5, CBPassFrame
  <1>10. CBDelayInv(w)'
    BY <1>1, <1>5, <1>7 DEF CBDelayInv, CB!Layers
  <1> QED BY <1>3, <1>5, <1>6, <1>8, <1>9, <1>10, CBWorkerStep DEF CBLocal

\* The lock is released when the update is made and the delay is reset.
LEMMA PollReleaseStep ==
  ASSUME CBInv, NEW w \in Worker, CB!PollRelease(w)
  PROVE  CBInv'
  <1> DEFINE p == event[w].p
  <1>1. /\ ppc[w] = "release"
        /\ CBTypeOK /\ CBLockInv(w) /\ CBPassInv(w) /\ CBDelayInv(w)
    BY DEF CBInv, CBLocal, CB!PollRelease
  <1>2. event[w] \in Event /\ p \in Weights
    <2>1. event[w] \in Event
      BY <1>1 DEF CBLockInv
    <2> QED BY <2>1 DEF Event
  <1>3. \A r : (Holds(w, r) <=> r = p) /\ (Updated(w, r) <=> r = p)
    BY <1>1 DEF Holds, Updated
  <1>4. /\ locks' = [locks EXCEPT ![w][p] = FALSE]
        /\ event' = [event EXCEPT ![w] = Sentinel]
        /\ ppc' = [ppc EXCEPT ![w] = "get"]
        /\ UNCHANGED <<opt, step, pc, idx, handles, push_pull_delay, grad, param, event_queue, pushed, done>>
    BY DEF CB!PollRelease, CB!main, CB!core, Sentinel
  <1> HIDE DEF p
  <1>5. /\ ppc' \in [Worker -> {"get", "poll", "zero_one_grad", "release", "exited"}]
        /\ ppc'[w] = "get" /\ \A v \in Worker : v # w => ppc'[v] = ppc[v]
        /\ event' \in [Worker -> Event \cup {Sentinel}]
        /\ event'[w] = Sentinel /\ \A v \in Worker : v # w => event'[v] = event[v]
    BY <1>1, <1>4 DEF CBTypeOK
  <1>6. /\ locks' \in [Worker -> [Weights -> BOOLEAN]] /\ ~locks'[w][p]
        /\ \A r \in Weights : r # p => locks'[w][r] = locks[w][r]
        /\ \A v \in Worker : v # w => locks'[v] = locks[v]
    <2>1. locks \in [Worker -> [Weights -> BOOLEAN]]
      BY <1>1 DEF CBTypeOK
    <2> QED BY <1>2, <1>4, <2>1, ExceptType
  <1>7. CBTypeOK' /\ CBCoreInv'
    BY <1>1, <1>4, <1>5, <1>6 DEF CBInv, CBTypeOK, CBCoreInv
  <1>8. \A r : ~Holds(w, r)' /\ ~Updated(w, r)'
    BY <1>5 DEF Holds, Updated
  <1>9. CBLockInv(w)'
    <2>1. \A r, i : QueuedAt(w, r, i)' <=> QueuedAt(w, r, i)
      BY <1>4 DEF QueuedAt
    <2>2. ASSUME NEW r \in Weights PROVE Locked(w, r)' /\ HeldOnce(w, r)'
      BY <1>1, <1>3, <1>4, <1>6, <1>8, <2>1 DEF CBLockInv, Locked, HeldOnce
    <2>3. ASSUME NEW r \in Weights PROVE QueuedOnce(w, r)'
      <3>1. CASE r = p
        BY <1>1, <1>2, <1>3, <1>4, <2>1, <3>1 DEF CBLockInv, QueuedOnce
      <3>2. CASE r # p
        BY <1>1, <1>4, <1>6, <1>8, <2>1, <3>2 DEF CBLockInv, QueuedOnce
      <3> QED BY <3>1, <3>2
    <2>4. ASSUME NEW r \in Weights PROVE AllApplied(w, r)'
      <3>1. CASE r = p
        BY <1>1, <1>2, <1>3, <1>4, <1>6, <3>1 DEF CBLockInv, AllApplied
      <3>2. CASE r # p
        BY <1>1, <1>3, <1>4, <1>6, <1>8, <3>2 DEF CBLockInv, AllApplied
      <3> QED BY <3>1, <3>2
    <2>5. (IF ppc[w] \in {"get", "exited"} THEN event[w] = Sentinel ELSE event[w] \in Event)'
      BY <1>5 DEF Sentinel, Event
    <2> QED BY <2>2, <2>3, <2>4, <2>5 DEF CBLockInv
  <1>10. CBPassInv(w)'
    <2>1. CB!Layers(w)' = CB!Layers(w)
      BY <1>4 DEF CB!Layers
    <2>2. ASSUME pc[w] \in {"forward", "backward"}, NEW i \in 1..Len(CB!Layers(w)),
                 ~locks[w][CB!Layers(w)[i]]
          PROVE  ~locks'[w][CB!Layers(w)[i]]
      <3>1. CB!Layers(w)[i] \in Weights
        BY <2>2, LayersTypes
      <3> QED BY <1>6, <2>2, <3>1
    <2> QED BY <1>1, <1>4, <2>1, <2>2 DEF CBPassInv
  <1>11. CBDelayInv(w)'
    <2>1. \A r \in Weights : push_pull_delay[w][r] = 0 /\ locks[w][r] => locks'[w][r]
      BY <1>1, <1>2, <1>3, <1>6 DEF CBDelayInv
    <2>2. CB!Layers(w)' = CB!Layers(w)
      BY <1>4 DEF CB!Layers
    <2> QED BY <1>1, <1>4, <1>8, <2>1, <2>2 DEF CBDelayInv
  <1> QED BY <1>4, <1>5, <1>6, <1>7, <1>9, <1>10, <1>11, CBWorkerStep DEF CBLocal

LEMMA MarkDoneStep ==
  ASSUME CBInv, NEW w \in Worker, NEW p \in Weights, CB!MarkDone(w, p)
  PROVE  CBInv'
  <1>1. CBTypeOK /\ done \in [Worker -> [Weights -> Nat]]
        /\ \A v \in Worker, r \in Weights : pushed[v][r] \in Seq(Gradient)
    BY DEF CBInv, CBTypeOK
  <1>2. /\ \A v \in Worker : Len(pushed[v][p]) > done[w][p]
        /\ done' = [done EXCEPT ![w][p] = done[w][p] + 1]
        /\ UNCHANGED <<opt, step, pc, idx, handles, locks, push_pull_delay, grad, param, event_queue,
                       ppc, event, pushed>>
    BY DEF CB!MarkDone, CB!main, CB!poller
  <1>3. /\ done' \in [Worker -> [Weights -> Nat]] /\ done'[w][p] = done[w][p] + 1
        /\ \A v \in Worker, r \in Weights : ~(v = w /\ r = p) => done'[v][r] = done[v][r]
    BY <1>1, <1>2
  <1>4. CBTypeOK'
    BY <1>1, <1>2, <1>3 DEF CBTypeOK
  <1>5. CBCoreInv'
    <2>1. ASSUME NEW v \in Worker, NEW u \in Worker, NEW r \in Weights
          PROVE  done'[u][r] <= Len(pushed[v][r])
      <3>1. Len(pushed[v][r]) \in Nat /\ done[u][r] \in Nat
        BY <1>1
      <3>2. CASE u = w /\ r = p
        BY <1>2, <1>3, <3>1, <3>2
      <3>3. CASE ~(u = w /\ r = p)
        BY <1>3, <3>3 DEF CBInv, CBCoreInv
      <3> QED BY <3>2, <3>3
    <2> QED BY <1>2, <2>1 DEF CBCoreInv
  <1>6. \A v \in Worker : CBLocal(v)'
    BY <1>2, CBOthers
  <1> QED BY <1>4, <1>5, <1>6 DEF CBInv

LEMMA CBInductive == CBInv /\ CBStep => CBInv'
  <1> SUFFICES ASSUME CBInv, CBStep PROVE CBInv'
    OBVIOUS
  <1>1. ASSUME NEW w \in Worker, CB!Main(w) PROVE CBInv'
    BY <1>1, StepZeroStep, ZeroGradStep, PreForwardHookStep, HookStep, SynchronizeStep,
       StepReturnsStep, FinalStepDrainedStep, JoinStep DEF CB!Main
  <1>2. ASSUME NEW w \in Worker, CB!Poller(w) PROVE CBInv'
    BY <1>2, PollGetStep, PollAgainStep, PollFinishedStep, ZeroOneGradStep, PollReleaseStep DEF CB!Poller
  <1> QED BY <1>1, <1>2, MarkDoneStep DEF CBStep

-----------------------------------------------------------------------------
(* What the invariant says about the properties.                            *)

LEMMA CBCardinality == \A S : CB!Cardinality(S) = Cardinality(S)
  BY DEF CB!Cardinality, Cardinality

\* The events of p in flight are the one the poller holds and the queued ones.
LEMMA CBLocks == CBInv => CB!LockHeldWhileInFlight
  <1> SUFFICES ASSUME CBInv, NEW w \in Worker, NEW p \in Weights
               PROVE  CB!Cardinality({e \in CB!InFlight(w) : e.p = p}) = (IF locks[w][p] THEN 1 ELSE 0)
    BY DEF CB!LockHeldWhileInFlight, Weights
  <1> DEFINE E == {e \in CB!InFlight(w) : e.p = p}
             q == event_queue[w]
             n == Len(q)
             T == Event \cup {Sentinel}
  <1>1. CBLockInv(w) /\ DOMAIN q = 1..n /\ \A i \in 1..n : q[i] \in T
    <2>1. CBTypeOK /\ CBLockInv(w)
      BY DEF CBInv, CBLocal
    <2>2. q \in Seq(T)
      BY <2>1 DEF CBTypeOK
    <2> HIDE DEF T, q
    <2>3. DOMAIN q = 1..n /\ \A i \in 1..n : q[i] \in T
      BY <2>2
    <2> QED BY <2>1, <2>3
  <1>2. \A e : e \in CB!InFlight(w) <=> e # Sentinel /\ (e = event[w] \/ \E i \in 1..n : e = q[i])
    BY <1>1 DEF CB!InFlight, CB!Range, Sentinel
  <1>3. Holds(w, p) <=> event[w] \in E
    <2>1. IF ppc[w] \in {"get", "exited"} THEN event[w] = Sentinel ELSE event[w] \in Event
      BY <1>1 DEF CBLockInv
    <2>2. ppc[w] \in {"get", "poll", "zero_one_grad", "release", "exited"}
      BY DEF CBInv, CBTypeOK
    <2>3. event[w] \in E <=> event[w] # Sentinel /\ event[w].p = p
      BY <1>2
    <2> HIDE DEF E
    <2> QED BY <2>1, <2>2, <2>3, SentinelIsNoEvent DEF Holds
  <1>4. \A i \in 1..n : QueuedAt(w, p, i) <=> q[i] \in E
    BY <1>1, <1>2, SentinelIsNoEvent DEF QueuedAt
  <1>5. \A e \in E : e = event[w] \/ \E i \in 1..n : e = q[i]
    BY <1>2
  <1> HIDE DEF E
  <1>6. CASE ~locks[w][p]
    <2>1. ~Holds(w, p) /\ \A i \in 1..n : ~QueuedAt(w, p, i)
      BY <1>1, <1>6 DEF CBLockInv, HeldOnce, QueuedOnce
    <2>2. E = {}
      BY <1>3, <1>4, <1>5, <2>1
    <2> QED BY <1>6, <2>2, FS_EmptySet, CBCardinality DEF E
  <1>7. CASE locks[w][p]
    <2>1. CASE Holds(w, p)
      <3>1. \A i \in 1..n : ~QueuedAt(w, p, i)
        BY <1>1, <2>1 DEF CBLockInv, QueuedOnce
      <3>2. E = {event[w]}
        BY <1>3, <1>4, <1>5, <2>1, <3>1
      <3> QED BY <1>7, <3>2, FS_Singleton, CBCardinality DEF E
    <2>2. CASE ~Holds(w, p)
      <3>1. PICK i \in 1..n : QueuedAt(w, p, i)
        BY <1>1, <1>7, <2>2 DEF CBLockInv, Locked
      <3>2. \A j \in 1..n : QueuedAt(w, p, j) => i = j
        BY <1>1, <3>1 DEF CBLockInv, QueuedOnce
      <3>3. E = {q[i]}
        BY <1>3, <1>4, <1>5, <2>2, <3>1, <3>2
      <3> QED BY <1>7, <3>3, FS_Singleton, CBCardinality DEF E
    <2> QED BY <2>1, <2>2
  <1> QED BY <1>6, <1>7

LEMMA CBForward == CBInv => CB!ForwardReadsUpdated
  <1> SUFFICES ASSUME CBInv, NEW w \in Worker, pc[w] \in {"forward", "backward"},
                      NEW i \in 1..Len(CB!Layers(w)), pc[w] = "backward" \/ i < idx[w]
               PROVE  /\ Len(param[w][CB!Layers(w)[i]].data) = Len(pushed[w][CB!Layers(w)[i]])
                      /\ ~locks[w][CB!Layers(w)[i]]
    BY DEF CB!ForwardReadsUpdated
  <1> DEFINE p == CB!Layers(w)[i]
  <1>1. p \in Weights
    BY LayersTypes
  <1>2. ~locks[w][p]
    BY DEF CBInv, CBLocal, CBPassInv
  <1> HIDE DEF p
  <1>3. param[w][p] \in [data : Seq(Seq(Gradient)), buf : Seq(Gradient), step : Nat]
    BY <1>1 DEF CBInv, CBTypeOK
  <1>4. param[w][p].data \in Seq(Seq(Gradient))
    BY <1>3
  <1>5. Len(param[w][p].data) \in Nat
    BY <1>4
  <1>6. AllApplied(w, p)
    BY <1>1 DEF CBInv, CBLocal, CBLockInv
  <1>7. Len(param[w][p].data) = Len(pushed[w][p])
    BY <1>2, <1>5, <1>6 DEF AllApplied
  <1> QED BY <1>2, <1>7 DEF p

-----------------------------------------------------------------------------
(* The plugin that is imported stays.                                       *)

CBJob == plugin = "cross_barrier" => CBInv

LEMMA CBStutter == CBInv /\ UNCHANGED vars => CBInv'
  <1> SUFFICES ASSUME CBInv, UNCHANGED vars PROVE CBInv'
    OBVIOUS
  <1>1. UNCHANGED <<opt, step, pc, idx, handles, locks, push_pull_delay, grad, param, event_queue,
                    ppc, event, pushed, done>>
    BY DEF vars, shared, cbonly, core
  <1>2. CBTypeOK' /\ CBCoreInv'
    BY <1>1 DEF CBInv, CBTypeOK, CBCoreInv
  <1>3. \A w \in Worker : CBLocal(w)'
    BY <1>1, CBOthers
  <1> QED BY <1>2, <1>3 DEF CBInv

LEMMA CBJobInit == Init => CBJob
  BY CBInit DEF Init, CBJob

LEMMA CBJobInductive == CBJob /\ [Next]_vars => CBJob'
  <1> SUFFICES ASSUME CBJob, [Next]_vars, plugin' = "cross_barrier" PROVE CBInv'
    BY DEF CBJob
  <1>1. ASSUME Next, plugin = "cross_barrier" PROVE CBStep
    BY <1>1 DEF Next, Runs, TorchRuns, DDPRuns, HalfRuns, MXRuns, TFRuns, CBMain, CBPoller, CBCore,
                MSMain, MSReplica, CBStep, Weights
  <1>2. CASE Next
    BY <1>1, <1>2, PluginStays, CBInductive DEF CBJob
  <1>3. CASE UNCHANGED vars
    BY <1>3, PluginStays, CBStutter DEF CBJob
  <1> QED BY <1>2, <1>3

\* cross_barrier.py, for all numbers of workers, parameters and steps and every
\* choice of layers: a parameter's lock is held exactly while one event of it is
\* queued or in the poller's hands, and what the forward pass has gone through
\* has every push made of it applied.
THEOREM ForwardPassReadsUpdated == Spec => []ForwardReadsUpdated
  <1>1. Init => CBJob
    BY CBJobInit
  <1>2. CBJob /\ [Next]_vars => CBJob'
    BY CBJobInductive
  <1>3. CBJob => ForwardReadsUpdated
    BY CBLocks, CBForward DEF CBJob, ForwardReadsUpdated
  <1> QED BY <1>1, <1>2, <1>3, PTL DEF Spec

-----------------------------------------------------------------------------
(* MXNet's trainer.                                                         *)

MXName == {MX!GradientOf(p) : p \in Weights} \cup {MX!ParameterOf(p) : p \in Weights}
MXUpdate == [from : SUBSET (Worker \X Nat), by : Seq({"momentum", "wd"})]
MXValue == MXUpdate \cup Worker \cup {MX!Zero}
MXStage == {"ready", "allreduce", "grad_wait", "update", "finished"}

MXChoice ==
    /\ api \in {"gluon", "module"}
    /\ compression_params \in [compressor : {"none", "onebit", "topk"}, momentum : BOOLEAN]
    /\ api = "module" => compression_params.compressor = "none"
    /\ optimizer_params = MX!Remaining(compression_params)
    /\ intra_compressor = MX!Adapters(compression_params)

MXTypeOK ==
    /\ stage \in [Worker -> [Weights -> MXStage]]
    /\ step \in [Worker -> Nat \ {0}]
    /\ grad \in [Worker -> [Weights -> MXUpdate]]
    /\ data \in [Worker -> [Weights -> Worker]]
    /\ weight \in [Worker -> [Weights -> Seq(MXUpdate)]]
    /\ pushed \in [Worker -> [MXName -> Seq(MXValue)]]
    /\ live \in [Worker -> SUBSET MXName]

\* What is in the gradient when the optimizer gets it.
Adapted(p) == MX!CoreMomentum(p) \o MX!wdmom_decompress(p) \o MX!nag_decompress(p)

\* What the k-th update may be: momentum and weight decay, in either order.
Orders == {<<"momentum", "wd">>, <<"wd", "momentum">>}
Applied(k) == {[from |-> {<<v, k>> : v \in Worker}, by |-> b] : b \in Orders}

\* The step has been counted when the last parameter has been updated.
MXStepInv(w) ==
    \A p \in Weights : Len(weight[w][p]) =
        IF stage[w][p] \in {"ready", "finished"} /\ \E q \in Weights : stage[w][q] # "ready"
        THEN step[w] ELSE step[w] - 1

\* Every update is of the push_pull of its number, and that of the step's number.
Pushes(w, p) == pushed[w][MX!GradientOf(p)]
MXGradInv(w, p) ==
    /\ Len(Pushes(w, p)) =
        Len(weight[w][p]) + (IF stage[w][p] \in {"grad_wait", "update"} THEN 1 ELSE 0)
    /\ \A n \in 1..Len(Pushes(w, p)) :
        Pushes(w, p)[n] = [from |-> {<<w, n>>}, by |-> MX!CoreMomentum(p)]
    /\ stage[w][p] = "allreduce" =>
        grad[w][p] = [from |-> {<<w, Len(weight[w][p]) + 1>>}, by |-> << >>]
    /\ stage[w][p] = "update" =>
        grad[w][p] = [from |-> {<<v, Len(weight[w][p]) + 1>> : v \in Worker}, by |-> Adapted(p)]
    /\ \A k \in 1..Len(weight[w][p]) :
        weight[w][p][k] \in Applied(k)

\* The broadcast of a parameter: the root pushes its own, all others zeros.
Broadcast(w, p) == pushed[w][MX!ParameterOf(p)]
MXRootInv(w, p) ==
    /\ w = Root => data[w][p] = Root
    /\ Len(Broadcast(w, p)) \in {0, 1}
    /\ Len(Broadcast(w, p)) = 1 => Broadcast(w, p)[1] = IF w = Root THEN Root ELSE MX!Zero
    /\ MX!ParameterOf(p) \in live[w] => Len(Broadcast(w, p)) = 1
    /\ MX!InitOrdered(w, p) => data[w][p] = Root
    /\ weight[w][p] # << >> => data[w][p] = Root

MXLocal(w) == MXStepInv(w) /\ \A p \in Weights : MXGradInv(w, p) /\ MXRootInv(w, p)

MXInv == MXChoice /\ MXTypeOK /\ \A w \in Worker : MXLocal(w)

LEMMA MXInitial == MX!MXInit => MXInv
  <1> SUFFICES ASSUME MX!MXInit PROVE MXInv
    OBVIOUS
  <1>1. MXChoice
    <2>1. CASE api = "gluon"
      BY <2>1 DEF MX!MXInit, MXChoice
    <2>2. CASE api # "gluon"
      <3>1. api = "module" /\ compression_params = [compressor |-> "none", momentum |-> FALSE]
        BY <2>2 DEF MX!MXInit
      <3>2. /\ compression_params \in [compressor : {"none", "onebit", "topk"}, momentum : BOOLEAN]
            /\ compression_params.compressor = "none"
        BY <3>1
      <3> QED BY <3>1, <3>2 DEF MX!MXInit, MXChoice
    <2> QED BY <2>1, <2>2
  <1>2. /\ stage = [w \in Worker |-> [p \in Weights |-> "ready"]]
        /\ step = [w \in Worker |-> 1]
        /\ grad = [w \in Worker |-> [p \in Weights |-> [from |-> {}, by |-> << >>]]]
        /\ data = [w \in Worker |-> [p \in Weights |-> w]]
        /\ weight = [w \in Worker |-> [p \in Weights |-> << >>]]
        /\ pushed = [w \in Worker |-> [n \in MXName |-> << >>]]
        /\ live = [w \in Worker |-> {}]
    BY DEF MX!MXInit, MX!CoreInit, MXName, Weights
  <1>3. MXTypeOK
    <2>1. [from |-> {}, by |-> << >>] \in MXUpdate
      BY EmptySequences DEF MXUpdate
    <2> QED BY <1>2, <2>1, EmptySequences DEF MXTypeOK, MXStage
  <1>4. ASSUME NEW w \in Worker PROVE MXLocal(w)
    <2>1. MXStepInv(w)
      BY <1>2, EmptySequences DEF MXStepInv
    <2>2. ASSUME NEW p \in Weights PROVE MXGradInv(w, p) /\ MXRootInv(w, p)
      <3>1. MX!GradientOf(p) \in MXName /\ MX!ParameterOf(p) \in MXName
        BY DEF MXName
      <3>2. pushed[w][MX!GradientOf(p)] = << >> /\ pushed[w][MX!ParameterOf(p)] = << >>
        BY <1>2, <3>1
      <3>3. weight[w][p] = << >> /\ stage[w][p] = "ready" /\ data[w][p] = w /\ live[w] = {}
        BY <1>2
      <3>4. MXGradInv(w, p)
        BY <3>2, <3>3, EmptySequences DEF MXGradInv, Pushes
      <3>5. MXRootInv(w, p)
        BY <3>2, <3>3, EmptySequences DEF MXRootInv, Broadcast, MX!InitOrdered
      <3> QED BY <3>4, <3>5
    <2> QED BY <2>1, <2>2 DEF MXLocal
  <1> QED BY <1>1, <1>3, <1>4 DEF MXInv

\* The parts of the invariant of a worker that does not move.
LEMMA MXGradFrame ==
  ASSUME NEW w, NEW p, MXGradInv(w, p),
         UNCHANGED <<compression_params, intra_compressor, Pushes(w, p), weight[w][p], stage[w][p], grad[w][p]>>
  PROVE  MXGradInv(w, p)'
  <1>1. Adapted(p)' = Adapted(p) /\ MX!CoreMomentum(p)' = MX!CoreMomentum(p)
    BY DEF Adapted, MX!CoreMomentum, MX!CoreCompresses, MX!nag_decompress, MX!wdmom_decompress
  <1> QED BY <1>1 DEF MXGradInv

LEMMA MXRootFrame ==
  ASSUME NEW w, NEW p, MXRootInv(w, p),
         UNCHANGED <<Broadcast(w, p), weight[w][p], data[w][p]>>,
         MX!ParameterOf(p) \in live'[w] <=> MX!ParameterOf(p) \in live[w]
  PROVE  MXRootInv(w, p)'
  BY DEF MXRootInv, MX!InitOrdered, Broadcast

LEMMA MXOthers ==
  ASSUME MXInv, NEW w \in Worker,
         UNCHANGED <<api, compression_params, optimizer_params, intra_compressor>>,
         MXTypeOK', MXLocal(w)',
         \A v \in Worker : v # w =>
            UNCHANGED <<stage[v], step[v], grad[v], data[v], weight[v], pushed[v], live[v]>>
  PROVE  MXInv'
  <1>1. MXChoice'
    BY DEF MXInv, MXChoice
  <1>2. ASSUME NEW v \in Worker, v # w PROVE MXLocal(v)'
    <2>1. MXLocal(v) /\ UNCHANGED <<stage[v], step[v], grad[v], data[v], weight[v], pushed[v], live[v]>>
      BY <1>2 DEF MXInv
    <2>2. MXStepInv(v)'
      BY <2>1 DEF MXLocal, MXStepInv
    <2>3. ASSUME NEW p \in Weights PROVE MXGradInv(v, p)' /\ MXRootInv(v, p)'
      BY <2>1, MXGradFrame, MXRootFrame DEF MXLocal, Pushes, Broadcast
    <2> QED BY <2>2, <2>3 DEF MXLocal
  <1> QED BY <1>1, <1>2 DEF MXInv

LEMMA TwoInOrder ==
  ASSUME NEW x \in {"momentum", "wd"}, NEW y \in {"momentum", "wd"}
  PROVE  <<x>> \o <<y>> = <<x, y>>
  <1> DEFINE S == {"momentum", "wd"}
             a == <<x>>
             b == <<y>>
             c == <<x, y>>
  <1>1. /\ a \in Seq(S) /\ b \in Seq(S) /\ c \in Seq(S) /\ Len(a) = 1 /\ Len(b) = 1 /\ Len(c) = 2
        /\ a[1] = x /\ b[1] = y /\ c[1] = x /\ c[2] = y
    OBVIOUS
  <1> HIDE DEF S, a, b, c
  <1>2. /\ a \o b \in Seq(S) /\ Len(a \o b) = 2
        /\ \A i \in 1..2 : (a \o b)[i] = IF i <= 1 THEN a[i] ELSE b[i - 1]
    <2>1. /\ a \o b \in Seq(S) /\ Len(a \o b) = Len(a) + Len(b)
          /\ \A i \in 1..Len(a) + Len(b) : (a \o b)[i] = IF i <= Len(a) THEN a[i] ELSE b[i - Len(a)]
      BY <1>1, ConcatProperties
    <2>2. Len(a) + Len(b) = 2 /\ Len(a) = 1
      BY <1>1
    <2> QED BY <2>1, <2>2
  <1>3. (a \o b)[1] = a[1] /\ (a \o b)[2] = b[1]
    BY <1>2
  <1>4. \A i \in 1..2 : (a \o b)[i] = c[i]
    BY <1>1, <1>3
  <1>5. a \o b = c
    BY <1>1, <1>2, <1>4
  <1> QED BY <1>5 DEF a, b, c

\* Wherever momentum and weight decay are applied, each is applied once.
LEMMA EachOnce ==
  ASSUME MXChoice, NEW p \in Weights
  PROVE  Adapted(p) \o MX!Own(optimizer_params) \in Orders
  <1> DEFINE c == compression_params
             m == <<"momentum">>
             d == <<"wd">>
             md == <<"momentum", "wd">>
             dm == <<"wd", "momentum">>
  <1>1. /\ c.compressor \in {"none", "onebit", "topk"} /\ c.momentum \in BOOLEAN
        /\ optimizer_params = MX!Remaining(c) /\ intra_compressor = MX!Adapters(c)
    BY DEF MXChoice
  <1>2. Bytes[p] >= MIN_COMPRESS <=> ~(Bytes[p] < MIN_COMPRESS)
    BY BytesAssumption DEF Weights
  <1>3. /\ << >> \o << >> = << >> /\ << >> \o m = m /\ m \o << >> = m /\ << >> \o d = d /\ d \o << >> = d
        /\ m \o d = md /\ d \o m = dm
        /\ << >> \o md = md /\ md \o << >> = md /\ dm \o << >> = dm
    BY TwoInOrder
  <1>4. CASE ~MX!Moved(c)
    <2>1. MX!Own(optimizer_params) = md
      BY <1>1, <1>3, <1>4 DEF MX!Own, MX!Remaining
    <2>2. /\ MX!CoreMomentum(p) = << >> /\ MX!nag_decompress(p) = << >> /\ MX!wdmom_decompress(p) = << >>
      BY <1>1, <1>4 DEF MX!Moved, MX!CoreMomentum, MX!CoreCompresses, MX!nag_decompress,
                        MX!wdmom_decompress, MX!Adapters
    <2> QED BY <1>3, <2>1, <2>2 DEF Adapted, Orders
  <1>5. CASE MX!Moved(c)
    <2>1. \/ MX!CoreMomentum(p) = m /\ MX!nag_decompress(p) = << >>
          \/ MX!CoreMomentum(p) = << >> /\ MX!nag_decompress(p) = m
      BY <1>1, <1>2, <1>5 DEF MX!Moved, MX!CoreMomentum, MX!CoreCompresses, MX!nag_decompress,
                              MX!Adapters
    <2>2. CASE c.compressor = "onebit"
      <3>1. MX!wdmom_decompress(p) = d
        BY <1>1, <1>5, <2>2 DEF MX!wdmom_decompress, MX!Adapters
      <3>2. MX!Own(optimizer_params) = << >>
        BY <1>1, <1>3, <1>5, <2>2 DEF MX!Own, MX!Remaining
      <3>3. Adapted(p) \in {md, dm}
        BY <1>3, <2>1, <3>1 DEF Adapted
      <3> QED BY <1>3, <3>2, <3>3 DEF Orders
    <2>3. CASE c.compressor # "onebit"
      <3>1. MX!wdmom_decompress(p) = << >>
        BY <1>1, <2>3 DEF MX!wdmom_decompress, MX!Adapters
      <3>2. MX!Own(optimizer_params) = d
        <4>1. optimizer_params = {"wd"}
          BY <1>1, <1>5, <2>3 DEF MX!Remaining
        <4>2. << >> \o d = d
          OBVIOUS
        <4> QED BY <4>1, <4>2 DEF MX!Own
      <3>3. Adapted(p) = m
        BY <1>3, <2>1, <3>1 DEF Adapted
      <3> QED BY <1>3, <3>2, <3>3 DEF Orders
    <2> QED BY <2>2, <2>3
  <1> QED BY <1>4, <1>5

LEMMA MXNames ==
  ASSUME NEW p \in Weights
  PROVE  /\ MX!GradientOf(p) \in MXName /\ MX!ParameterOf(p) \in MXName
         /\ \A q : MX!GradientOf(q) # MX!ParameterOf(p)
         /\ \A q : q # p => MX!GradientOf(q) # MX!GradientOf(p) /\ MX!ParameterOf(q) # MX!ParameterOf(p)
  <1>1. MX!GradientOf(p) \in MXName /\ MX!ParameterOf(p) \in MXName
    BY DEF MXName
  <1>2. \A q : MX!GradientOf(q) # MX!ParameterOf(p)
    BY DEF MX!GradientOf, MX!ParameterOf
  <1>3. \A q : q # p => MX!GradientOf(q) # MX!GradientOf(p) /\ MX!ParameterOf(q) # MX!ParameterOf(p)
    BY DEF MX!GradientOf, MX!ParameterOf
  <1> QED BY <1>1, <1>2, <1>3

LEMMA MXTypes ==
  ASSUME MXInv, NEW w \in Worker, NEW p \in Weights
  PROVE  /\ MXGradInv(w, p) /\ MXRootInv(w, p)
         /\ Pushes(w, p) \in Seq(MXValue) /\ Len(Pushes(w, p)) \in Nat
         /\ Broadcast(w, p) \in Seq(MXValue)
         /\ weight[w][p] \in Seq(MXUpdate) /\ Len(weight[w][p]) \in Nat
         /\ step[w] \in Nat \ {0} /\ stage[w][p] \in MXStage /\ grad[w][p] \in MXUpdate
  <1>1. MXTypeOK /\ MXGradInv(w, p) /\ MXRootInv(w, p)
    BY DEF MXInv, MXLocal
  <1>2. Pushes(w, p) \in Seq(MXValue) /\ Broadcast(w, p) \in Seq(MXValue)
    BY <1>1, MXNames DEF MXTypeOK, Pushes, Broadcast
  <1>3. weight[w][p] \in Seq(MXUpdate) /\ step[w] \in Nat \ {0} /\ stage[w][p] \in MXStage /\ grad[w][p] \in MXUpdate
    BY <1>1 DEF MXTypeOK
  <1> QED BY <1>1, <1>2, <1>3

LEMMA MXBackwardStep ==
  ASSUME MXInv, NEW w \in Worker, MX!backward(w)
  PROVE  MXInv'
  <1>1. MXTypeOK /\ \A p \in Weights : stage[w][p] = "ready"
    BY DEF MXInv, MX!backward, Weights
  <1>2. /\ stage' = [stage EXCEPT ![w] = [p \in Weights |-> "allreduce"]]
        /\ grad' = [grad EXCEPT ![w] = [p \in Weights |-> [from |-> {<<w, step[w]>>}, by |-> << >>]]]
        /\ UNCHANGED <<api, compression_params, optimizer_params, intra_compressor, step, data, weight, pushed, live>>
    BY DEF MX!backward, MX!choice, MX!core, Weights
  <1>3. [from |-> {<<w, step[w]>>}, by |-> << >>] \in MXUpdate
    <2>1. <<w, step[w]>> \in Worker \X Nat
      BY <1>1 DEF MXTypeOK
    <2> QED BY <2>1, EmptySequences DEF MXUpdate
  <1>4. /\ stage' \in [Worker -> [Weights -> MXStage]]
        /\ grad' \in [Worker -> [Weights -> MXUpdate]]
        /\ \A p \in Weights : stage'[w][p] = "allreduce" /\ grad'[w][p] = [from |-> {<<w, step[w]>>}, by |-> << >>]
        /\ \A v \in Worker : v # w => UNCHANGED <<stage[v], grad[v]>>
    <2>1. stage' \in [Worker -> [Weights -> MXStage]] /\ \A p \in Weights : stage'[w][p] = "allreduce"
      BY <1>1, <1>2 DEF MXTypeOK, MXStage
    <2> DEFINE g == [from |-> {<<w, step[w]>>}, by |-> << >>]
    <2>2. grad \in [Worker -> [Weights -> MXUpdate]] /\ g \in MXUpdate
          /\ grad' = [grad EXCEPT ![w] = [p \in Weights |-> g]]
      BY <1>1, <1>2, <1>3 DEF MXTypeOK
    <2> HIDE DEF g
    <2>3. grad' \in [Worker -> [Weights -> MXUpdate]] /\ \A p \in Weights : grad'[w][p] = g
      BY <2>2
    <2>4. \A v \in Worker : v # w => UNCHANGED <<stage[v], grad[v]>>
      BY <1>1, <1>2, <2>2 DEF MXTypeOK
    <2> QED BY <2>1, <2>3, <2>4 DEF g
  <1>5. MXTypeOK'
    BY <1>1, <1>2, <1>4 DEF MXTypeOK
  <1>6. \A p \in Weights : Len(weight[w][p]) = step[w] - 1
    BY <1>1 DEF MXInv, MXLocal, MXStepInv
  <1>7. MXStepInv(w)'
    BY <1>2, <1>4, <1>6 DEF MXStepInv
  <1>8. ASSUME NEW p \in Weights PROVE MXGradInv(w, p)' /\ MXRootInv(w, p)'
    <2>1. MXRootInv(w, p)'
      BY <1>2, MXTypes, MXRootFrame DEF Broadcast
    <2>2. MX!CoreMomentum(p)' = MX!CoreMomentum(p)
      BY <1>2 DEF MX!CoreMomentum, MX!CoreCompresses
    <2>3. /\ stage'[w][p] = "allreduce" /\ Pushes(w, p)' = Pushes(w, p) /\ weight' = weight
          /\ grad'[w][p] = [from |-> {<<w, Len(weight[w][p]) + 1>>}, by |-> << >>]
      <3>1. Len(weight[w][p]) + 1 = step[w]
        BY <1>6, MXTypes
      <3> QED BY <1>2, <1>4, <3>1 DEF Pushes
    <2>4. /\ Len(Pushes(w, p)) = Len(weight[w][p]) + 0
          /\ \A n \in 1..Len(Pushes(w, p)) :
                Pushes(w, p)[n] = [from |-> {<<w, n>>}, by |-> MX!CoreMomentum(p)]
          /\ \A k \in 1..Len(weight[w][p]) :
                weight[w][p][k] \in Applied(k)
      BY <1>1, MXTypes DEF MXGradInv
    <2>5. MXGradInv(w, p)'
      BY <2>2, <2>3, <2>4 DEF MXGradInv
    <2> QED BY <2>1, <2>5
  <1> QED BY <1>2, <1>4, <1>5, <1>7, <1>8, MXOthers DEF MXLocal

\* The broadcast of all parameters, in gluon's first step or before a Module's.
LEMMA MXBroadcastStep ==
  ASSUME MXInv, NEW w \in Worker, \A p \in Weights : Broadcast(w, p) = << >>,
         MX!push_pull_all(w, {MX!ParameterOf(p) : p \in Weights}, MX!RootOrZero(w)),
         UNCHANGED <<api, compression_params, optimizer_params, intra_compressor, stage, step, grad, data, weight>>
  PROVE  MXInv'
  <1> DEFINE N == {MX!ParameterOf(p) : p \in Weights}
             rootval == IF w = Root THEN Root ELSE MX!Zero
             new == [n \in MXName |-> IF n \in N THEN Append(pushed[w][n], MX!RootOrZero(w)[n]) ELSE pushed[w][n]]
  <1>1. MXTypeOK /\ pushed \in [Worker -> [MXName -> Seq(MXValue)]] /\ live \in [Worker -> SUBSET MXName]
    BY DEF MXInv, MXTypeOK
  <1>2. /\ pushed' = [pushed EXCEPT ![w] = new]
        /\ live' = [live EXCEPT ![w] = live[w] \cup N]
    BY <1>1 DEF MX!push_pull_all
  <1>3. ASSUME NEW p \in Weights PROVE MX!RootOrZero(w)[MX!ParameterOf(p)] = rootval
    <2>1. MX!RootOrZero(w)[MX!ParameterOf(p)] = IF w = Root THEN data[w][p] ELSE MX!Zero
      <3>1. MX!ParameterOf(p) \in {MX!ParameterOf(q) : q \in Range(Param)} /\ MX!ParameterOf(p)[2] = p
        BY DEF MX!ParameterOf, Weights
      <3> QED BY <3>1 DEF MX!RootOrZero
    <2>2. w = Root => data[w][p] = Root
      BY MXTypes DEF MXRootInv
    <2> QED BY <2>1, <2>2
  <1>4. rootval \in MXValue
    BY RootAssumption DEF MXValue
  <1>5. new \in [MXName -> Seq(MXValue)] /\ N \subseteq MXName
    <2>1. ASSUME NEW n \in MXName PROVE new[n] \in Seq(MXValue)
      <3>1. pushed[w][n] \in Seq(MXValue)
        BY <1>1
      <3>2. CASE n \in N
        <4>1. new[n] = Append(pushed[w][n], rootval)
          BY <1>3, <3>2
        <4> HIDE DEF new, rootval
        <4> QED BY <1>4, <3>1, <4>1
      <3>3. CASE n \notin N
        BY <3>1, <3>3
      <3> QED BY <3>2, <3>3
    <2> QED BY <2>1 DEF MXName
  <1>6. ASSUME NEW p \in Weights
        PROVE  /\ new[MX!GradientOf(p)] = Pushes(w, p)
               /\ Len(new[MX!ParameterOf(p)]) = 1 /\ new[MX!ParameterOf(p)][1] = rootval
    <2>1. MX!GradientOf(p) \notin N /\ MX!ParameterOf(p) \in N
      BY MXNames
    <2>2. pushed[w][MX!ParameterOf(p)] = << >>
      BY DEF Broadcast
    <2>3. new[MX!ParameterOf(p)] = Append(<< >>, rootval)
      BY <1>3, <2>1, <2>2, MXNames
    <2>4. new[MX!GradientOf(p)] = Pushes(w, p)
      BY <2>1, MXNames DEF Pushes
    <2> HIDE DEF new, rootval
    <2> QED BY <1>4, <2>3, <2>4
  <1> HIDE DEF N, rootval, new
  <1>7. /\ pushed' \in [Worker -> [MXName -> Seq(MXValue)]] /\ pushed'[w] = new
        /\ live' \in [Worker -> SUBSET MXName]
        /\ \A v \in Worker : v # w => UNCHANGED <<pushed[v], live[v]>>
    BY <1>1, <1>2, <1>5
  <1>8. MXTypeOK'
    BY <1>1, <1>7 DEF MXTypeOK
  <1>9. MXStepInv(w)'
    BY DEF MXInv, MXLocal, MXStepInv
  <1>10. ASSUME NEW p \in Weights PROVE MXGradInv(w, p)' /\ MXRootInv(w, p)'
    <2>1. Pushes(w, p)' = Pushes(w, p)
      BY <1>6, <1>7 DEF Pushes
    <2>2. MXGradInv(w, p)'
      BY <2>1, MXTypes, MXGradFrame
    <2>3. Broadcast(w, p)' = new[MX!ParameterOf(p)] /\ pushed'[w][MX!ParameterOf(p)] = new[MX!ParameterOf(p)]
      BY <1>7 DEF Broadcast
    <2>4. MX!ParameterOf(p) \in live'[w]
      BY <1>1, <1>2 DEF N
    <2>5. MXRootInv(w, p)
      BY MXTypes
    <2> QED BY <1>6, <2>2, <2>3, <2>4, <2>5 DEF MXRootInv, MX!InitOrdered, rootval
  <1> QED BY <1>7, <1>8, <1>9, <1>10, MXOthers DEF MXLocal

\* All have pushed, one of them something else than zeros: the root.
LEMMA MXInitDoneStep ==
  ASSUME MXInv, NEW w \in Worker, NEW p \in Weights, MX!init_done(w, p)
  PROVE  MXInv'
  <1> DEFINE n == MX!ParameterOf(p)
  <1>1. /\ MXTypeOK /\ n \in live[w] /\ n \in MXName
        /\ live' = [live EXCEPT ![w] = live[w] \ {n}]
        /\ \A v \in Worker : Len(pushed[v][n]) >= Len(pushed[w][n])
        /\ UNCHANGED <<api, compression_params, optimizer_params, intra_compressor, stage, step, grad, weight, pushed>>
    BY MXNames DEF MXInv, MX!init_done, MX!synchronize, MX!Done, MX!choice
  <1>2. \A v \in Worker : Len(pushed[v][n]) = 1 /\ pushed[v][n][1] = IF v = Root THEN Root ELSE MX!Zero
    <2>1. Len(pushed[w][n]) = 1
      BY <1>1, MXTypes DEF MXRootInv, Broadcast
    <2> QED BY <1>1, <2>1, MXTypes DEF MXRootInv, Broadcast
  <1>3. MX!Output(w, n) = {pushed[v][n][1] : v \in Worker}
    BY <1>2 DEF MX!Output
  <1>4. \A d \in MX!Output(w, n) : d # MX!Zero <=> d = Root
    BY <1>2, <1>3, RootAssumption DEF MX!Zero
  <1>5. Root \in MX!Output(w, n)
    BY <1>2, <1>3, RootAssumption
  <1>6. (CHOOSE d \in MX!Output(w, n) : d # MX!Zero) = Root
    BY <1>4, <1>5
  <1>7. data' = [data EXCEPT ![w][p] = Root]
    BY <1>6 DEF MX!init_done
  <1>8. /\ data' \in [Worker -> [Weights -> Worker]] /\ data'[w][p] = Root
        /\ \A q \in Weights : q # p => data'[w][q] = data[w][q]
        /\ \A v \in Worker : v # w => data'[v] = data[v]
    <2>1. data \in [Worker -> [Weights -> Worker]]
      BY <1>1 DEF MXTypeOK
    <2> QED BY <1>7, <2>1, RootAssumption, ExceptType
  <1>9. MXTypeOK' /\ \A v \in Worker : v # w => live'[v] = live[v]
    BY <1>1, <1>8 DEF MXTypeOK
  <1>10. MXStepInv(w)'
    BY <1>1 DEF MXInv, MXLocal, MXStepInv
  <1>11. ASSUME NEW q \in Weights PROVE MXGradInv(w, q)' /\ MXRootInv(w, q)'
    <2>1. MXGradInv(w, q)'
      BY <1>1, MXTypes, MXGradFrame DEF Pushes
    <2>2. CASE q = p
      <3>1. MX!ParameterOf(p) \notin live'[w]
        BY <1>1 DEF MXTypeOK
      <3> QED BY <1>1, <1>8, <2>1, <2>2, <3>1, MXTypes DEF MXRootInv, MX!InitOrdered, Broadcast
    <2>3. CASE q # p
      <3>1. MX!ParameterOf(q) \in live'[w] <=> MX!ParameterOf(q) \in live[w]
        BY <1>1, <2>3, MXNames DEF MXTypeOK
      <3> QED BY <1>1, <1>8, <2>1, <2>3, <3>1, MXTypes, MXRootFrame DEF Broadcast
    <2> QED BY <2>2, <2>3
  <1> QED BY <1>1, <1>8, <1>9, <1>10, <1>11, MXOthers DEF MXLocal

LEMMA MXMomentum ==
  ASSUME NEW p
  PROVE  MX!CoreMomentum(p) \in Seq({"momentum", "wd"}) /\ Adapted(p) \in Seq({"momentum", "wd"})
  <1> DEFINE S == {"momentum", "wd"}
  <1>1. << >> \in Seq(S) /\ <<"momentum">> \in Seq(S) /\ <<"wd">> \in Seq(S)
    OBVIOUS
  <1> HIDE DEF S
  <1>2. MX!CoreMomentum(p) \in Seq(S) /\ MX!nag_decompress(p) \in Seq(S) /\ MX!wdmom_decompress(p) \in Seq(S)
    BY <1>1 DEF MX!CoreMomentum, MX!nag_decompress, MX!wdmom_decompress
  <1>3. Adapted(p) \in Seq(S)
    BY <1>2 DEF Adapted
  <1> QED BY <1>2, <1>3 DEF S

\* The push_pull of a gradient, of gluon and of a Module.
LEMMA MXPushStep ==
  ASSUME MXInv, NEW w \in Worker, NEW p \in Weights,
         MX!At(w, p, "allreduce", "grad_wait"),
         MX!push_pull_async(w, MX!GradientOf(p),
                            [from |-> grad[w][p].from, by |-> MX!CoreMomentum(p)]),
         UNCHANGED <<api, compression_params, optimizer_params, intra_compressor, step, grad, data, weight>>
  PROVE  MXInv'
  <1> DEFINE n == MX!GradientOf(p)
             e == [from |-> grad[w][p].from, by |-> MX!CoreMomentum(p)]
             s == Pushes(w, p)
  <1>1. /\ MXTypeOK /\ stage \in [Worker -> [Weights -> MXStage]]
        /\ pushed \in [Worker -> [MXName -> Seq(MXValue)]] /\ live \in [Worker -> SUBSET MXName]
    BY DEF MXInv, MXTypeOK
  <1>2. /\ stage[w][p] = "allreduce" /\ stage' = [stage EXCEPT ![w][p] = "grad_wait"]
        /\ pushed' = [pushed EXCEPT ![w][n] = Append(s, e)]
        /\ live' = [live EXCEPT ![w] = live[w] \cup {n}]
    BY DEF MX!At, MX!push_pull_async, Pushes
  <1>3. grad[w][p] = [from |-> {<<w, Len(weight[w][p]) + 1>>}, by |-> << >>]
    BY <1>2, MXTypes DEF MXGradInv
  <1>4. e = [from |-> {<<w, Len(weight[w][p]) + 1>>}, by |-> MX!CoreMomentum(p)]
    BY <1>3
  <1>5. e \in MXValue
    <2>1. <<w, Len(weight[w][p]) + 1>> \in Worker \X Nat
      BY MXTypes
    <2>2. e \in MXUpdate
      BY <1>4, <2>1, MXMomentum DEF MXUpdate
    <2> QED BY <2>2 DEF MXValue
  <1> HIDE DEF e, s
  <1>6. /\ s \in Seq(MXValue) /\ Append(s, e) \in Seq(MXValue) /\ Len(Append(s, e)) = Len(s) + 1 /\ Len(s) \in Nat
        /\ Append(s, e)[Len(s) + 1] = e /\ \A i \in 1..Len(s) : Append(s, e)[i] = s[i]
        /\ \A i \in 1..(Len(s) + 1) : i \in 1..Len(s) \/ i = Len(s) + 1
    <2>1. s \in Seq(MXValue)
      BY MXTypes DEF s
    <2> QED BY <1>5, <2>1, AppendFacts
  <1>7. /\ stage' \in [Worker -> [Weights -> MXStage]] /\ stage'[w][p] = "grad_wait"
        /\ \A q \in Weights : q # p => stage'[w][q] = stage[w][q]
        /\ \A v \in Worker : v # w => stage'[v] = stage[v]
    <2>1. "grad_wait" \in MXStage
      BY DEF MXStage
    <2> QED BY <1>1, <1>2, <2>1, ExceptType
  <1>8. /\ pushed' \in [Worker -> [MXName -> Seq(MXValue)]] /\ pushed'[w][n] = Append(s, e)
        /\ \A m \in MXName : m # n => pushed'[w][m] = pushed[w][m]
        /\ \A v \in Worker : v # w => pushed'[v] = pushed[v]
    <2> DEFINE c == Append(s, e)
    <2>1. c \in Seq(MXValue) /\ pushed' = [pushed EXCEPT ![w][n] = c] /\ n \in MXName
      BY <1>2, <1>6, MXNames
    <2> HIDE DEF c, n
    <2>2. /\ pushed' \in [Worker -> [MXName -> Seq(MXValue)]] /\ pushed'[w][n] = c
          /\ \A m \in MXName : m # n => pushed'[w][m] = pushed[w][m]
          /\ \A v \in Worker : v # w => pushed'[v] = pushed[v]
      BY <1>1, <2>1, ExceptType
    <2> QED BY <2>2 DEF c
  <1>9. /\ live' \in [Worker -> SUBSET MXName] /\ live'[w] = live[w] \cup {n}
        /\ \A v \in Worker : v # w => live'[v] = live[v]
    BY <1>1, <1>2, MXNames
  <1>10. MXTypeOK'
    BY <1>1, <1>7, <1>8, <1>9 DEF MXTypeOK
  <1>11. MXStepInv(w)'
    <2>1. \A q \in Weights : stage'[w][q] \in {"ready", "finished"} <=> stage[w][q] \in {"ready", "finished"}
      BY <1>2, <1>7
    <2>2. (\E q \in Weights : stage'[w][q] # "ready") /\ (\E q \in Weights : stage[w][q] # "ready")
      BY <1>2, <1>7
    <2> QED BY <2>1, <2>2 DEF MXInv, MXLocal, MXStepInv
  <1>12. ASSUME NEW q \in Weights PROVE MXGradInv(w, q)' /\ MXRootInv(w, q)'
    <2>1. MXRootInv(w, q)'
      <3>1. MX!ParameterOf(q) \in live'[w] <=> MX!ParameterOf(q) \in live[w]
        BY <1>9, MXNames
      <3>2. Broadcast(w, q)' = Broadcast(w, q)
        BY <1>8, MXNames DEF Broadcast
      <3> QED BY <3>1, <3>2, MXTypes, MXRootFrame
    <2>2. CASE q # p
      <3>1. Pushes(w, q)' = Pushes(w, q)
        BY <1>8, <2>2, MXNames DEF Pushes
      <3> QED BY <1>7, <2>1, <2>2, <3>1, MXTypes, MXGradFrame
    <2>3. CASE q = p
      <3>1. Pushes(w, p)' = Append(s, e) /\ weight' = weight /\ MX!CoreMomentum(p)' = MX!CoreMomentum(p)
        BY <1>8 DEF Pushes, MX!CoreMomentum, MX!CoreCompresses
      <3>2. /\ Len(s) = Len(weight[w][p]) + 0 /\ Len(weight[w][p]) \in Nat
            /\ \A i \in 1..Len(s) : s[i] = [from |-> {<<w, i>>}, by |-> MX!CoreMomentum(p)]
            /\ \A k \in 1..Len(weight[w][p]) :
                  weight[w][p][k] \in Applied(k)
        BY <1>2, MXTypes DEF MXGradInv, s
      <3>3. Len(s) + 1 = Len(weight[w][p]) + 1 /\ e = [from |-> {<<w, Len(s) + 1>>}, by |-> MX!CoreMomentum(p)]
        BY <1>4, <3>2
      <3>4. \A i \in 1..(Len(s) + 1) : Append(s, e)[i] = [from |-> {<<w, i>>}, by |-> MX!CoreMomentum(p)]
        BY <1>6, <3>2, <3>3
      <3>5. MXGradInv(w, p)'
        <4>1. stage'[w][p] = "grad_wait" /\ Len(Pushes(w, p)') = Len(weight'[w][p]) + 1
          BY <1>6, <1>7, <3>1, <3>3
        <4>2. \A i \in 1..Len(Pushes(w, p)') :
                 Pushes(w, p)'[i] = [from |-> {<<w, i>>}, by |-> MX!CoreMomentum(p)']
          BY <1>6, <3>1, <3>4
        <4>3. \A k \in 1..Len(weight'[w][p]) :
                 weight'[w][p][k] \in Applied(k)
          BY <3>1, <3>2
        <4> QED BY <4>1, <4>2, <4>3 DEF MXGradInv
      <3> QED BY <2>1, <2>3, <3>5
    <2> QED BY <2>2, <2>3
  <1> QED BY <1>7, <1>8, <1>9, <1>10, <1>11, <1>12, MXOthers DEF MXLocal

\* A worker goes on with a gradient when all have pushed theirs: those of its step.
LEMMA MXDecompressStep ==
  ASSUME MXInv, NEW w \in Worker, NEW p \in Weights, MX!decompress(w, p)
  PROVE  MXInv'
  <1> DEFINE n == MX!GradientOf(p)
             k == Len(weight[w][p]) + 1
             sum == MX!Output(w, n)
             g == [from |-> {<<v, k>> : v \in Worker}, by |-> Adapted(p)]
  <1>1. /\ MXTypeOK /\ stage[w][p] = "grad_wait" /\ stage' = [stage EXCEPT ![w][p] = "update"]
        /\ stage \in [Worker -> [Weights -> MXStage]] /\ grad \in [Worker -> [Weights -> MXUpdate]]
        /\ live \in [Worker -> SUBSET MXName]
        /\ live' = [live EXCEPT ![w] = live[w] \ {n}]
        /\ \A v \in Worker : Len(pushed[v][n]) >= Len(pushed[w][n])
        /\ UNCHANGED <<api, compression_params, optimizer_params, intra_compressor, step, data, weight, pushed>>
    BY DEF MXInv, MXTypeOK, MX!decompress, MX!At, MX!synchronize, MX!Done, MX!choice
  <1>2. k \in Nat \ {0} /\ Len(pushed[w][n]) = k
    <2>1. MXGradInv(w, p) /\ Len(weight[w][p]) \in Nat
      BY MXTypes
    <2>2. Len(Pushes(w, p)) = Len(weight[w][p]) + 1
      BY <1>1, <2>1 DEF MXGradInv
    <2> QED BY <2>1, <2>2 DEF Pushes
  <1>3. ASSUME NEW v \in Worker PROVE pushed[v][n][k] = [from |-> {<<v, k>>}, by |-> MX!CoreMomentum(p)]
    <2>1. Len(pushed[v][n]) \in Nat /\ \A i \in 1..Len(pushed[v][n]) :
             pushed[v][n][i] = [from |-> {<<v, i>>}, by |-> MX!CoreMomentum(p)]
      BY MXTypes DEF MXGradInv, Pushes
    <2>2. k \in 1..Len(pushed[v][n])
      BY <1>1, <1>2, <2>1
    <2> QED BY <2>1, <2>2
  <1>4. sum = {pushed[v][n][k] : v \in Worker}
    BY <1>1, <1>2 DEF MX!Output
  <1> HIDE DEF k, n
  <1>5. sum = {[from |-> {<<v, k>>}, by |-> MX!CoreMomentum(p)] : v \in Worker}
    BY <1>3, <1>4
  <1>6. /\ UNION {h.from : h \in sum} = {<<v, k>> : v \in Worker}
        /\ (CHOOSE h \in sum : TRUE).by = MX!CoreMomentum(p)
    <2>1. \A h \in sum : h.by = MX!CoreMomentum(p) /\ \E v \in Worker : h.from = {<<v, k>>}
      BY <1>5
    <2>2. ASSUME NEW v \in Worker PROVE \E h \in sum : h.from = {<<v, k>>}
      <3> DEFINE h == [from |-> {<<v, k>>}, by |-> MX!CoreMomentum(p)]
      <3>1. h \in sum /\ h.from = {<<v, k>>}
        BY <1>5
      <3> QED BY <3>1
    <2> HIDE DEF sum
    <2>3. (CHOOSE h \in sum : TRUE) \in sum
      BY <2>2
    <2>4. \A x : x \in UNION {h.from : h \in sum} <=> x \in {<<v, k>> : v \in Worker}
      BY <2>1, <2>2
    <2> QED BY <2>1, <2>3, <2>4
  <1>7. grad' = [grad EXCEPT ![w][p] = g]
    BY <1>6 DEF MX!decompress, Adapted, n
  <1>8. g \in MXUpdate
    <2>1. {<<v, k>> : v \in Worker} \in SUBSET (Worker \X Nat)
      BY <1>2
    <2> QED BY <2>1, MXMomentum DEF MXUpdate
  <1> HIDE DEF g
  <1>9. /\ grad' \in [Worker -> [Weights -> MXUpdate]] /\ grad'[w][p] = g
        /\ \A q \in Weights : q # p => grad'[w][q] = grad[w][q]
        /\ \A v \in Worker : v # w => grad'[v] = grad[v]
    BY <1>1, <1>7, <1>8, ExceptType
  <1>10. /\ stage' \in [Worker -> [Weights -> MXStage]] /\ stage'[w][p] = "update"
         /\ \A q \in Weights : q # p => stage'[w][q] = stage[w][q]
         /\ \A v \in Worker : v # w => stage'[v] = stage[v]
    <2>1. "update" \in MXStage
      BY DEF MXStage
    <2> QED BY <1>1, <2>1, ExceptType
  <1>11. /\ live' \in [Worker -> SUBSET MXName] /\ live'[w] = live[w] \ {n}
         /\ \A v \in Worker : v # w => live'[v] = live[v]
    BY <1>1
  <1>12. MXTypeOK'
    BY <1>1, <1>9, <1>10, <1>11 DEF MXTypeOK
  <1>13. MXStepInv(w)'
    <2>1. \A q \in Weights : stage'[w][q] \in {"ready", "finished"} <=> stage[w][q] \in {"ready", "finished"}
      BY <1>1, <1>10
    <2>2. (\E q \in Weights : stage'[w][q] # "ready") /\ (\E q \in Weights : stage[w][q] # "ready")
      BY <1>1, <1>10
    <2> QED BY <1>1, <2>1, <2>2 DEF MXInv, MXLocal, MXStepInv
  <1>14. ASSUME NEW q \in Weights PROVE MXGradInv(w, q)' /\ MXRootInv(w, q)'
    <2>1. MXRootInv(w, q)'
      <3>1. MX!ParameterOf(q) \in live'[w] <=> MX!ParameterOf(q) \in live[w]
        BY <1>11, MXNames DEF n
      <3> QED BY <1>1, <3>1, MXTypes, MXRootFrame DEF Broadcast
    <2>2. CASE q # p
      BY <1>1, <1>9, <1>10, <2>1, <2>2, MXTypes, MXGradFrame DEF Pushes
    <2>3. CASE q = p
      <3>1. /\ Pushes(w, p)' = Pushes(w, p) /\ weight' = weight /\ MX!CoreMomentum(p)' = MX!CoreMomentum(p)
            /\ Adapted(p)' = Adapted(p)
        BY <1>1 DEF Pushes, Adapted, MX!CoreMomentum, MX!CoreCompresses, MX!nag_decompress, MX!wdmom_decompress
      <3>2. grad'[w][p] = [from |-> {<<v, Len(weight[w][p]) + 1>> : v \in Worker}, by |-> Adapted(p)]
        BY <1>9 DEF g, k
      <3>3. MXGradInv(w, p)'
        <4>1. /\ Len(Pushes(w, p)) = Len(weight[w][p]) + 1
              /\ \A i \in 1..Len(Pushes(w, p)) :
                    Pushes(w, p)[i] = [from |-> {<<w, i>>}, by |-> MX!CoreMomentum(p)]
              /\ \A i \in 1..Len(weight[w][p]) :
                    weight[w][p][i] \in Applied(i)
          BY <1>1, MXTypes DEF MXGradInv
        <4> QED BY <1>10, <3>1, <3>2, <4>1 DEF MXGradInv
      <3> QED BY <2>1, <2>3, <3>3
    <2> QED BY <2>2, <2>3
  <1> QED BY <1>1, <1>9, <1>10, <1>11, <1>12, <1>13, <1>14, MXOthers DEF MXLocal

LEMMA ByReplaced ==
  ASSUME NEW F, NEW b, NEW c, NEW g, g = [from |-> F, by |-> b]
  PROVE  [g EXCEPT !.by = c] = [from |-> F, by |-> c] /\ g.by = b /\ g.from = F
  OBVIOUS

LEMMA MXUpdateStep ==
  ASSUME MXInv, NEW w \in Worker, NEW p \in Weights, MX!update(w, p)
  PROVE  MXInv'
  <1> DEFINE to == IF step[w] < Steps THEN "ready" ELSE "finished"
             k == Len(weight[w][p]) + 1
             s == weight[w][p]
             all == Adapted(p) \o MX!Own(optimizer_params)
             e == [from |-> {<<v, k>> : v \in Worker}, by |-> all]
             last == step[w] < Steps /\ \A q \in Weights \ {p} : stage[w][q] = "ready"
  <1>1. /\ MXTypeOK /\ MXChoice /\ stage[w][p] = "update" /\ stage' = [stage EXCEPT ![w][p] = to]
        /\ stage \in [Worker -> [Weights -> MXStage]] /\ weight \in [Worker -> [Weights -> Seq(MXUpdate)]]
        /\ step \in [Worker -> Nat \ {0}]
        /\ step' = [step EXCEPT ![w] = IF last THEN step[w] + 1 ELSE step[w]]
        /\ MX!InitOrdered(w, p)
        /\ UNCHANGED <<api, compression_params, optimizer_params, intra_compressor, grad, data, pushed, live>>
    BY DEF MXInv, MXTypeOK, MX!update, MX!At, MX!choice, MX!core, Weights
  <1>2. [grad[w][p] EXCEPT !.by = grad[w][p].by \o MX!Own(optimizer_params)] = e
    <2>1. grad[w][p] = [from |-> {<<v, k>> : v \in Worker}, by |-> Adapted(p)]
      BY <1>1, MXTypes DEF MXGradInv
    <2> DEFINE F == {<<v, k>> : v \in Worker}
               b == Adapted(p)
    <2>3. grad[w][p] = [from |-> F, by |-> b] /\ b \o MX!Own(optimizer_params) = all
      BY <2>1
    <2> HIDE DEF F, b, all
    <2>4. [grad[w][p] EXCEPT !.by = grad[w][p].by \o MX!Own(optimizer_params)]
            = [from |-> F, by |-> all]
      <3> DEFINE g == grad[w][p]
                 c == g.by \o MX!Own(optimizer_params)
      <3> HIDE DEF g, c
      <3>1. g = [from |-> F, by |-> b] /\ g.by = b
        BY <2>3, ByReplaced DEF g
      <3>2. c = all
        BY <2>3, <3>1 DEF c
      <3>3. [g EXCEPT !.by = c] = [from |-> F, by |-> c]
        BY <3>1, ByReplaced
      <3> QED BY <3>2, <3>3 DEF g, c
    <2> QED BY <2>4 DEF F
  <1>3. weight' = [weight EXCEPT ![w][p] = Append(s, e)]
    BY <1>2 DEF MX!update
  <1>4. e \in MXUpdate /\ e \in Applied(k)
    <2>1. k \in Nat
      BY MXTypes
    <2>2. {<<v, k>> : v \in Worker} \in SUBSET (Worker \X Nat)
      BY <2>1
    <2>3. all \in Orders
      BY <1>1, EachOnce
    <2>4. all \in Seq({"momentum", "wd"})
      <3> HIDE DEF all
      <3> QED BY <2>3 DEF Orders
    <2> HIDE DEF all
    <2> QED BY <2>2, <2>3, <2>4 DEF MXUpdate, Applied
  <1>5. s \in Seq(MXUpdate) /\ Len(s) \in Nat /\ step[w] \in Nat \ {0}
    BY MXTypes
  <1> HIDE DEF e, to, last
  <1>6. /\ Append(s, e) \in Seq(MXUpdate) /\ Len(Append(s, e)) = Len(s) + 1
        /\ Append(s, e)[Len(s) + 1] = e /\ \A i \in 1..Len(s) : Append(s, e)[i] = s[i]
        /\ \A i \in 1..(Len(s) + 1) : i \in 1..Len(s) \/ i = Len(s) + 1
    <2> HIDE DEF s
    <2> QED BY <1>4, <1>5, AppendFacts
  <1>7. /\ weight' \in [Worker -> [Weights -> Seq(MXUpdate)]] /\ weight'[w][p] = Append(s, e)
        /\ \A q \in Weights : q # p => weight'[w][q] = weight[w][q]
        /\ \A v \in Worker : v # w => weight'[v] = weight[v]
    <2> DEFINE c == Append(s, e)
    <2>1. c \in Seq(MXUpdate) /\ weight' = [weight EXCEPT ![w][p] = c]
      BY <1>3, <1>6
    <2> HIDE DEF c
    <2>2. /\ weight' \in [Worker -> [Weights -> Seq(MXUpdate)]] /\ weight'[w][p] = c
          /\ \A q \in Weights : q # p => weight'[w][q] = weight[w][q]
          /\ \A v \in Worker : v # w => weight'[v] = weight[v]
      BY <1>1, <2>1, ExceptType
    <2> QED BY <2>2 DEF c
  <1>8. /\ stage' \in [Worker -> [Weights -> MXStage]] /\ stage'[w][p] = to
        /\ to \in {"ready", "finished"} /\ (to = "ready" <=> step[w] < Steps)
        /\ \A q \in Weights : q # p => stage'[w][q] = stage[w][q]
        /\ \A v \in Worker : v # w => stage'[v] = stage[v]
    <2>1. to \in MXStage /\ to \in {"ready", "finished"} /\ (to = "ready" <=> step[w] < Steps)
      BY DEF MXStage, to
    <2> QED BY <1>1, <2>1, ExceptType
  <1>9. /\ step' \in [Worker -> Nat \ {0}] /\ step'[w] = IF last THEN step[w] + 1 ELSE step[w]
        /\ \A v \in Worker : v # w => step'[v] = step[v]
    <2> DEFINE c == IF last THEN step[w] + 1 ELSE step[w]
    <2>1. c \in Nat \ {0} /\ step' = [step EXCEPT ![w] = c]
      BY <1>1, <1>5
    <2> HIDE DEF c
    <2>2. step' \in [Worker -> Nat \ {0}] /\ step'[w] = c /\ \A v \in Worker : v # w => step'[v] = step[v]
      BY <1>1, <2>1
    <2> QED BY <2>2 DEF c
  <1>10. MXTypeOK'
    BY <1>1, <1>7, <1>8, <1>9 DEF MXTypeOK
  <1>11. MXStepInv(w)'
    <2>1. MXStepInv(w)
      BY DEF MXInv, MXLocal
    <2>2. \E q \in Weights : stage[w][q] # "ready"
      BY <1>1
    <2>3. (\E q \in Weights : stage'[w][q] # "ready") <=> ~last
      BY <1>8 DEF last
    <2>4. Len(weight[w][p]) = step[w] - 1
      BY <1>1, <2>1 DEF MXStepInv
    <2>5. ASSUME NEW q \in Weights
          PROVE  Len(weight'[w][q]) =
                    IF stage'[w][q] \in {"ready", "finished"} /\ ~last THEN step'[w] ELSE step'[w] - 1
      <3>1. CASE q = p
        BY <1>5, <1>6, <1>7, <1>8, <1>9, <2>4, <3>1
      <3>2. CASE q # p
        <4>1. Len(weight'[w][q]) = IF stage[w][q] \in {"ready", "finished"} THEN step[w] ELSE step[w] - 1
          BY <1>7, <2>1, <2>2, <3>2 DEF MXStepInv
        <4>2. stage'[w][q] = stage[w][q]
          BY <1>8, <3>2
        <4>3. last => stage[w][q] = "ready"
          BY <3>2 DEF last
        <4> QED BY <1>5, <1>9, <4>1, <4>2, <4>3
      <3> QED BY <3>1, <3>2
    <2> QED BY <2>3, <2>5 DEF MXStepInv
  <1>12. ASSUME NEW q \in Weights PROVE MXGradInv(w, q)' /\ MXRootInv(w, q)'
    <2>1. CASE q # p
      BY <1>1, <1>7, <1>8, <2>1, MXTypes, MXGradFrame, MXRootFrame DEF Pushes, Broadcast
    <2>2. CASE q = p
      <3>1. MXRootInv(w, p)'
        <4>1. MXRootInv(w, p) /\ data[w][p] = Root
          BY <1>1, MXTypes DEF MXRootInv
        <4> QED BY <1>1, <4>1 DEF MXRootInv, MX!InitOrdered, Broadcast
      <3>2. Pushes(w, p)' = Pushes(w, p) /\ MX!CoreMomentum(p)' = MX!CoreMomentum(p)
        BY <1>1 DEF Pushes, MX!CoreMomentum, MX!CoreCompresses
      <3>3. /\ Len(Pushes(w, p)) = Len(s) + 1
            /\ \A i \in 1..Len(Pushes(w, p)) :
                  Pushes(w, p)[i] = [from |-> {<<w, i>>}, by |-> MX!CoreMomentum(p)]
            /\ \A i \in 1..Len(s) :
                  s[i] \in Applied(i)
        BY <1>1, MXTypes DEF MXGradInv
      <3>4. \A i \in 1..(Len(s) + 1) :
               weight'[w][p][i] \in Applied(i)
        <4>1. weight'[w][p][Len(s) + 1] \in Applied(Len(s) + 1)
          BY <1>4, <1>6, <1>7
        <4>2. \A i \in 1..Len(s) : weight'[w][p][i] = s[i]
          BY <1>6, <1>7
        <4>3. ASSUME NEW i \in 1..(Len(s) + 1)
              PROVE  weight'[w][p][i] \in Applied(i)
          <5>1. i \in 1..Len(s) \/ i = Len(s) + 1
            BY <1>6
          <5>2. CASE i \in 1..Len(s)
            <6>1. weight'[w][p][i] = s[i]
              BY <4>2, <5>2
            <6>2. s[i] \in Applied(i)
              BY <3>3, <5>2
            <6> HIDE DEF s
            <6> QED BY <6>1, <6>2
          <5>3. CASE i = Len(s) + 1
            BY <4>1, <5>3
          <5> QED BY <5>1, <5>2, <5>3
        <4> QED BY <4>3
      <3>5. MXGradInv(w, p)'
        <4>1. Len(weight'[w][p]) = Len(s) + 1 /\ stage'[w][p] \in {"ready", "finished"} /\ Len(s) + 1 \in Nat
          BY <1>5, <1>6, <1>7, <1>8
        <4> HIDE DEF s
        <4> QED BY <3>2, <3>3, <3>4, <4>1 DEF MXGradInv
      <3> QED BY <2>2, <3>1, <3>5
    <2> QED BY <2>1, <2>2
  <1> QED BY <1>1, <1>7, <1>8, <1>9, <1>10, <1>11, <1>12, MXOthers DEF MXLocal

LEMMA MXInductive ==
  ASSUME MXInv, NEW w \in Worker, MX!MXWorker(w)
  PROVE  MXInv'
  <1>1. CASE MX!backward(w)
    BY <1>1, MXBackwardStep
  <1>2. CASE MX!_init_params(w) \/ MX!broadcast_parameters(w)
    <2>1. /\ \A p \in Weights : Broadcast(w, p) = << >>
          /\ MX!push_pull_all(w, {MX!ParameterOf(p) : p \in Weights}, MX!RootOrZero(w))
          /\ UNCHANGED <<api, compression_params, optimizer_params, intra_compressor, stage, step, grad, data, weight>>
      BY <1>2 DEF MX!_init_params, MX!broadcast_parameters, MX!choice, Weights, Broadcast
    <2> QED BY <2>1, MXBroadcastStep
  <1>3. ASSUME NEW p \in Weights, MX!_allreduce_grads(w, p) \/ MX!_do_push_pull(w, p) PROVE MXInv'
    <2> DEFINE g == grad[w][p]
               e == [from |-> g.from, by |-> MX!CoreMomentum(p)]
    <2>1. /\ MX!At(w, p, "allreduce", "grad_wait")
          /\ UNCHANGED <<api, compression_params, optimizer_params, intra_compressor, step, grad, data, weight>>
      BY <1>3 DEF MX!_allreduce_grads, MX!_do_push_pull, MX!choice
    <2>2. g = [from |-> g.from, by |-> << >>]
      <3>1. stage[w][p] = "allreduce"
        BY <2>1 DEF MX!At
      <3>2. g = [from |-> {<<w, Len(weight[w][p]) + 1>>}, by |-> << >>]
        BY <3>1, MXTypes DEF MXGradInv
      <3> HIDE DEF g
      <3> QED BY <3>2
    <2>3. CASE MX!_allreduce_grads(w, p)
      <3>1. MX!push_pull_async(w, MX!GradientOf(p), [g EXCEPT !.by = g.by \o MX!CoreMomentum(p)])
        BY <2>3 DEF MX!_allreduce_grads
      <3>2. << >> \o MX!CoreMomentum(p) = MX!CoreMomentum(p)
        BY MXMomentum, ConcatEmptySeq
      <3>3. [g EXCEPT !.by = g.by \o MX!CoreMomentum(p)] = e
        <4> DEFINE F == g.from
                   c == MX!CoreMomentum(p)
        <4> HIDE DEF F, c, g
        <4>1. g = [from |-> F, by |-> << >>]
          BY <2>2 DEF F
        <4>2. [g EXCEPT !.by = g.by \o c] = [from |-> F, by |-> c]
          BY <3>2, <4>1 DEF c
        <4> QED BY <4>2 DEF F, c
      <3> QED BY <2>1, <3>1, <3>3, MXPushStep
    <2>4. CASE MX!_do_push_pull(w, p)
      <3>1. MX!push_pull_async(w, MX!GradientOf(p), g) /\ api = "module"
        BY <2>4 DEF MX!_do_push_pull
      <3>2. MX!CoreMomentum(p) = << >>
        BY <3>1 DEF MXInv, MXChoice, MX!CoreMomentum, MX!CoreCompresses
      <3>3. g = e
        BY <2>2, <3>2
      <3> QED BY <2>1, <3>1, <3>3, MXPushStep
    <2> QED BY <1>3, <2>3, <2>4
  <1>4. ASSUME NEW p \in Weights, MX!init_done(w, p) \/ MX!decompress(w, p) \/ MX!update(w, p) PROVE MXInv'
    BY <1>4, MXInitDoneStep, MXDecompressStep, MXUpdateStep
  <1> QED BY <1>1, <1>2, <1>3, <1>4 DEF MX!MXWorker, Weights

LEMMA MXStutter == MXInv /\ UNCHANGED vars => MXInv'
  <1> SUFFICES ASSUME MXInv, UNCHANGED vars PROVE MXInv'
    OBVIOUS
  <1>1. UNCHANGED <<api, compression_params, optimizer_params, intra_compressor,
                    stage, step, grad, data, weight, pushed, live>>
    BY DEF vars, shared, mxonly, core
  <1>2. MXTypeOK' /\ MXChoice'
    BY <1>1 DEF MXInv, MXTypeOK, MXChoice
  <1>3. ASSUME NEW w \in Worker PROVE MXLocal(w)'
    <2>1. MXStepInv(w)'
      BY <1>1 DEF MXInv, MXLocal, MXStepInv
    <2>2. ASSUME NEW p \in Weights PROVE MXGradInv(w, p)' /\ MXRootInv(w, p)'
      BY <1>1, MXTypes, MXGradFrame, MXRootFrame DEF Pushes, Broadcast
    <2> QED BY <2>1, <2>2 DEF MXLocal
  <1> QED BY <1>2, <1>3 DEF MXInv

MXJob == plugin = "mxnet" => MXInv

LEMMA MXJobInductive == MXJob /\ [Next]_vars => MXJob'
  <1> SUFFICES ASSUME MXJob, [Next]_vars, plugin' = "mxnet" PROVE MXInv'
    BY DEF MXJob
  <1>1. ASSUME Next, plugin = "mxnet" PROVE \E w \in Worker : MX!MXWorker(w)
    BY <1>1 DEF Next, Runs, TorchRuns, DDPRuns, HalfRuns, MXRuns, TFRuns, CBMain, CBPoller, CBCore,
                MSMain, MSReplica
  <1>2. CASE Next
    BY <1>1, <1>2, PluginStays, MXInductive DEF MXJob
  <1>3. CASE UNCHANGED vars
    BY <1>3, PluginStays, MXStutter DEF MXJob
  <1> QED BY <1>2, <1>3

\* mxnet/__init__.py, for all numbers of workers, parameters and steps, all sizes
\* and every choice of compressor: each update holds the gradients of all workers
\* of its step, and momentum and weight decay once each.
THEOREM MXNetUpdatesOnce == Spec => []UpdatedOnceWithEverything
  <1>1. Init => MXJob
    BY MXInitial DEF Init, MXJob
  <1>2. MXJob => UpdatedOnceWithEverything
    <2> SUFFICES ASSUME MXInv, NEW w \in Worker, NEW p \in Weights, NEW k \in 1..Len(weight[w][p])
                 PROVE  /\ weight[w][p][k].from = {<<v, k>> : v \in Worker}
                        /\ weight[w][p][k].by \in {<<"momentum", "wd">>, <<"wd", "momentum">>}
      BY DEF MXJob, UpdatedOnceWithEverything, MX!UpdatedOnceWithEverything, Weights
    <2>1. weight[w][p][k] \in Applied(k)
      BY MXTypes DEF MXGradInv
    <2> QED BY <2>1 DEF Applied, Orders
  <1> QED BY <1>1, <1>2, MXJobInductive, PTL DEF Spec

-----------------------------------------------------------------------------
(* Broadcasts: those of the half-precision optimizer, MXNet and DDP.        *)

\* Every worker has a sequence of its operations under a name.
Started(t) ==
    /\ DOMAIN pushed = Worker
    /\ \A v \in Worker : t \in DOMAIN pushed[v] /\ \E S : pushed[v][t] \in Seq(S)

Broadcasts == {"Parameters", "State"}

\* A worker broadcasts its parameters, then the optimizer's state, each once
\* before it trains; whatever it pushes later comes after them.
HalfRootInv(w, t) ==
    /\ w = Root => origin[w][t] = Root
    /\ Len(pushed[w][t]) > 0 => pushed[w][t][1] = IF w = Root THEN Root ELSE "zero"
    /\ pc[w] = "broadcast" =>
        /\ idx[w] \in {1, 2} /\ Len(pushed[w][t]) \in {0, 1}
        /\ t = Half!Broadcasts[idx[w]] => (t \in live[w] <=> Len(pushed[w][t]) = 1)
        /\ t = "State" /\ idx[w] = 1 => Len(pushed[w][t]) = 0 /\ t \notin live[w]
        /\ t = "Parameters" /\ idx[w] = 2 => origin[w][t] = Root /\ Len(pushed[w][t]) = 1
    /\ pc[w] # "broadcast" => origin[w][t] = Root /\ Len(pushed[w][t]) > 0

HalfInv ==
    /\ DOMAIN pc = Worker /\ DOMAIN idx = Worker /\ DOMAIN live = Worker
    /\ origin \in [Worker -> [Broadcasts -> Worker \cup {"mixed"}]]
    /\ \A t \in Broadcasts : Started(t) /\ \A w \in Worker : HalfRootInv(w, t)

LEMMA AppendAny ==
  ASSUME NEW S, NEW s \in Seq(S), NEW e
  PROVE  /\ \E T : Append(s, e) \in Seq(T)
         /\ Len(Append(s, e)) = Len(s) + 1 /\ Len(s) \in Nat
         /\ Append(s, e)[Len(s) + 1] = e
         /\ \A i \in 1..Len(s) : Append(s, e)[i] = s[i]
  <1> DEFINE T == S \cup {e}
  <1>1. s \in Seq(T) /\ e \in T
    OBVIOUS
  <1> HIDE DEF T
  <1>2. Append(s, e) \in Seq(T)
    BY <1>1
  <1> QED BY <1>1, <1>2, AppendFacts

\* What one operation does to the sequences of a name.
LEMMA StartedPush ==
  ASSUME NEW t, Started(t), NEW w \in Worker, NEW n, NEW e,
         Pushing(w, n, e)
  PROVE  /\ Started(t)'
         /\ \A v \in Worker : v # w \/ n # t => pushed'[v][t] = pushed[v][t]
         /\ n = t => /\ Len(pushed'[w][t]) = Len(pushed[w][t]) + 1
                     /\ Len(pushed[w][t]) \in Nat
                     /\ pushed'[w][t][Len(pushed[w][t]) + 1] = e
                     /\ \A i \in 1..Len(pushed[w][t]) : pushed'[w][t][i] = pushed[w][t][i]
  <1> USE DEF Pushing
  <1>1. /\ DOMAIN pushed' = Worker /\ \A v \in Worker : DOMAIN pushed'[v] = DOMAIN pushed[v]
        /\ \A v \in Worker : t \in DOMAIN pushed[v]
    BY DEF Started
  <1>2. /\ \A v \in Worker : v # w \/ n # t => pushed'[v][t] = pushed[v][t]
        /\ n = t => pushed'[w][t] = Append(pushed[w][t], e)
    BY <1>1 DEF Started
  <1>3. PICK S : pushed[w][t] \in Seq(S)
    BY DEF Started
  <1>4. \E T : Append(pushed[w][t], e) \in Seq(T)
    BY <1>3, AppendAny
  <1>5. Started(t)'
    BY <1>1, <1>2, <1>4 DEF Started
  <1> QED BY <1>2, <1>3, <1>5, AppendAny

LEMMA StartedStays ==
  ASSUME NEW t, Started(t), pushed' = pushed PROVE Started(t)'
  <1>1. ASSUME NEW v \in Worker PROVE t \in DOMAIN pushed'[v] /\ \E S : pushed'[v][t] \in Seq(S)
    <2>1. t \in DOMAIN pushed[v] /\ \E S : pushed[v][t] \in Seq(S)
      BY DEF Started
    <2>2. PICK S : pushed[v][t] \in Seq(S)
      BY <2>1
    <2>3. pushed'[v][t] \in Seq(S)
      BY <2>2
    <2>4. t \in DOMAIN pushed'[v]
      BY <2>1
    <2> QED BY <2>3, <2>4
  <1>2. DOMAIN pushed' = Worker
    BY DEF Started
  <1> QED BY <1>1, <1>2 DEF Started

LEMMA HalfTrainingStep ==
  ASSUME HalfInv, NEW w \in Worker, pc[w] # "broadcast", UNCHANGED origin,
         DOMAIN pc' = Worker, DOMAIN idx' = Worker, DOMAIN live' = Worker,
         pc'[w] # "broadcast",
         \A v \in Worker : v # w => UNCHANGED <<pc[v], idx[v], live[v]>>,
         UNCHANGED pushed \/ \E n, e : Pushing(w, n, e)
  PROVE  HalfInv'
  <1>1. ASSUME NEW t \in Broadcasts, NEW v \in Worker PROVE Started(t)' /\ HalfRootInv(v, t)'
    <2>1. Started(t) /\ HalfRootInv(v, t) /\ Len(pushed[v][t]) \in Nat
      BY DEF HalfInv, Started
    <2>2. /\ Started(t)' /\ (v # w => pushed'[v][t] = pushed[v][t])
          /\ Len(pushed[v][t]) > 0 =>
                Len(pushed'[v][t]) > 0 /\ pushed'[v][t][1] = pushed[v][t][1]
      <3>1. CASE UNCHANGED pushed
        <4>1. Started(t)'
          BY <2>1, <3>1, StartedStays
        <4>2. pushed'[v][t] = pushed[v][t]
          BY <3>1
        <4> QED BY <4>1, <4>2
      <3>2. CASE \E n, e : Pushing(w, n, e)
        <4>1. PICK n, e : Pushing(w, n, e)
          BY <3>2
        <4>2. Started(t)' /\ (v # w \/ n # t => pushed'[v][t] = pushed[v][t])
          BY <2>1, <4>1, StartedPush
        <4>3. CASE v # w \/ n # t
          BY <4>2, <4>3
        <4>4. CASE v = w /\ n = t
          <5>1. /\ Len(pushed'[w][t]) = Len(pushed[w][t]) + 1
                /\ \A i \in 1..Len(pushed[w][t]) : pushed'[w][t][i] = pushed[w][t][i]
            BY <2>1, <4>1, <4>4, StartedPush
          <5> QED BY <2>1, <4>2, <4>4, <5>1
        <4> QED BY <4>3, <4>4
      <3> QED BY <3>1, <3>2
    <2>3. CASE v = w
      BY <2>1, <2>2, <2>3 DEF HalfRootInv
    <2>4. CASE v # w
      BY <2>1, <2>2, <2>4 DEF HalfRootInv
    <2> QED BY <2>2, <2>3, <2>4
  <1>2. Broadcasts # {} /\ origin' \in [Worker -> [Broadcasts -> Worker \cup {"mixed"}]]
    BY DEF Broadcasts, HalfInv
  <1> QED BY <1>1, <1>2 DEF HalfInv

LEMMA HalfBroadcastStep ==
  ASSUME HalfInv, NEW w \in Worker, Half!broadcast(w) PROVE HalfInv'
  <1> DEFINE t == Half!Broadcasts[idx[w]]
  <1>1. /\ idx[w] \in {1, 2} /\ t \in Broadcasts /\ pc[w] = "broadcast" /\ t \notin live[w]
        /\ UNCHANGED <<origin, pc, idx>>
        /\ live' = [live EXCEPT ![w] = @ \cup {t}]
        /\ pushed' = [pushed EXCEPT ![w][t] = Append(@, Half!Filled(w, t))]
    <2>1. "State" \in Broadcasts /\ pc[w] = "broadcast"
      BY DEF Broadcasts, Half!broadcast
    <2>2. idx[w] \in {1, 2}
      BY <2>1 DEF HalfInv, HalfRootInv
    <2> QED BY <2>1, <2>2 DEF Half!broadcast, Half!push_pull_async, Half!Broadcasts, Broadcasts
  <1>2. ASSUME NEW u \in Broadcasts, NEW v \in Worker PROVE Started(u)' /\ HalfRootInv(v, u)'
    <2>1. Started(u) /\ HalfRootInv(v, u) /\ Len(pushed[v][u]) \in Nat
      BY DEF HalfInv, Started
    <2>2. /\ Started(u)' /\ (v # w \/ u # t => pushed'[v][u] = pushed[v][u])
          /\ u = t /\ v = w => /\ Len(pushed'[v][u]) = Len(pushed[v][u]) + 1
                               /\ pushed'[v][u][Len(pushed[v][u]) + 1] = Half!Filled(w, t)
      <3>1. PICK n, e : n = t /\ e = Half!Filled(w, t)
        OBVIOUS
      <3>2. Pushing(w, n, e)
        BY <1>1, <3>1 DEF Pushing
      <3> HIDE DEF t
      <3>3. /\ Started(u)' /\ (v # w \/ n # u => pushed'[v][u] = pushed[v][u])
            /\ n = u => /\ Len(pushed'[w][u]) = Len(pushed[w][u]) + 1
                        /\ pushed'[w][u][Len(pushed[w][u]) + 1] = e
        BY <2>1, <3>2, StartedPush
      <3> QED BY <3>1, <3>3
    <2>3. /\ v # w => live'[v] = live[v]
          /\ live'[w] = live[w] \cup {t}
      BY <1>1 DEF HalfInv
    <2>4. CASE u = t /\ v = w
      <3>1. Len(pushed[v][u]) = 0
        BY <1>1, <2>1, <2>4 DEF HalfRootInv
      <3>2. Half!Filled(w, t) = IF w = Root THEN Root ELSE "zero"
        BY <2>1, <2>4 DEF Half!Filled, Half!Zero, HalfRootInv
      <3>3. Len(pushed'[w][t]) = 1 /\ pushed'[w][t][1] = IF w = Root THEN Root ELSE "zero"
        BY <2>2, <2>4, <3>1, <3>2
      <3>4. (t = "State" /\ idx[w] = 1) = FALSE /\ (t = "Parameters" /\ idx[w] = 2) = FALSE
        BY <1>1 DEF Half!Broadcasts
      <3> HIDE DEF t
      <3> QED BY <1>1, <2>1, <2>2, <2>3, <2>4, <3>3, <3>4 DEF HalfRootInv
    <2>5. CASE u # t \/ v # w
      <3>1. pushed'[v][u] = pushed[v][u] /\ (u \in live'[v] <=> u \in live[v])
        BY <2>2, <2>3, <2>5
      <3> QED BY <1>1, <2>1, <2>2, <3>1 DEF HalfRootInv
    <2> QED BY <2>4, <2>5, <2>2
  <1>3. Broadcasts # {} /\ DOMAIN live' = Worker
    BY <1>1 DEF Broadcasts, HalfInv
  <1> QED BY <1>1, <1>2, <1>3 DEF HalfInv

-----------------------------------------------------------------------------
LEMMA HalfBroadcastDoneStep ==
  ASSUME HalfInv, NEW w \in Worker, Half!broadcast_done(w) PROVE HalfInv'
  <1> DEFINE t == Half!Broadcasts[idx[w]]
             sum == Half!Output(w, t) \ {Half!Zero}
  <1>1. /\ idx[w] \in {1, 2} /\ t \in Broadcasts /\ pc[w] = "broadcast" /\ t \in live[w]
        /\ UNCHANGED pushed /\ live' = [live EXCEPT ![w] = @ \ {t}]
        /\ \A v \in Worker : Len(pushed[v][t]) >= Len(pushed[w][t])
        /\ origin' = [origin EXCEPT ![w][t] =
                IF Half!Cardinality(sum) = 1 THEN CHOOSE v \in sum : TRUE ELSE "mixed"]
    <2>1. "State" \in Broadcasts /\ pc[w] = "broadcast"
      BY DEF Broadcasts, Half!broadcast_done
    <2>2. idx[w] \in {1, 2}
      BY <2>1 DEF HalfInv, HalfRootInv
    <2>3. t \in Broadcasts
      BY <2>2 DEF Half!Broadcasts, Broadcasts
    <2> QED BY <2>1, <2>2, <2>3 DEF Half!broadcast_done, Half!synchronize, Half!Done
  <1>2. IF idx[w] = 1
        THEN t = "Parameters" /\ idx' = [idx EXCEPT ![w] = 2] /\ UNCHANGED pc
        ELSE t = "State" /\ idx' = [idx EXCEPT ![w] = 1] /\ pc' = [pc EXCEPT ![w] = "forward"]
    <2>1. Len(Half!Broadcasts) = 2
      BY DEF Half!Broadcasts
    <2>2. idx[w] = 1 => t = "Parameters"
      BY DEF Half!Broadcasts
    <2>3. idx[w] = 2 => t = "State"
      BY DEF Half!Broadcasts
    <2>4. IF idx[w] < 2 THEN idx' = [idx EXCEPT ![w] = @ + 1] /\ UNCHANGED pc
          ELSE idx' = [idx EXCEPT ![w] = 1] /\ pc' = [pc EXCEPT ![w] = "forward"]
      BY <2>1 DEF Half!broadcast_done
    <2> HIDE DEF t
    <2> QED BY <1>1, <2>2, <2>3, <2>4
  <1>3. Len(pushed[w][t]) = 1
    BY <1>1 DEF HalfInv, HalfRootInv
  <1>4. \A v \in Worker : Len(pushed[v][t]) >= 1 /\ pushed[v][t][1] = IF v = Root THEN Root ELSE "zero"
    <2> SUFFICES ASSUME NEW v \in Worker
                 PROVE  Len(pushed[v][t]) >= 1 /\ pushed[v][t][1] = IF v = Root THEN Root ELSE "zero"
      OBVIOUS
    <2>1. HalfRootInv(v, t) /\ Len(pushed[v][t]) \in Nat /\ Len(pushed[v][t]) >= 1
      BY <1>1, <1>3 DEF HalfInv, Started
    <2> QED BY <2>1 DEF HalfRootInv
  <1>5. Half!Output(w, t) = {pushed[v][t][1] : v \in Worker}
    BY <1>3, <1>4 DEF Half!Output
  <1>6. sum = {Root}
    BY <1>4, <1>5, RootAssumption DEF Half!Zero
  <1>7. Half!Cardinality(sum) = 1 /\ (CHOOSE v \in sum : TRUE) = Root
    <2>1. Cardinality({Root}) = 1
      BY FS_Singleton
    <2> QED BY <1>6, <2>1 DEF Half!Cardinality, Cardinality
  <1>8. origin' = [origin EXCEPT ![w][t] = Root]
    BY <1>1, <1>7
  <1> HIDE DEF t, sum
  <1>9. /\ origin' \in [Worker -> [Broadcasts -> Worker \cup {"mixed"}]] /\ origin'[w][t] = Root
        /\ \A u \in Broadcasts : u # t => origin'[w][u] = origin[w][u]
        /\ \A v \in Worker : v # w => origin'[v] = origin[v]
    <2>1. origin \in [Worker -> [Broadcasts -> Worker \cup {"mixed"}]] /\ Root \in Worker \cup {"mixed"}
      BY RootAssumption DEF HalfInv
    <2>2. PICK b \in Broadcasts : b = t
      BY <1>1
    <2>3. origin' = [origin EXCEPT ![w][b] = Root]
      BY <1>8, <2>2
    <2>4. /\ origin' \in [Worker -> [Broadcasts -> Worker \cup {"mixed"}]] /\ origin'[w][b] = Root
          /\ \A u \in Broadcasts : u # b => origin'[w][u] = origin[w][u]
          /\ \A v \in Worker : v # w => origin'[v] = origin[v]
      BY <2>1, <2>3, ExceptType
    <2> QED BY <2>2, <2>4
  <1>10. /\ DOMAIN pc' = Worker /\ DOMAIN idx' = Worker /\ DOMAIN live' = Worker
         /\ \A v \in Worker : v # w => UNCHANGED <<pc[v], idx[v], live[v]>>
         /\ live'[w] = live[w] \ {t}
         /\ IF idx[w] = 1 THEN t = "Parameters" /\ idx'[w] = 2 /\ pc'[w] = "broadcast"
            ELSE t = "State" /\ pc'[w] = "forward"
    BY <1>1, <1>2 DEF HalfInv
  <1>11. ASSUME NEW u \in Broadcasts, NEW v \in Worker PROVE Started(u)' /\ HalfRootInv(v, u)'
    <2>1. Started(u) /\ HalfRootInv(v, u) /\ Len(pushed[v][u]) \in Nat /\ Started(u)'
      BY <1>1, StartedStays DEF HalfInv, Started
    <2>2. CASE v # w
      BY <1>1, <1>9, <1>10, <2>1, <2>2 DEF HalfRootInv
    <2>3. CASE v = w
      <3>1. u = "Parameters" \/ u = "State"
        BY DEF Broadcasts
      <3>2. w = Root => origin'[w][u] = Root
        BY <1>9, <2>1, <2>3 DEF HalfRootInv
      <3>3. CASE idx[w] = 1
        <4>1. Half!Broadcasts[2] = "State"
          BY DEF Half!Broadcasts
        <4>2. u = "State" => Len(pushed[w][u]) = 0 /\ u \notin live'[w]
          BY <1>1, <1>10, <2>1, <2>3, <3>3 DEF HalfRootInv
        <4>3. u = "Parameters" => Len(pushed[w][u]) = 1 /\ origin'[w][u] = Root
          BY <1>3, <1>9, <1>10, <3>3
        <4>4. Len(pushed[w][u]) > 0 => pushed[w][u][1] = IF w = Root THEN Root ELSE "zero"
          BY <2>1, <2>3 DEF HalfRootInv
        <4>5. idx'[w] = 2 /\ pc'[w] = "broadcast" /\ pushed' = pushed
          BY <1>1, <1>10, <3>3
        <4>6. HalfRootInv(w, u)'
          BY <3>1, <3>2, <4>1, <4>2, <4>3, <4>4, <4>5 DEF HalfRootInv
        <4> QED BY <2>1, <2>3, <4>6
      <3>4. CASE idx[w] = 2
        <4>1. u = "Parameters" => Len(pushed[w][u]) = 1 /\ origin'[w][u] = Root
          BY <1>1, <1>9, <1>10, <2>1, <2>3, <3>4 DEF HalfRootInv
        <4>2. u = "State" => Len(pushed[w][u]) = 1 /\ origin'[w][u] = Root
          BY <1>3, <1>9, <1>10, <3>4
        <4> QED BY <1>1, <1>10, <2>1, <2>3, <3>1, <3>2, <3>4, <4>1, <4>2 DEF HalfRootInv
      <3> QED BY <1>1, <3>3, <3>4
    <2> QED BY <2>1, <2>2, <2>3
  <1>12. Broadcasts # {}
    BY DEF Broadcasts
  <1> QED BY <1>9, <1>10, <1>11, <1>12 DEF HalfInv

LEMMA HalfInductive ==
  ASSUME HalfInv, NEW w \in Worker, Half!HalfWorker(w) PROVE HalfInv'
  <1> USE DEF HalfInv
  <1>1. DOMAIN pc = Worker /\ DOMAIN idx = Worker /\ DOMAIN live = Worker
    OBVIOUS
  <1>2. CASE Half!forward(w)
    <2>1. pc[w] # "broadcast" /\ UNCHANGED <<origin, core>>
      BY <1>2 DEF Half!forward, Half!core, core
    <2>2. /\ DOMAIN pc' = Worker /\ DOMAIN idx' = Worker /\ pc'[w] # "broadcast"
          /\ \A v \in Worker : v # w => UNCHANGED <<pc[v], idx[v]>>
      BY <1>1, <1>2 DEF Half!forward
    <2> QED BY <1>1, <2>1, <2>2, HalfTrainingStep DEF core
  <1>3. ASSUME NEW p, Half!try_to_synchronize(w, p)
        PROVE  UNCHANGED pushed /\ DOMAIN live' = Worker /\ \A v \in Worker : v # w => live'[v] = live[v]
    BY <1>1, <1>3 DEF Half!try_to_synchronize, Half!synchronize
  <1>4. ASSUME NEW p, Half!polled(w, p), pc[w] # "broadcast" PROVE HalfInv'
    <2>1. UNCHANGED <<origin, idx, pushed>> /\ DOMAIN live' = Worker /\ \A v \in Worker : v # w => live'[v] = live[v]
      BY <1>1, <1>3, <1>4 DEF Half!polled, Half!core
    <2>2. DOMAIN pc' = Worker /\ pc'[w] # "broadcast" /\ \A v \in Worker : v # w => pc'[v] = pc[v]
      BY <1>1, <1>4 DEF Half!polled
    <2> QED BY <1>1, <1>4, <2>1, <2>2, HalfTrainingStep
  <1>5. CASE Half!pre_forward_hook(w)
    <2>1. pc[w] # "broadcast"
      BY <1>5 DEF Half!pre_forward_hook
    <2>2. CASE \E p : Half!polled(w, p)
      BY <1>4, <2>1, <2>2
    <2>3. CASE ~\E p : Half!polled(w, p)
      <3>1. UNCHANGED <<origin, idx, core>> /\ pc' = [pc EXCEPT ![w] = "others"]
        BY <1>5, <2>3 DEF Half!pre_forward_hook, Half!core, core
      <3> QED BY <1>1, <2>1, <3>1, HalfTrainingStep DEF core
    <2> QED BY <2>2, <2>3
  <1>6. CASE Half!others(w)
    <2>1. pc[w] # "broadcast"
      BY <1>6 DEF Half!others
    <2>2. CASE \E p : Half!polled(w, p)
      BY <1>4, <2>1, <2>2
    <2>3. CASE ~\E p : Half!polled(w, p)
      <3>1. UNCHANGED <<origin, idx, core>> /\ pc' = [pc EXCEPT ![w] = "forward"]
        BY <1>6, <2>3 DEF Half!others, Half!core, core
      <3> QED BY <1>1, <2>1, <3>1, HalfTrainingStep DEF core
    <2> QED BY <2>2, <2>3
  <1>7. CASE Half!hook(w)
    <2>1. pc[w] # "broadcast" /\ UNCHANGED origin
      BY <1>7 DEF Half!hook
    <2>2. /\ DOMAIN pc' = Worker /\ DOMAIN idx' = Worker /\ pc'[w] # "broadcast"
          /\ \A v \in Worker : v # w => UNCHANGED <<pc[v], idx[v]>>
      BY <1>1, <1>7 DEF Half!hook
    <2>3. UNCHANGED core \/ \E n, e : Half!push_pull_async(w, n, e)
      BY <1>7 DEF Half!hook, Half!_push_pull_grad_async, Half!core, core
    <2>4. CASE UNCHANGED core
      BY <1>1, <2>1, <2>2, <2>4, HalfTrainingStep DEF core
    <2>5. CASE \E n, e : Half!push_pull_async(w, n, e)
      <3>1. PICK n, e : Half!push_pull_async(w, n, e)
        BY <2>5
      <3>2. Pushing(w, n, e) /\ DOMAIN live' = Worker /\ \A v \in Worker : v # w => live'[v] = live[v]
        BY <1>1, <3>1 DEF Half!push_pull_async, Pushing
      <3> QED BY <2>1, <2>2, <3>2, HalfTrainingStep
    <2> QED BY <2>3, <2>4, <2>5
  <1>8. CASE Half!sync_missing_gradients(w)
    <2>1. pc[w] # "broadcast" /\ UNCHANGED <<origin, idx>>
      BY <1>8 DEF Half!sync_missing_gradients
    <2>2. CASE pc' = [pc EXCEPT ![w] = "raised"] /\ UNCHANGED core
      BY <1>1, <2>1, <2>2, HalfTrainingStep DEF core
    <2>3. CASE UNCHANGED pc /\ \E n, e : Half!push_pull_async(w, n, e)
      <3>1. PICK n, e : Half!push_pull_async(w, n, e)
        BY <2>3
      <3>2. Pushing(w, n, e) /\ DOMAIN live' = Worker /\ \A v \in Worker : v # w => live'[v] = live[v]
        BY <1>1, <3>1 DEF Half!push_pull_async, Pushing
      <3> QED BY <1>1, <2>1, <2>3, <3>2, HalfTrainingStep
    <2> QED BY <1>8, <2>2, <2>3 DEF Half!sync_missing_gradients, Half!_push_pull_grad_async, Half!core, core
  <1>9. CASE Half!step_call(w)
    <2>1. pc[w] # "broadcast" /\ UNCHANGED <<origin, idx, core>>
      BY <1>9 DEF Half!step_call, Half!core, core
    <2>2. DOMAIN pc' = Worker /\ pc'[w] # "broadcast" /\ \A v \in Worker : v # w => pc'[v] = pc[v]
      BY <1>1, <1>9 DEF Half!step_call, Half!StepReturns
    <2> QED BY <1>1, <2>1, <2>2, HalfTrainingStep DEF core
  <1>10. CASE Half!_wait_for_all(w)
    <2>1. pc[w] # "broadcast" /\ UNCHANGED <<origin, idx>>
      BY <1>10 DEF Half!_wait_for_all
    <2>2. DOMAIN pc' = Worker /\ pc'[w] # "broadcast" /\ \A v \in Worker : v # w => pc'[v] = pc[v]
      BY <1>1, <1>10 DEF Half!_wait_for_all, Half!StepReturns
    <2>3. UNCHANGED pushed /\ DOMAIN live' = Worker /\ \A v \in Worker : v # w => live'[v] = live[v]
      BY <1>1, <1>3, <1>10 DEF Half!_wait_for_all, Half!core
    <2> QED BY <1>1, <2>1, <2>2, <2>3, HalfTrainingStep
  <1> HIDE DEF HalfInv
  <1> QED BY <1>2, <1>5, <1>6, <1>7, <1>8, <1>9, <1>10, HalfBroadcastStep, HalfBroadcastDoneStep
          DEF Half!HalfWorker

LEMMA HalfInitial == Half!HalfInit => HalfInv
  <1> SUFFICES ASSUME Half!HalfInit PROVE HalfInv
    OBVIOUS
  <1>1. Half!Range(Half!Broadcasts) = Broadcasts
    BY DEF Half!Range, Half!Broadcasts, Broadcasts
  <1>2. /\ DOMAIN pc = Worker /\ DOMAIN idx = Worker /\ DOMAIN live = Worker
        /\ origin = [w \in Worker |-> [t \in Broadcasts |-> w]]
        /\ \A w \in Worker : pc[w] = "broadcast" /\ idx[w] = 1 /\ live[w] = {}
    BY <1>1 DEF Half!HalfInit, Half!CoreInit
  <1>3. DOMAIN pushed = Worker
        /\ \A v \in Worker, t \in Broadcasts : t \in DOMAIN pushed[v] /\ pushed[v][t] = << >>
    BY <1>1 DEF Half!HalfInit, Half!CoreInit
  <1>4. ASSUME NEW t \in Broadcasts, NEW w \in Worker PROVE Started(t) /\ HalfRootInv(w, t)
    <2>1. Started(t)
      BY <1>3, EmptySequences DEF Started
    <2>2. Len(pushed[w][t]) = 0
      BY <1>3, EmptySequences
    <2>3. Half!Broadcasts[1] = "Parameters" /\ origin[w][t] = w
      BY <1>2 DEF Half!Broadcasts
    <2> QED BY <1>2, <2>1, <2>2, <2>3 DEF HalfRootInv
  <1>5. Worker # {} /\ Broadcasts # {}
    BY RootAssumption DEF Broadcasts
  <1> QED BY <1>2, <1>4, <1>5 DEF HalfInv

LEMMA HalfStutter == HalfInv /\ UNCHANGED vars => HalfInv'
  <1> SUFFICES ASSUME HalfInv, UNCHANGED vars PROVE HalfInv'
    OBVIOUS
  <1>1. UNCHANGED <<pc, idx, live, origin, pushed>>
    BY DEF vars, shared, halfonly, core
  <1>2. ASSUME NEW t \in Broadcasts PROVE Started(t)' /\ \A w \in Worker : HalfRootInv(w, t)'
    <2>1. Started(t)'
      BY <1>1, StartedStays DEF HalfInv
    <2>2. \A w \in Worker : HalfRootInv(w, t)'
      BY <1>1 DEF HalfInv, HalfRootInv
    <2> QED BY <2>1, <2>2
  <1> QED BY <1>1, <1>2 DEF HalfInv

HalfJob == plugin = "half" => HalfInv

LEMMA HalfJobInductive == HalfJob /\ [Next]_vars => HalfJob'
  <1> SUFFICES ASSUME HalfJob, [Next]_vars, plugin' = "half" PROVE HalfInv'
    BY DEF HalfJob
  <1>1. ASSUME Next, plugin = "half" PROVE \E w \in Worker : Half!HalfWorker(w)
    BY <1>1 DEF Next, Runs, TorchRuns, DDPRuns, HalfRuns, MXRuns, TFRuns, CBMain, CBPoller, CBCore,
                MSMain, MSReplica
  <1>2. CASE Next
    BY <1>1, <1>2, PluginStays, HalfInductive DEF HalfJob
  <1>3. CASE UNCHANGED vars
    BY <1>3, PluginStays, HalfStutter DEF HalfJob
  <1> QED BY <1>2, <1>3

\* The broadcasts of misc/imagenet18, mxnet/__init__.py and parallel/distributed.py,
\* for all numbers of workers, parameters, passes and steps: no worker trains, updates
\* a parameter or reads a buffer before it has the root's.
THEOREM TrainingStartsFromRoot == Spec => []StartsFromRoot
  <1> DEFINE I == MXJob /\ HalfJob /\ DDPJob
  <1>1. Init => I
    BY MXInitial, HalfInitial, DDPInitial DEF Init, MXJob, HalfJob, DDPJob
  <1>2. I /\ [Next]_vars => I'
    BY MXJobInductive, HalfJobInductive, DDPJobInductive
  <1>3. I => StartsFromRoot
    <2>1. MXInv => MX!UpdatesStartFromRoot
      BY MXTypes DEF MX!UpdatesStartFromRoot, MXRootInv, Weights
    <2>2. HalfInv => Half!StartsFromRoot
      <3> SUFFICES ASSUME HalfInv, NEW w \in Worker, pc[w] # "broadcast", NEW t \in DOMAIN origin[w]
                   PROVE  origin[w][t] = Root
        BY DEF Half!StartsFromRoot
      <3>1. t \in Broadcasts
        BY DEF HalfInv
      <3> QED BY <3>1 DEF HalfInv, HalfRootInv
    <2>3. DDPInv => DDP!ForwardStartsFromRank0
      BY DEF DDPInv, DDPPassInv, Left, DDP!ForwardStartsFromRank0
    <2> QED BY <2>1, <2>2, <2>3 DEF StartsFromRoot, MXJob, HalfJob, DDPJob
  <1> QED BY <1>1, <1>2, <1>3, PTL DEF Spec

=============================================================================
