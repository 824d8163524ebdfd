----------------------------- MODULE IncaThreads -----------------------------
(***************************************************************************)
(* IncaSystem with RxThread of the client split into its accesses to the   *)
(* memory it shares with TxThread, Reset and DPDKListenerLoop: all locks   *)
(* in it but _key_queue_mutex are commented out (dpdk_manager.cc).         *)
(*                                                                         *)
(* The build is optimised: the round that was compared and the part count  *)
(* that was loaded stay in registers until they are stored, incremented.   *)
(***************************************************************************)
EXTENDS IncaInvariant

VARIABLE rx    \* worker -> where RxThread is, and what it holds

threadVars == <<vars, rx>>

Idle == [pc |-> "poll"]

ThreadsInit == Init /\ rx = [w \in Worker |-> Idle]

At(w, pc) == rx[w].pc = pc
GoTo(w, pc) == rx' = [rx EXCEPT ![w].pc = pc]
Counter(w) == dpdk_key_to_mutex_idx[w][rx[w].reply.key]

\* A step of RxThread leaves alone all but the variables it names.
RxElse == <<pushVars, pushpulljobQueue, txpkt, resetting, DPDKTask, toPS, psVars, counted>>

-----------------------------------------------------------------------------
\* The round of the slot is read and compared.
RxCheck(w, r) ==
  /\ At(w, "poll")
  /\ toWorker' = toWorker \ {<<w, r>>}
  /\ IF Expected(w, r)
       THEN rx' = [rx EXCEPT ![w] =
                     [pc |-> "round", reply |-> r, count |-> 0,
                      before |-> cpubuff_table[w][r.key]]]
       ELSE UNCHANGED rx
  /\ UNCHANGED clientVars
  /\ UNCHANGED <<toPS, psVars, counted>>

\* Faulty variant: the slot is freed together with its round.
RxRoundFreesSlot(w) ==
  /\ At(w, "round")
  /\ slot_roundnum' =
       [slot_roundnum EXCEPT ![w][rx[w].reply.agtr] = rx[w].reply.round + 1]
  /\ slot_ready' = [slot_ready EXCEPT ![w][rx[w].reply.agtr] = TRUE]
  /\ GoTo(w, "copy")
  /\ UNCHANGED <<slot_dpdk_key, partVars, cpubuff_table, toWorker, RxElse>>

\* slot_roundnum[agtr_index]++, with the value that was compared.
RxRound(w) ==
  /\ At(w, "round")
  /\ slot_roundnum' =
       [slot_roundnum EXCEPT ![w][rx[w].reply.agtr] = rx[w].reply.round + 1]
  /\ GoTo(w, "copy")
  /\ UNCHANGED <<slot_ready, slot_dpdk_key, partVars, cpubuff_table, toWorker, RxElse>>

RxCopy(w) ==
  /\ At(w, "copy")
  /\ cpubuff_table' =
       [cpubuff_table EXCEPT ![w][rx[w].reply.key] =
          IF rx[w].reply.cmd = TENSOR_COMM /\ ~NO_CPUBUFF_COPY
            THEN rx[w].reply.data ELSE @]
  /\ GoTo(w, "load")
  /\ UNCHANGED <<slotVars, partVars, toWorker, RxElse>>

\* tensor_key_part_finish[mutex_idx]++: a load and a store.
RxLoad(w) ==
  /\ At(w, "load")
  /\ rx' = [rx EXCEPT ![w].pc = "store",
                      ![w].count = tensor_key_part_finish[w][Counter(w)] + 1]
  /\ UNCHANGED <<slotVars, partVars, cpubuff_table, toWorker, RxElse>>

RxStore(w) ==
  /\ At(w, "store")
  /\ tensor_key_part_finish' =
       [tensor_key_part_finish EXCEPT ![w][Counter(w)] = rx[w].count]
  /\ GoTo(w, "compare")
  /\ UNCHANGED <<slotVars, finishKeys, cpubuff_table, toWorker, RxElse>>

RxCompare(w) ==
  /\ At(w, "compare")
  /\ finishKeys' =
       IF rx[w].count = tensor_key_part_total[w][Counter(w)]
         THEN [finishKeys EXCEPT ![w] =
                 Append(@, dpdk_key_to_tensor_key[w][rx[w].reply.key])]
         ELSE finishKeys
  /\ GoTo(w, "ready")
  /\ UNCHANGED <<slotVars, tensor_key_part_finish, cpubuff_table, toWorker, RxElse>>

RxReady(w) ==
  /\ At(w, "ready")
  /\ slot_ready' = [slot_ready EXCEPT ![w][rx[w].reply.agtr] = TRUE]
  /\ GoTo(w, "key")
  /\ UNCHANGED <<slot_roundnum, slot_dpdk_key, partVars, cpubuff_table, toWorker, RxElse>>

RxKey(w) ==
  /\ At(w, "key")
  /\ slot_dpdk_key' = [slot_dpdk_key EXCEPT ![w][rx[w].reply.agtr] = 0]
  /\ rx' = [rx EXCEPT ![w] = Idle]
  /\ UNCHANGED <<slot_roundnum, slot_ready, partVars, cpubuff_table, toWorker, RxElse>>

RxStep(w) ==
  \/ RxRound(w) \/ RxCopy(w) \/ RxLoad(w) \/ RxStore(w)
  \/ RxCompare(w) \/ RxReady(w) \/ RxKey(w)

-----------------------------------------------------------------------------
(* The atomic RxPacket takes place when the part is compared: until then   *)
(* the reply is still on its way and nothing of it is visible, from then   *)
(* on the slot is free.                                                    *)

Accepted(w) == rx[w].pc \in {"round", "copy", "load", "store", "compare"}

atomic_roundnum ==
  [w \in Worker |-> [s \in Agtr |->
     IF Accepted(w) /\ rx[w].reply.agtr = s THEN rx[w].reply.round
                                            ELSE slot_roundnum[w][s]]]

atomic_ready ==
  [w \in Worker |-> [s \in Agtr |->
     slot_ready[w][s] \/ (At(w, "ready") /\ rx[w].reply.agtr = s)]]

\* RxThread may clear the key of a packet that TxThread has just sent; the
\* atomic slot still knows it.
atomic_dpdk_key ==
  [w \in Worker |-> [s \in Agtr |->
     IF atomic_ready[w][s] THEN 0 ELSE KeyAt(s, atomic_roundnum[w][s])]]

atomic_part_finish ==
  [w \in Worker |-> [i \in Key |->
     tensor_key_part_finish[w][i] - (IF At(w, "compare") /\ Counter(w) = i THEN 1 ELSE 0)]]

atomic_cpubuff ==
  [w \in Worker |-> [k \in Key |->
     IF rx[w].pc \in {"load", "store", "compare"} /\ rx[w].reply.key = k
       THEN rx[w].before
       ELSE cpubuff_table[w][k]]]

atomic_toWorker ==
  toWorker \cup {<<w, rx[w].reply>> : w \in {v \in Worker : Accepted(v)}}

Atomic == INSTANCE IncaSystem WITH
  slot_roundnum <- atomic_roundnum,
  slot_ready <- atomic_ready,
  slot_dpdk_key <- atomic_dpdk_key,
  tensor_key_part_finish <- atomic_part_finish,
  cpubuff_table <- atomic_cpubuff,
  toWorker <- atomic_toWorker

-----------------------------------------------------------------------------
\* The bound on the training program is about the packets really outstanding:
\* the key in the slot of one of them may have been cleared by RxThread.
PushTask(w) == DPDKPushPull(w) /\ Atomic!KeysFree(w, Program[pushed[w] + 1].parts)

TimerStep(w) == ResetBegin(w) \/ ResetSlot(w)

OtherThread(w) == PushTask(w) \/ PushJob(w) \/ TxAssemble(w) \/ PollFinishKey(w)

NetworkUnchanged == UNCHANGED <<toPS, toWorker, psVars, counted, rx>>

\* Every step but those of DPDKResetLoop.
QuietNext ==
  \/ \E w \in Worker :
       \/ RxStep(w)
       \/ OtherThread(w) /\ NetworkUnchanged
       \/ Send(w) /\ UNCHANGED rx
  \/ \E m \in toPS : ServerReceive(m) /\ UNCHANGED rx
  \/ \E p \in toWorker : RxCheck(p[1], p[2])

ThreadsNext == QuietNext \/ \E w \in Worker : TimerStep(w) /\ NetworkUnchanged

\* The system while no timeout occurs, and with timeouts.
QuietSpec   == ThreadsInit /\ [][QuietNext]_threadVars
ThreadsSpec == ThreadsInit /\ [][ThreadsNext]_threadVars

-----------------------------------------------------------------------------
\* While no timeout occurs the lock-free RxThread is indistinguishable from
\* the atomic RxPacket: no interleaving of its accesses with TxThread,
\* DPDKPushPull and DPDKListenerLoop shows.
RxThreadIsAtomic == Atomic!Spec

=============================================================================
