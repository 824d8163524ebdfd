--------------------------- MODULE FinishInvariant ---------------------------
(***************************************************************************)
(* The inductive invariant behind FinishedExactlyOnce.                     *)
(*                                                                         *)
(* Keys and part counters are both taken from counters that wrap at        *)
(* DPDK_KEY_TOTAL.  The client never looks whether a key or a part counter *)
(* is still in use; the bound KeysFree says so of the keys.  Since every   *)
(* task draws at least one key, it follows for the part counters: fewer    *)
(* than DPDK_KEY_TOTAL tasks have been pushed since one that is still open.*)
(***************************************************************************)
EXTENDS IncaInvariant

\* The part counter of task t.
MutexOf(t) == (t - 1) % DPDK_KEY_TOTAL

\* The outstanding keys of task t.
OpenKeys(w, t) == {k \in OutstandingKeys(w) : dpdk_key_to_tensor_key[w][k] = t}

Reported(w, t) == \E i \in DOMAIN finishKeys[w] : finishKeys[w][i] = t

\* Tasks that have drawn all their keys.
DrawnTasks(w) == pushed[w] - (IF pushing[w].left > 0 THEN 1 ELSE 0)

\* A key is in one place, and the running call finds its keys free.
KeysInv(w) ==
  /\ \A i, j \in DOMAIN pushpulljobQueue[w] :
       pushpulljobQueue[w][i].key = pushpulljobQueue[w][j].key => i = j
  /\ \A i \in DOMAIN pushpulljobQueue[w], s \in BusySlots(w) :
       pushpulljobQueue[w][i].key # slot_dpdk_key[w][s]
  /\ KeysFree(w, pushing[w].left)

\* The tables give an outstanding key the task it was drawn for, and that
\* task's part counter.  Each task pushed since has drawn a key, and the
\* counter has not come round to the key.
TableInv(w) ==
  \A k \in OutstandingKeys(w) :
    LET t == dpdk_key_to_tensor_key[w][k]
    IN  /\ t \in 1 .. pushed[w]
        /\ dpdk_key_to_mutex_idx[w][k] = MutexOf(t)
        /\ \E n \in 1 .. DPDK_KEY_TOTAL :
             /\ n <= dpdkKey[w]
             /\ k = (dpdkKey[w] - n) % DPDK_KEY_TOTAL
             /\ DrawnTasks(w) - t < n

\* The part counter of a task that is open tells how many parts are.
PartInv(w) ==
  /\ curr_mutex_idx[w] = pushed[w] % DPDK_KEY_TOTAL
  /\ pushing[w].left > 0 => pushing[w].idx = MutexOf(pushed[w])
  /\ \A t \in Task : OpenParts(w, t) > 0 =>
       tensor_key_part_finish[w][MutexOf(t)] + OpenParts(w, t)
         = tensor_key_part_total[w][MutexOf(t)]

\* FinishedExactlyOnce, for one worker; only pushed tasks have entries.
EntryInv(w) ==
  /\ DPDKTask[w] \subseteq 1 .. pushed[w]
  /\ \A i, j \in DOMAIN finishKeys[w] :
       finishKeys[w][i] = finishKeys[w][j] => i = j
  /\ \A i \in DOMAIN finishKeys[w] : finishKeys[w][i] \in 1 .. pushed[w]
  /\ \A t \in Task :
       /\ Reported(w, t) => t \in DPDKTask[w] /\ OpenParts(w, t) = 0
       /\ t \in DPDKTask[w] /\ ~Reported(w, t) => OpenParts(w, t) > 0
       /\ OpenParts(w, t) > 0 => t \in DPDKTask[w]

\* The inductive invariant, besides TypeOK and IndInv: while a key of
\* DPDKPushPull is outstanding it is in the queue or in one slot, its tables
\* are not overwritten, and the part counter that RxThread and Reset find
\* through them is that of the key's own task.
FinishInv ==
  \A w \in Worker : KeysInv(w) /\ TableInv(w) /\ PartInv(w) /\ EntryInv(w)

=============================================================================
