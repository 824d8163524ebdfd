----------------------------- MODULE DPDKManager -----------------------------
(***************************************************************************)
(* The DPDK client of every training process (dpdk/client/dpdk_manager.cc) *)
(* with the two loops of core_loops.cc that drive it, DPDKListenerLoop and *)
(* DPDKResetLoop.  Each variable is a function of the worker.              *)
(*                                                                         *)
(* Grain: a critical section of _pushpull_queue_mutex is one step, so is   *)
(* one iteration of the push loop, one slot of Reset, one received packet. *)
(* RxThread holds no lock; IncaThreads splits it into its memory           *)
(* accesses and shows what that costs.                                     *)
(***************************************************************************)
EXTENDS Packets

CONSTANTS
  Program,         \* the tasks, in the order in which every worker pushes them
  MAX_AGTR_COUNT,  \* aggregator slots for gradients
  DPDK_KEY_TOTAL,  \* packet keys before the counter wraps
  NO_CPUBUFF_COPY  \* the build that leaves the sum of a reply in the packet

ASSUME SlotAssumption == MAX_AGTR_COUNT \in Nat \ {0}

ASSUME BuildAssumption == NO_CPUBUFF_COPY \in BOOLEAN

\* 1200000 keys over 2500 slots: a wrapped key falls in the slot of the key
\* it replaces.
ASSUME KeyAssumption ==
  DPDK_KEY_TOTAL \in Nat \ {0} /\ DPDK_KEY_TOTAL % MAX_AGTR_COUNT = 0

\* A task is a gradient tensor or, when its name says so, one that is not
\* aggregated; its packets are the parts first .. first + parts - 1 of all
\* packets a worker sends.
PushCmd == {TENSOR_COMM, TENSOR_INIT}

ASSUME ProgramAssumption ==
  /\ Program \in Seq([first : Nat, parts : Nat \ {0}, cmd : PushCmd])
  /\ \A t \in 1 .. Len(Program) :
       Program[t].first =
         IF t = 1 THEN 0 ELSE Program[t - 1].first + Program[t - 1].parts
  /\ \A t, u \in 1 .. Len(Program) :
       t < u => Program[t].first + Program[t].parts <= Program[u].first

\* A partition is at most BYTEPS_PARTITION_BYTES = 4096000 bytes: it needs far
\* fewer keys than there are.
ASSUME PartsAssumption ==
  \A t \in 1 .. Len(Program) : Program[t].parts <= DPDK_KEY_TOTAL

Agtr == 0 .. MAX_AGTR_COUNT - 1     \* the gradient slots
Key  == 0 .. DPDK_KEY_TOTAL - 1     \* packet keys, and indices of part counters
Task == 1 .. Len(Program)           \* tensor keys: one per pushed partition

NoPacket == [worker |-> "none"]

\* A vector is abstracted to the packets it is the sum of: vec[v] lists the
\* keys of worker v's gradients in it.
NoVector == [v \in Worker |-> << >>]
Gradient(w, k) == [v \in Worker |-> IF v = w THEN <<k>> ELSE << >>]

VARIABLES
  pushed,                  \* tasks handed to DPDKPushPull so far
  pushing,                 \* the running DPDKPushPull: parts left, part counter, cmd
  dpdkKey,                 \* GetNewKey's counter
  curr_mutex_idx,          \* part counter the next DPDKPushPull takes
  dpdk_key_to_tensor_key,  \* key -> task
  dpdk_key_to_mutex_idx,   \* key -> part counter
  tensor_key_part_total,   \* part counter -> parts of its task
  tensor_key_part_finish,  \* part counter -> parts finished
  cpubuff_table,           \* key -> content of the buffer behind the key
  pushpulljobQueue,        \* jobs waiting for TxThread: key and cmd
  slot_roundnum,           \* slot -> round of its next packet
  slot_ready,              \* slot -> no packet outstanding
  slot_dpdk_key,           \* slot -> key outstanding
  txpkt,                   \* packet TxThread has assembled and not yet sent
  resetting,               \* slot Reset visits next; -1 when it is not running
  finishKeys,              \* tasks finished and not yet polled
  DPDKTask                 \* tasks whose table entry is set

pushVars  == <<pushed, pushing, dpdkKey, curr_mutex_idx, dpdk_key_to_tensor_key,
               dpdk_key_to_mutex_idx, tensor_key_part_total>>
slotVars  == <<slot_roundnum, slot_ready, slot_dpdk_key>>
partVars  == <<tensor_key_part_finish, finishKeys>>
clientVars == <<pushVars, slotVars, partVars, cpubuff_table, pushpulljobQueue,
                txpkt, resetting, DPDKTask>>

ClientInit ==
  /\ pushed                 = [w \in Worker |-> 0]
  /\ pushing                = [w \in Worker |-> [left |-> 0, idx |-> 0, cmd |-> TENSOR_COMM]]
  /\ dpdkKey                = [w \in Worker |-> 0]
  /\ curr_mutex_idx         = [w \in Worker |-> 0]
  /\ dpdk_key_to_tensor_key = [w \in Worker |-> [k \in Key |-> 0]]
  /\ dpdk_key_to_mutex_idx  = [w \in Worker |-> [k \in Key |-> 0]]
  /\ tensor_key_part_total  = [w \in Worker |-> [i \in Key |-> 0]]
  /\ tensor_key_part_finish = [w \in Worker |-> [i \in Key |-> 0]]
  /\ cpubuff_table          = [w \in Worker |-> [k \in Key |-> NoVector]]
  /\ pushpulljobQueue       = [w \in Worker |-> << >>]
  /\ slot_roundnum          = [w \in Worker |-> [s \in Agtr |-> 0]]
  /\ slot_ready             = [w \in Worker |-> [s \in Agtr |-> TRUE]]
  /\ slot_dpdk_key          = [w \in Worker |-> [s \in Agtr |-> 0]]
  /\ txpkt                  = [w \in Worker |-> NoPacket]
  /\ resetting              = [w \in Worker |-> -1]
  /\ finishKeys             = [w \in Worker |-> << >>]
  /\ DPDKTask               = [w \in Worker |-> {}]

AgtrOf(k) == k % MAX_AGTR_COUNT

\* _pushpull_queue_mutex is free: only Reset holds it across steps.
QueueUnlocked(w) == resetting[w] = -1

BusySlots(w) == {s \in Agtr : ~slot_ready[w][s]}

-----------------------------------------------------------------------------
(* DPDKPushPull, called by the push loop for one task at a time.           *)

\* Keys that wait in the queue or are outstanding in a slot.
OutstandingKeys(w) ==
  {pushpulljobQueue[w][i].key : i \in DOMAIN pushpulljobQueue[w]}
    \cup {slot_dpdk_key[w][s] : s \in BusySlots(w)}

\* Bound on the training program: it never has so many packets outstanding
\* that the counter wraps onto a key still in use.  The code does not check it.
KeysFree(w, n) ==
  \A i \in 0 .. n - 1 :
    (dpdkKey[w] + i) % DPDK_KEY_TOTAL \notin OutstandingKeys(w)

\* The task entry set by EnqueueTensor, and the part counter the call takes.
DPDKPushPull(w) ==
  LET t == Program[pushed[w] + 1]
      n == t.parts
      i == curr_mutex_idx[w]
  IN  /\ pushed[w] < Len(Program)
      /\ pushing[w].left = 0
      /\ pushed'  = [pushed  EXCEPT ![w] = @ + 1]
      /\ pushing' = [pushing EXCEPT ![w] = [left |-> n, idx |-> i, cmd |-> t.cmd]]
      /\ curr_mutex_idx' = [curr_mutex_idx EXCEPT ![w] = (@ + 1) % DPDK_KEY_TOTAL]
      /\ tensor_key_part_total'  = [tensor_key_part_total  EXCEPT ![w][i] = n]
      /\ tensor_key_part_finish' = [tensor_key_part_finish EXCEPT ![w][i] = 0]
      /\ DPDKTask' = [DPDKTask EXCEPT ![w] = @ \cup {pushed[w] + 1}]
      /\ UNCHANGED <<dpdkKey, dpdk_key_to_tensor_key, dpdk_key_to_mutex_idx,
                     slotVars, finishKeys, cpubuff_table, pushpulljobQueue,
                     txpkt, resetting>>

PushStart(w) == DPDKPushPull(w) /\ KeysFree(w, Program[pushed[w] + 1].parts)

\* One iteration of the loop: a new key, its table entries, its job.  Only a
\* gradient gets a buffer for the answer.
PushJob(w) ==
  LET k == dpdkKey[w] % DPDK_KEY_TOTAL
  IN  /\ pushing[w].left > 0
      /\ QueueUnlocked(w)
      /\ pushing' = [pushing EXCEPT ![w].left = @ - 1]
      /\ dpdkKey' = [dpdkKey EXCEPT ![w] = @ + 1]
      /\ dpdk_key_to_tensor_key' =
           [dpdk_key_to_tensor_key EXCEPT ![w][k] = pushed[w]]
      /\ dpdk_key_to_mutex_idx' =
           [dpdk_key_to_mutex_idx EXCEPT ![w][k] = pushing[w].idx]
      /\ cpubuff_table' =
           [cpubuff_table EXCEPT ![w][k] =
              IF pushing[w].cmd = TENSOR_COMM THEN Gradient(w, k) ELSE @]
      /\ pushpulljobQueue' =
           [pushpulljobQueue EXCEPT ![w] = Append(@, [key |-> k, cmd |-> pushing[w].cmd])]
      /\ UNCHANGED <<pushed, curr_mutex_idx, tensor_key_part_total, slotVars,
                     partVars, txpkt, resetting, DPDKTask>>

-----------------------------------------------------------------------------
(* TxThread: the critical section that takes the head of the queue, and    *)
(* the burst that follows it outside the lock.  A head whose slot is       *)
(* occupied keeps the whole queue waiting.                                 *)

TxAssemble(w) ==
  LET job == Head(pushpulljobQueue[w])
      k   == job.key
      s   == AgtrOf(k)
  IN  /\ txpkt[w] = NoPacket
      /\ QueueUnlocked(w)
      /\ pushpulljobQueue[w] # << >>
      /\ slot_ready[w][s]
      /\ slot_ready'    = [slot_ready    EXCEPT ![w][s] = FALSE]
      /\ slot_dpdk_key' = [slot_dpdk_key EXCEPT ![w][s] = k]
      /\ txpkt' = [txpkt EXCEPT ![w] =
                     [worker |-> w, agtr |-> s, round |-> slot_roundnum[w][s],
                      key |-> k, cmd |-> job.cmd, norm |-> 0]]
      /\ pushpulljobQueue' = [pushpulljobQueue EXCEPT ![w] = Tail(@)]
      /\ UNCHANGED <<pushVars, slot_roundnum, partVars, cpubuff_table,
                     resetting, DPDKTask>>

\* rte_eth_tx_burst; the composition puts the packet on the wire.
TxBurst(w) ==
  /\ txpkt[w] # NoPacket
  /\ txpkt' = [txpkt EXCEPT ![w] = NoPacket]
  /\ UNCHANGED <<pushVars, slotVars, partVars, cpubuff_table, pushpulljobQueue,
                 resetting, DPDKTask>>

-----------------------------------------------------------------------------
\* Faulty variants: the count is compared before the increment; the round
\* stays when the slot is freed; replies of any round are accepted.
PartComparedBeforeIncrement(w, k) ==
  LET i == dpdk_key_to_mutex_idx[w][k]
      n == tensor_key_part_finish[w][i]
  IN  /\ tensor_key_part_finish' = [tensor_key_part_finish EXCEPT ![w][i] = n + 1]
      /\ finishKeys' =
           IF n = tensor_key_part_total[w][i]
             THEN [finishKeys EXCEPT ![w] = Append(@, dpdk_key_to_tensor_key[w][k])]
             ELSE finishKeys

FreeSlotSameRound(w, s) ==
  /\ UNCHANGED slot_roundnum
  /\ slot_ready'    = [slot_ready    EXCEPT ![w][s] = TRUE]
  /\ slot_dpdk_key' = [slot_dpdk_key EXCEPT ![w][s] = 0]

AnyRoundExpected(w, r) == TRUE

(* One more finished part of the task the tables give for a key: RxThread  *)
(* asks with the key of the reply, Reset with the key the slot holds.      *)

PartFinished(w, k) ==
  LET i == dpdk_key_to_mutex_idx[w][k]
      n == tensor_key_part_finish[w][i] + 1
  IN  /\ tensor_key_part_finish' = [tensor_key_part_finish EXCEPT ![w][i] = n]
      /\ finishKeys' =
           IF n = tensor_key_part_total[w][i]
             THEN [finishKeys EXCEPT ![w] = Append(@, dpdk_key_to_tensor_key[w][k])]
             ELSE finishKeys

FreeSlot(w, s) ==
  /\ slot_roundnum' = [slot_roundnum EXCEPT ![w][s] = @ + 1]
  /\ slot_ready'    = [slot_ready    EXCEPT ![w][s] = TRUE]
  /\ slot_dpdk_key' = [slot_dpdk_key EXCEPT ![w][s] = 0]

\* The only test RxThread makes: the reply is of the slot's current round.
Expected(w, r) == r.round = slot_roundnum[w][r.agtr]

\* RxThread on reply r.
RxPacket(w, r) ==
  /\ IF Expected(w, r)
       THEN /\ FreeSlot(w, r.agtr)
            /\ cpubuff_table' =
                 [cpubuff_table EXCEPT ![w][r.key] =
                    IF r.cmd = TENSOR_COMM /\ ~NO_CPUBUFF_COPY THEN r.data ELSE @]
            /\ PartFinished(w, r.key)
       ELSE UNCHANGED <<slotVars, cpubuff_table, partVars>>
  /\ UNCHANGED <<pushVars, pushpulljobQueue, txpkt, resetting, DPDKTask>>

-----------------------------------------------------------------------------
(* DPDKResetLoop and Reset.  The clock is abstracted: ten seconds without  *)
(* a completed task may pass at any time.  A Reset that would find no slot *)
(* occupied changes nothing and is left out.                               *)

\* Faulty variant: a Reset is ignored while jobs wait in the queue.
ResetOnlyWithEmptyQueue(w) ==
  /\ QueueUnlocked(w)
  /\ BusySlots(w) # {}
  /\ pushpulljobQueue[w] = << >>
  /\ resetting' = [resetting EXCEPT ![w] = 0]
  /\ UNCHANGED <<pushVars, slotVars, partVars, cpubuff_table, pushpulljobQueue,
                 txpkt, DPDKTask>>

ResetBegin(w) ==
  /\ QueueUnlocked(w)
  /\ BusySlots(w) # {}
  /\ resetting' = [resetting EXCEPT ![w] = 0]
  /\ UNCHANGED <<pushVars, slotVars, partVars, cpubuff_table, pushpulljobQueue,
                 txpkt, DPDKTask>>

\* One slot of the loop; the lock is released after the last one.
ResetSlot(w) ==
  LET s == resetting[w]
  IN  /\ ~QueueUnlocked(w)
      /\ IF slot_ready[w][s]
           THEN UNCHANGED <<slotVars, partVars>>
           ELSE /\ FreeSlot(w, s)
                /\ PartFinished(w, slot_dpdk_key[w][s])
      /\ resetting' = [resetting EXCEPT ![w] =
                         IF s + 1 = MAX_AGTR_COUNT THEN -1 ELSE s + 1]
      /\ UNCHANGED <<pushVars, cpubuff_table, pushpulljobQueue, txpkt, DPDKTask>>

-----------------------------------------------------------------------------
\* DPDKListenerLoop: PollFinishKey, FinishOrProceed on the task, entry cleared.
PollFinishKey(w) ==
  /\ finishKeys[w] # << >>
  /\ finishKeys' = [finishKeys EXCEPT ![w] = Tail(@)]
  /\ DPDKTask'   = [DPDKTask   EXCEPT ![w] = @ \ {Head(finishKeys[w])}]
  /\ UNCHANGED <<pushVars, slotVars, tensor_key_part_finish, cpubuff_table,
                 pushpulljobQueue, txpkt, resetting>>

-----------------------------------------------------------------------------
(* Types.                                                                  *)

Job == [key : Key, cmd : PushCmd]

PushTypes ==
  /\ pushed  \in [Worker -> 0 .. Len(Program)]
  /\ pushing \in [Worker -> [left : Nat, idx : Key, cmd : PushCmd]]
  /\ dpdkKey \in [Worker -> Nat]
  /\ curr_mutex_idx \in [Worker -> Key]
  /\ dpdk_key_to_tensor_key \in [Worker -> [Key -> 0 .. Len(Program)]]
  /\ dpdk_key_to_mutex_idx  \in [Worker -> [Key -> Key]]
  /\ tensor_key_part_total  \in [Worker -> [Key -> Nat]]

SlotTypes ==
  /\ slot_roundnum \in [Worker -> [Agtr -> Nat]]
  /\ slot_ready    \in [Worker -> [Agtr -> BOOLEAN]]
  /\ slot_dpdk_key \in [Worker -> [Agtr -> Key]]

PartTypes ==
  /\ tensor_key_part_finish \in [Worker -> [Key -> Nat]]
  /\ finishKeys \in [Worker -> Seq(0 .. Len(Program))]
  /\ DPDKTask   \in [Worker -> SUBSET Nat]

=============================================================================
