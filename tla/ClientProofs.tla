---------------------------- MODULE ClientProofs -----------------------------
(***************************************************************************)
(* What every step of the DPDK client keeps: its types and ClientInv.      *)
(* IncaProofs and SwitchProofs build on these lemmas.                      *)
(***************************************************************************)
EXTENDS ClientInvariant, FiniteSetTheorems, TLAPS

-----------------------------------------------------------------------------
(* Arithmetic of the key counter: rows of MAX_AGTR_COUNT keys, wrapped at   *)
(* DPDK_KEY_TOTAL.                                                          *)

\* Quotient and remainder recompose the number.
LEMMA DivMod ==
  ASSUME NEW M \in Nat \ {0}, NEW n \in Nat
  PROVE  /\ n = M * (n \div M) + (n % M)
         /\ n \div M \in Nat
         /\ n % M \in 0 .. M - 1
  OBVIOUS

\* Quotient and remainder are unique.
LEMMA DivModUnique ==
  ASSUME NEW M \in Nat \ {0}, NEW n \in Nat, NEW q \in Nat, NEW r \in 0 .. M - 1,
         n = M * q + r
  PROVE  n \div M = q /\ n % M = r
  OBVIOUS

\* Counting to the next number either fills the last place of a row or
\* starts a new row.
LEMMA DivModStep ==
  ASSUME NEW M \in Nat \ {0}, NEW n \in Nat
  PROVE  \/ /\ n % M = M - 1
            /\ (n + 1) % M = 0
            /\ (n + 1) \div M = (n \div M) + 1
         \/ /\ n % M # M - 1
            /\ (n + 1) % M = (n % M) + 1
            /\ (n + 1) \div M = n \div M
  <1> DEFINE q == n \div M
             r == n % M
  <1>1. n = M * q + r /\ q \in Nat /\ r \in 0 .. M - 1
    BY DivMod
  <1> HIDE DEF q, r
  <1>2. CASE r = M - 1
    <2>1. n + 1 = M * (q + 1) + 0
      <3>1. M * (q + 1) = M * q + M
        BY <1>1
      <3> QED BY <1>1, <1>2, <3>1
    <2>2. q + 1 \in Nat /\ 0 \in 0 .. M - 1
      BY <1>1
    <2>3. (n + 1) \div M = q + 1 /\ (n + 1) % M = 0
      BY <2>1, <2>2, DivModUnique
    <2> QED BY <1>2, <2>3 DEF q, r
  <1>3. CASE r # M - 1
    <2>1. n + 1 = M * q + (r + 1)
      BY <1>1
    <2>2. q \in Nat /\ r + 1 \in 0 .. M - 1
      BY <1>1, <1>3
    <2>3. PICK m \in Nat, t \in 0 .. M - 1 : m = n + 1 /\ t = r + 1
      BY <2>2
    <2>4. m \div M = q /\ m % M = t
      BY <2>1, <2>2, <2>3, DivModUnique
    <2> QED BY <1>3, <2>3, <2>4 DEF q, r
  <1> QED BY <1>2, <1>3

\* A wrapped key falls in the slot of the key it replaces.
LEMMA ModOfMod ==
  ASSUME NEW M \in Nat \ {0}, NEW T \in Nat \ {0}, T % M = 0, NEW n \in Nat
  PROVE  (n % T) % M = n % M
  <1> DEFINE c == T \div M
             q == n \div T
             k == n % T
             a == k \div M
             b == k % M
  <1>1. T = M * c /\ c \in Nat
    BY DivMod
  <1>2. n = T * q + k /\ q \in Nat /\ k \in Nat
    BY DivMod
  <1>3. k = M * a + b /\ a \in Nat /\ b \in 0 .. M - 1
    BY <1>2, DivMod
  <1> HIDE DEF c, q, k, a, b
  <1>4. c * q + a \in Nat
    BY <1>1, <1>2, <1>3
  <1>5. n = M * (c * q + a) + b
    <2>1. T * q = M * (c * q)
      BY <1>1, <1>2
    <2>2. M * (c * q + a) = M * (c * q) + M * a
      BY <1>1, <1>2, <1>3
    <2> QED BY <1>1, <1>2, <1>3, <2>1, <2>2
  <1>6. n % M = b
    BY <1>3, <1>4, <1>5, DivModUnique
  <1> QED BY <1>6 DEF b, k

\* Fewer than a full turn apart, two counts differ when wrapped.
LEMMA ModDistinct ==
  ASSUME NEW M \in Nat \ {0}, NEW a \in Nat, NEW b \in Nat, a < b, b - a < M
  PROVE  a % M # b % M
  <1> DEFINE p == a \div M
             q == b \div M
             r == a % M
             t == b % M
  <1>1. a = M * p + r /\ p \in Nat /\ r \in 0 .. M - 1
    BY DivMod
  <1>2. b = M * q + t /\ q \in Nat /\ t \in 0 .. M - 1
    BY DivMod
  <1> HIDE DEF p, q, r, t
  <1> SUFFICES ASSUME r = t PROVE FALSE
    BY DEF r, t
  <1>3. b - a = M * (q - p)
    <2>1. M * (q - p) = M * q - M * p
      BY <1>1, <1>2
    <2>2. M * q \in Nat /\ M * p \in Nat
      BY <1>1, <1>2
    <2> QED BY <1>1, <1>2, <2>1, <2>2
  <1>4. CASE q <= p
    BY <1>1, <1>2, <1>3, <1>4
  <1>5. CASE q > p
    <2>1. M * (q - p) >= M
      BY <1>1, <1>2, <1>5
    <2> QED BY <1>3, <2>1
  <1> QED BY <1>1, <1>2, <1>4, <1>5

\* A full turn comes back to the same wrapped count.
LEMMA ModTurn ==
  ASSUME NEW M \in Nat \ {0}, NEW a \in Nat
  PROVE  (a + M) % M = a % M
  <1> DEFINE p == a \div M
             r == a % M
  <1>1. a = M * p + r /\ p \in Nat /\ r \in 0 .. M - 1
    BY DivMod
  <1> HIDE DEF p, r
  <1>2. a + M = M * (p + 1) + r
    <2>1. M * (p + 1) = M * p + M
      BY <1>1
    <2> QED BY <1>1, <2>1
  <1>3. p + 1 \in Nat /\ a + M \in Nat
    BY <1>1
  <1>4. (a + M) % M = r
    BY <1>1, <1>2, <1>3, DivModUnique
  <1> QED BY <1>4 DEF r

\* Counting on from a wrapped count.
LEMMA ModSucc ==
  ASSUME NEW M \in Nat \ {0}, NEW a \in Nat
  PROVE  ((a % M) + 1) % M = (a + 1) % M
  <1>1. a % M \in 0 .. M - 1
    BY DivMod
  <1>2. CASE a % M = M - 1
    <2>1. (a + 1) % M = 0
      BY <1>2, DivModStep
    <2>2. M = M * 1 + 0 /\ 0 \in 0 .. M - 1
      OBVIOUS
    <2>3. M % M = 0
      BY <2>2, DivModUnique
    <2>4. (a % M) + 1 = M
      BY <1>2
    <2> QED BY <2>1, <2>3, <2>4
  <1>3. CASE a % M # M - 1
    <2> DEFINE t == (a % M) + 1
    <2>1. (a + 1) % M = t
      BY <1>3, DivModStep
    <2>2. t = M * 0 + t /\ t \in 0 .. M - 1 /\ t \in Nat
      BY <1>1, <1>3
    <2> HIDE DEF t
    <2>3. t % M = t
      BY <2>2, DivModUnique
    <2> QED BY <2>1, <2>3 DEF t
  <1> QED BY <1>2, <1>3

-----------------------------------------------------------------------------
(* The client.                                                              *)

\* What the arithmetic needs of the constants.
LEMMA Constants ==
  /\ MAX_AGTR_COUNT \in Nat \ {0}
  /\ DPDK_KEY_TOTAL \in Nat \ {0}
  /\ DPDK_KEY_TOTAL % MAX_AGTR_COUNT = 0
  /\ NUM_WORKER \in Nat \ {0}
  <1>1. NUM_WORKER \in Nat /\ NUM_WORKER # 0
    BY WorkerAssumption, FS_CardinalityType, FS_EmptySet DEF NUM_WORKER
  <1> QED BY <1>1, SlotAssumption, KeyAssumption

LEMMA SentType ==
  ASSUME NEW n \in Nat, NEW s \in Agtr
  PROVE  Sent(n, s) \in Nat
  <1>1. n \div MAX_AGTR_COUNT \in Nat
    BY Constants, DivMod
  <1> QED BY <1>1 DEF Sent

\* Only the slot of a counter value counts it.
LEMMA SentStep ==
  ASSUME NEW n \in Nat, NEW s \in Agtr
  PROVE  Sent(n + 1, s) =
           Sent(n, s) + (IF s = n % MAX_AGTR_COUNT THEN 1 ELSE 0)
  <1> DEFINE M == MAX_AGTR_COUNT
  <1>1. n \div M \in Nat /\ n % M \in 0 .. M - 1 /\ M \in Nat \ {0}
    BY Constants, DivMod
  <1>2. \/ /\ n % M = M - 1
           /\ (n + 1) % M = 0
           /\ (n + 1) \div M = (n \div M) + 1
        \/ /\ n % M # M - 1
           /\ (n + 1) % M = (n % M) + 1
           /\ (n + 1) \div M = n \div M
    BY Constants, DivModStep
  <1>3. s \in 0 .. M - 1
    BY DEF Agtr
  <1> QED BY <1>1, <1>2, <1>3 DEF Sent

\* The job with counter value n goes to slot n % MAX_AGTR_COUNT, and the
\* number of earlier jobs of that slot gives its key back.
LEMMA KeyOfJob ==
  ASSUME NEW n \in Nat, NEW k, k = n % DPDK_KEY_TOTAL
  PROVE  /\ k \in Key
         /\ AgtrOf(k) \in Agtr
         /\ AgtrOf(k) = n % MAX_AGTR_COUNT
         /\ Position(AgtrOf(k), Sent(n, AgtrOf(k))) = n
         /\ KeyAt(AgtrOf(k), Sent(n, AgtrOf(k))) = k
  <1> DEFINE M == MAX_AGTR_COUNT
  <1>1. k \in Key
    BY Constants, DivMod DEF Key
  <1>2. AgtrOf(k) = n % M
    BY Constants, ModOfMod DEF AgtrOf
  <1>3. n % M \in 0 .. M - 1 /\ n \div M \in Nat /\ n = M * (n \div M) + (n % M)
    BY Constants, DivMod
  <1>4. Sent(n, n % M) = n \div M
    BY <1>3, Constants DEF Sent
  <1>5. Position(n % M, n \div M) = n
    BY <1>3, Constants DEF Position
  <1> QED BY <1>1, <1>2, <1>3, <1>4, <1>5 DEF Agtr, KeyAt

LEMMA KeyAtType ==
  ASSUME NEW s \in Agtr, NEW r \in Nat
  PROVE  KeyAt(s, r) \in Key
  <1>1. Position(s, r) \in Nat
    BY Constants DEF Agtr, Position
  <1> QED BY <1>1, Constants, DivMod DEF KeyAt, Key

LEMMA ProgramTypes ==
  /\ Len(Program) \in Nat
  /\ \A t \in 1 .. Len(Program) :
       /\ Program[t] \in [first : Nat, parts : Nat \ {0}, cmd : PushCmd]
       /\ Program[t].first \in Nat
       /\ Program[t].parts \in Nat \ {0}
       /\ Program[t].cmd \in PushCmd
  <1> DEFINE R == [first : Nat, parts : Nat \ {0}, cmd : PushCmd]
  <1>1. Program \in Seq(R)
    BY ProgramAssumption
  <1> HIDE DEF R
  <1>2. Len(Program) \in Nat /\ \A t \in 1 .. Len(Program) : Program[t] \in R
    BY <1>1
  <1> QED BY <1>2 DEF R

LEMMA WrappedKey ==
  ASSUME NEW n \in Nat
  PROVE  n % DPDK_KEY_TOTAL \in Key
  BY Constants, DivMod DEF Key

LEMMA SlotOfKey ==
  ASSUME NEW k \in Key
  PROVE  AgtrOf(k) \in Agtr
  BY Constants, DivMod DEF Key, Agtr, AgtrOf

-----------------------------------------------------------------------------
(* Types.                                                                  *)

\* Slot and part bookkeeping shared by RxThread and Reset.
LEMMA FreeSlotType ==
  ASSUME SlotTypes, NEW w \in Worker, NEW s \in Agtr, FreeSlot(w, s)
  PROVE  SlotTypes'
  <1>1. 0 \in Key
    BY Constants DEF Key
  <1>2. slot_roundnum' \in [Worker -> [Agtr -> Nat]]
    BY DEF SlotTypes, FreeSlot
  <1>3. slot_ready' \in [Worker -> [Agtr -> BOOLEAN]]
    BY DEF SlotTypes, FreeSlot
  <1>4. slot_dpdk_key' \in [Worker -> [Agtr -> Key]]
    BY <1>1 DEF SlotTypes, FreeSlot
  <1> QED BY <1>2, <1>3, <1>4 DEF SlotTypes

LEMMA PartFinishedType ==
  ASSUME PushTypes, PartTypes, NEW w \in Worker, NEW k \in Key, PartFinished(w, k)
  PROVE  /\ tensor_key_part_finish' \in [Worker -> [Key -> Nat]]
         /\ finishKeys' \in [Worker -> Seq(0 .. Len(Program))]
  <1> DEFINE i == dpdk_key_to_mutex_idx[w][k]
  <1>1. i \in Key /\ dpdk_key_to_tensor_key[w][k] \in 0 .. Len(Program)
    BY DEF PushTypes
  <1>2. tensor_key_part_finish' \in [Worker -> [Key -> Nat]]
    BY <1>1 DEF PartTypes, PartFinished
  <1>3. Append(finishKeys[w], dpdk_key_to_tensor_key[w][k]) \in Seq(0 .. Len(Program))
    BY <1>1 DEF PartTypes
  <1>4. finishKeys' \in [Worker -> Seq(0 .. Len(Program))]
    BY <1>3 DEF PartTypes, PartFinished
  <1> QED BY <1>2, <1>4

LEMMA InitClientTypes == ClientInit => ClientTypes
  <1> SUFFICES ASSUME ClientInit PROVE ClientTypes
    OBVIOUS
  <1>1. 0 \in Key /\ 0 \in 0 .. Len(Program)
    BY Constants, ProgramTypes DEF Key
  <1>2. PushTypes
    BY <1>1 DEF ClientInit, PushTypes, PushCmd
  <1>3. SlotTypes /\ PartTypes
    BY <1>1 DEF ClientInit, SlotTypes, PartTypes
  <1> QED BY <1>2, <1>3 DEF ClientInit, ClientTypes

\* The threads of a client keep its types.
LEMMA ClientStepTypes ==
  ASSUME ClientTypes, NEW w \in Worker,
         \/ PushStart(w) \/ PushJob(w) \/ TxAssemble(w) \/ TxBurst(w)
         \/ ResetBegin(w) \/ ResetSlot(w) \/ PollFinishKey(w)
  PROVE  ClientTypes'
  <1>0. /\ PushTypes /\ SlotTypes /\ PartTypes
        /\ pushpulljobQueue \in [Worker -> Seq(Job)] /\ resetting \in [Worker -> {-1} \cup Agtr]
    BY DEF ClientTypes
  <1> USE DEF pushVars, slotVars, partVars
  <1>1. CASE PushStart(w)
    <2>1. /\ Program[pushed[w] + 1].parts \in Nat /\ Program[pushed[w] + 1].cmd \in PushCmd
          /\ pushed[w] + 1 \in 0 .. Len(Program)
      <3>1. pushed[w] \in 0 .. Len(Program) /\ pushed[w] < Len(Program)
        BY <1>0, <1>1 DEF PushTypes, PushStart, DPDKPushPull
      <3> QED BY <3>1, ProgramTypes
    <2>2. curr_mutex_idx[w] \in Key /\ (curr_mutex_idx[w] + 1) % DPDK_KEY_TOTAL \in Key
      <3>1. curr_mutex_idx[w] \in Key /\ curr_mutex_idx[w] + 1 \in Nat
        BY <1>0 DEF PushTypes, Key
      <3> QED BY <3>1, WrappedKey
    <2>3. PushTypes'
      BY <1>0, <1>1, <2>1, <2>2 DEF PushTypes, PushStart, DPDKPushPull
    <2>4. PartTypes'
      BY <1>0, <1>1, <2>1, <2>2 DEF PartTypes, PushStart, DPDKPushPull
    <2> QED BY <1>0, <1>1, <2>3, <2>4 DEF PushStart, DPDKPushPull, SlotTypes, ClientTypes
  <1>2. CASE PushJob(w)
    <2>1. dpdkKey[w] % DPDK_KEY_TOTAL \in Key
      BY <1>0, WrappedKey DEF PushTypes
    <2>2. pushing[w] \in [left : Nat, idx : Key, cmd : PushCmd] /\ pushing[w].left - 1 \in Nat
      BY <1>0, <1>2 DEF PushTypes, PushJob
    <2>3. PushTypes'
      <3>1. pushed[w] \in 0 .. Len(Program) /\ pushing[w].idx \in Key /\ dpdkKey[w] + 1 \in Nat
        BY <1>0, <2>2 DEF PushTypes
      <3>2. pushing' \in [Worker -> [left : Nat, idx : Key, cmd : PushCmd]]
        BY <1>0, <1>2, <2>2 DEF PushTypes, PushJob
      <3>3. dpdkKey' \in [Worker -> Nat]
        BY <1>0, <1>2, <3>1 DEF PushTypes, PushJob
      <3>4. dpdk_key_to_tensor_key' \in [Worker -> [Key -> 0 .. Len(Program)]]
        BY <1>0, <1>2, <2>1, <3>1 DEF PushTypes, PushJob
      <3>5. dpdk_key_to_mutex_idx' \in [Worker -> [Key -> Key]]
        BY <1>0, <1>2, <2>1, <3>1 DEF PushTypes, PushJob
      <3> QED BY <1>0, <1>2, <3>2, <3>3, <3>4, <3>5 DEF PushTypes, PushJob
    <2>4. pushpulljobQueue' \in [Worker -> Seq(Job)]
      <3>1. PICK j \in Job : j = [key |-> dpdkKey[w] % DPDK_KEY_TOTAL, cmd |-> pushing[w].cmd]
        BY <2>1, <2>2 DEF Job
      <3>2. Append(pushpulljobQueue[w], j) \in Seq(Job)
        BY <1>0
      <3> QED BY <1>0, <1>2, <3>1, <3>2 DEF PushJob
    <2> QED BY <1>0, <1>2, <2>3, <2>4 DEF PushJob, SlotTypes, PartTypes, ClientTypes
  <1>3. CASE TxAssemble(w)
    <2>1. Head(pushpulljobQueue[w]) \in Job /\ Tail(pushpulljobQueue[w]) \in Seq(Job)
      BY <1>0, <1>3 DEF TxAssemble
    <2>2. Head(pushpulljobQueue[w]).key \in Key /\ AgtrOf(Head(pushpulljobQueue[w]).key) \in Agtr
      BY <2>1, SlotOfKey DEF Job
    <2>3. SlotTypes'
      BY <1>0, <1>3, <2>2 DEF SlotTypes, TxAssemble
    <2>4. pushpulljobQueue' \in [Worker -> Seq(Job)]
      BY <1>0, <1>3, <2>1 DEF TxAssemble
    <2> QED BY <1>0, <1>3, <2>3, <2>4 DEF TxAssemble, PushTypes, PartTypes, ClientTypes
  <1>4. CASE TxBurst(w)
    BY <1>0, <1>4 DEF TxBurst, PushTypes, SlotTypes, PartTypes, ClientTypes
  <1>5. CASE ResetBegin(w)
    <2>1. 0 \in Agtr
      BY Constants DEF Agtr
    <2>2. resetting' \in [Worker -> {-1} \cup Agtr]
      BY <1>0, <1>5, <2>1 DEF ResetBegin
    <2> QED BY <1>0, <1>5, <2>2 DEF ResetBegin, PushTypes, SlotTypes, PartTypes, ClientTypes
  <1>6. CASE ResetSlot(w)
    <2>1. resetting[w] \in Agtr
      BY <1>0, <1>6 DEF ResetSlot, QueueUnlocked
    <2>2. slot_dpdk_key[w][resetting[w]] \in Key
      BY <1>0, <2>1 DEF SlotTypes
    <2>3. resetting' \in [Worker -> {-1} \cup Agtr]
      <3>1. (IF resetting[w] + 1 = MAX_AGTR_COUNT THEN -1 ELSE resetting[w] + 1) \in {-1} \cup Agtr
        BY <2>1, Constants DEF Agtr
      <3> QED BY <1>0, <1>6, <3>1 DEF ResetSlot
    <2>4. SlotTypes' /\ PartTypes'
      <3>1. CASE slot_ready[w][resetting[w]]
        BY <1>0, <1>6, <3>1 DEF ResetSlot, SlotTypes, PartTypes
      <3>2. CASE ~slot_ready[w][resetting[w]]
        <4>1. /\ FreeSlot(w, resetting[w]) /\ PartFinished(w, slot_dpdk_key[w][resetting[w]])
              /\ DPDKTask' = DPDKTask
          BY <1>6, <3>2 DEF ResetSlot
        <4> QED BY <1>0, <2>1, <2>2, <4>1, FreeSlotType, PartFinishedType DEF PartTypes
      <3> QED BY <3>1, <3>2
    <2> QED BY <1>0, <1>6, <2>3, <2>4 DEF ResetSlot, PushTypes, ClientTypes
  <1>7. CASE PollFinishKey(w)
    <2>1. Tail(finishKeys[w]) \in Seq(0 .. Len(Program))
      BY <1>0, <1>7 DEF PartTypes, PollFinishKey
    <2>2. PartTypes'
      BY <1>0, <1>7, <2>1 DEF PartTypes, PollFinishKey
    <2> QED BY <1>0, <1>7, <2>2 DEF PollFinishKey, PushTypes, SlotTypes, ClientTypes
  <1> QED BY <1>1, <1>2, <1>3, <1>4, <1>5, <1>6, <1>7

LEMMA RxPacketTypes ==
  ASSUME ClientTypes, NEW w \in Worker, NEW r, r.agtr \in Agtr, r.key \in Key, RxPacket(w, r)
  PROVE  ClientTypes'
  <1> USE DEF pushVars, slotVars, partVars
  <1>1. SlotTypes' /\ PartTypes'
    <2>1. CASE Expected(w, r)
      <3>1. FreeSlot(w, r.agtr) /\ PartFinished(w, r.key) /\ DPDKTask' = DPDKTask
        BY <2>1 DEF RxPacket
      <3> QED BY <3>1, FreeSlotType, PartFinishedType DEF PartTypes, ClientTypes
    <2>2. CASE ~Expected(w, r)
      BY <2>2 DEF RxPacket, SlotTypes, PartTypes, ClientTypes
    <2> QED BY <2>1, <2>2
  <1> QED BY <1>1 DEF RxPacket, PushTypes, ClientTypes

LEMMA SameClientTypes ==
  ASSUME ClientTypes, UNCHANGED clientVars
  PROVE  ClientTypes'
  BY DEF ClientTypes, PushTypes, SlotTypes, PartTypes, clientVars, pushVars, slotVars, partVars

-----------------------------------------------------------------------------
(* ClientInv.                                                              *)

\* The tasks' packets do not overlap: a position belongs to one task.
LEMMA CmdOfTask ==
  ASSUME NEW t \in Task, NEW n \in Nat,
         Program[t].first <= n, n < Program[t].first + Program[t].parts
  PROVE  CmdOf(n) = Program[t].cmd
  <1> DEFINE At(u) == Program[u].first <= n /\ n < Program[u].first + Program[u].parts
  <1>1. \A u \in Task : Program[u].first \in Nat /\ Program[u].parts \in Nat
    BY ProgramTypes DEF Task
  <1>2. \A u, v \in Task : u < v => Program[u].first + Program[u].parts <= Program[v].first
    BY ProgramAssumption DEF Task
  <1>3. ASSUME NEW u \in Task, At(u) PROVE u = t
    <2>1. u \in Nat /\ t \in Nat
      BY ProgramTypes DEF Task
    <2>2. ~(u < t)
      BY <1>1, <1>2, <1>3
    <2>3. ~(t < u)
      BY <1>1, <1>2, <1>3
    <2> QED BY <2>1, <2>2, <2>3
  <1>4. (CHOOSE u \in Task : At(u)) = t
    BY <1>3
  <1> QED BY <1>4 DEF CmdOf

\* Front depends on the counter and the queue only.
LEMMA FrontSame ==
  ASSUME UNCHANGED <<dpdkKey, pushpulljobQueue>>
  PROVE  /\ \A w : Front(w)' = Front(w)
         /\ QueueInv => QueueInv'
  <1>1. \A w : Front(w)' = Front(w)
    BY DEF Front
  <1>2. QueueInv => QueueInv'
    BY <1>1 DEF QueueInv
  <1> QED BY <1>1, <1>2

\* Freeing an occupied slot keeps the round in step with the packets sent.
LEMMA FreeSlotInv ==
  ASSUME SlotTypes, SlotInv, NEW w \in Worker, NEW s \in Agtr, ~slot_ready[w][s],
         FreeSlot(w, s), UNCHANGED <<dpdkKey, pushpulljobQueue>>
  PROVE  SlotInv'
  <1>1. \A v : Front(v)' = Front(v)
    BY FrontSame
  <1>2. /\ slot_roundnum \in [Worker -> [Agtr -> Nat]]
        /\ slot_ready    \in [Worker -> [Agtr -> BOOLEAN]]
        /\ slot_dpdk_key \in [Worker -> [Agtr -> Key]]
    BY DEF SlotTypes
  <1> SUFFICES ASSUME NEW v \in Worker, NEW t \in Agtr
               PROVE  /\ slot_roundnum'[v][t] + (IF slot_ready'[v][t] THEN 0 ELSE 1)
                           = Sent(Front(v), t)
                      /\ ~slot_ready'[v][t] =>
                           slot_dpdk_key'[v][t] = KeyAt(t, slot_roundnum'[v][t])
    BY <1>1 DEF SlotInv
  <1>3. /\ slot_roundnum[v][t] + (IF slot_ready[v][t] THEN 0 ELSE 1) = Sent(Front(v), t)
        /\ ~slot_ready[v][t] => slot_dpdk_key[v][t] = KeyAt(t, slot_roundnum[v][t])
    BY DEF SlotInv
  <1>4. CASE v = w /\ t = s
    <2>1. slot_roundnum'[v][t] = slot_roundnum[v][t] + 1 /\ slot_ready'[v][t] = TRUE
      BY <1>2, <1>4 DEF FreeSlot
    <2> QED BY <1>2, <1>3, <1>4, <2>1
  <1>5. CASE ~(v = w /\ t = s)
    <2>1. /\ slot_roundnum'[v][t] = slot_roundnum[v][t]
          /\ slot_ready'[v][t] = slot_ready[v][t]
          /\ slot_dpdk_key'[v][t] = slot_dpdk_key[v][t]
      BY <1>2, <1>5 DEF FreeSlot
    <2> QED BY <1>3, <2>1
  <1> QED BY <1>4, <1>5

LEMMA InitClientInv == ClientInit => ClientInv
  <1> SUFFICES ASSUME ClientInit PROVE ClientInv
    OBVIOUS
  <1>1. \A w \in Worker : Front(w) = 0 /\ pushpulljobQueue[w] = << >>
    BY DEF ClientInit, Front
  <1>2. QueueInv
    BY <1>1 DEF QueueInv
  <1>3. ASSUME NEW s \in Agtr PROVE Sent(0, s) = 0
    <2>1. 0 = MAX_AGTR_COUNT * 0 + 0 /\ 0 \in 0 .. MAX_AGTR_COUNT - 1
      BY Constants
    <2>2. 0 \div MAX_AGTR_COUNT = 0 /\ 0 % MAX_AGTR_COUNT = 0
      BY <2>1, Constants, DivModUnique
    <2> QED BY <2>2 DEF Sent, Agtr
  <1>4. SlotInv /\ PushInv
    BY <1>1, <1>3 DEF SlotInv, PushInv, PacketsOf, ClientInit
  <1> QED BY <1>2, <1>4 DEF ClientInv

LEMMA SameClientInv ==
  ASSUME ClientInv, UNCHANGED <<pushed, pushing, dpdkKey, pushpulljobQueue, slotVars>>
  PROVE  ClientInv'
  <1>1. QueueInv' /\ SlotInv'
    BY FrontSame DEF ClientInv, SlotInv, slotVars
  <1> QED BY <1>1 DEF ClientInv, PushInv

\* Reset frees occupied slots only.
LEMMA ResetSlotClient ==
  ASSUME ClientTypes, ClientInv, NEW w \in Worker, ResetSlot(w)
  PROVE  ClientInv'
  <1> USE DEF pushVars, slotVars
  <1>1. resetting[w] \in Agtr
    BY DEF ClientTypes, ResetSlot, QueueUnlocked
  <1>2. CASE slot_ready[w][resetting[w]]
    BY <1>2, SameClientInv DEF ResetSlot
  <1>3. CASE ~slot_ready[w][resetting[w]]
    <2>1. FreeSlot(w, resetting[w]) /\ UNCHANGED <<pushed, pushing, dpdkKey, pushpulljobQueue>>
      BY <1>3 DEF ResetSlot
    <2>2. SlotInv'
      BY <1>1, <1>3, <2>1, FreeSlotInv DEF ClientInv, ClientTypes
    <2> QED BY <2>1, <2>2, FrontSame DEF ClientInv, PushInv
  <1> QED BY <1>2, <1>3

LEMMA PushStartClient ==
  ASSUME ClientTypes, ClientInv, NEW w \in Worker, PushStart(w)
  PROVE  ClientInv'
  <1> DEFINE t == pushed[w] + 1
  <1>1. /\ pushed  \in [Worker -> 0 .. Len(Program)]
        /\ pushing \in [Worker -> [left : Nat, idx : Key, cmd : PushCmd]]
        /\ dpdkKey \in [Worker -> Nat]
    BY DEF ClientTypes, PushTypes
  <1>2. /\ pushed[w] < Len(Program) /\ pushing[w].left = 0
        /\ pushed' = [pushed EXCEPT ![w] = t]
        /\ pushing' = [pushing EXCEPT ![w] = [left |-> Program[t].parts,
                                              idx |-> curr_mutex_idx[w],
                                              cmd |-> Program[t].cmd]]
        /\ UNCHANGED <<dpdkKey, pushpulljobQueue, slotVars>>
    BY DEF PushStart, DPDKPushPull
  <1>3. /\ t \in 1 .. Len(Program) /\ pushed[w] \in Nat
        /\ Program[t].first \in Nat /\ Program[t].parts \in Nat \ {0}
    BY <1>1, <1>2, ProgramTypes
  <1>4. Program[t].first = PacketsOf(pushed[w])
    <2>1. Program[t].first =
            IF t = 1 THEN 0 ELSE Program[t - 1].first + Program[t - 1].parts
      BY <1>3, ProgramAssumption
    <2>2. t - 1 = pushed[w] /\ (t = 1 <=> pushed[w] = 0)
      BY <1>3
    <2> QED BY <2>1, <2>2 DEF PacketsOf
  <1>5. dpdkKey[w] = PacketsOf(pushed[w])
    <2>1. dpdkKey[w] + pushing[w].left = PacketsOf(pushed[w])
      BY DEF ClientInv, PushInv
    <2> QED BY <1>1, <1>2, <2>1
  <1>6. PushInv'
    <2> SUFFICES ASSUME NEW v \in Worker
                 PROVE  /\ dpdkKey[v] + pushing'[v].left = PacketsOf(pushed'[v])
                        /\ pushing'[v].left > 0 =>
                             /\ pushed'[v] # 0
                             /\ pushing'[v].left <= Program[pushed'[v]].parts
                             /\ pushing'[v].cmd = Program[pushed'[v]].cmd
      BY <1>2 DEF PushInv
    <2>1. CASE v = w
      <3>1. /\ pushed'[w] = t /\ pushing'[w].left = Program[t].parts
            /\ pushing'[w].cmd = Program[t].cmd
        BY <1>1, <1>2
      <3>2. PacketsOf(t) = Program[t].first + Program[t].parts
        BY <1>3 DEF PacketsOf
      <3> QED BY <1>3, <1>4, <1>5, <2>1, <3>1, <3>2
    <2>2. CASE v # w
      <3>1. pushed'[v] = pushed[v] /\ pushing'[v] = pushing[v]
        BY <1>1, <1>2, <2>2
      <3> QED BY <3>1 DEF ClientInv, PushInv
    <2> QED BY <2>1, <2>2
  <1>7. QueueInv' /\ SlotInv'
    BY <1>2, FrontSame DEF ClientInv, SlotInv, slotVars
  <1> QED BY <1>6, <1>7 DEF ClientInv

LEMMA PushJobClient ==
  ASSUME ClientTypes, ClientInv, NEW w \in Worker, PushJob(w)
  PROVE  ClientInv' /\ \A v \in Worker : Front(v)' = Front(v)
  <1> USE DEF slotVars
  <1> DEFINE k == dpdkKey[w] % DPDK_KEY_TOTAL
             q == pushpulljobQueue[w]
             j == [key |-> k, cmd |-> pushing[w].cmd]
  <1>1. /\ dpdkKey \in [Worker -> Nat] /\ pushpulljobQueue \in [Worker -> Seq(Job)]
        /\ pushed  \in [Worker -> 0 .. Len(Program)]
        /\ pushing \in [Worker -> [left : Nat, idx : Key, cmd : PushCmd]]
    BY DEF ClientTypes, PushTypes
  <1>2. /\ pushing[w].left > 0
        /\ pushing' = [pushing EXCEPT ![w].left = @ - 1]
        /\ dpdkKey' = [dpdkKey EXCEPT ![w] = @ + 1]
        /\ pushpulljobQueue' = [pushpulljobQueue EXCEPT ![w] = Append(@, j)]
        /\ UNCHANGED <<pushed, slotVars>>
    BY DEF PushJob
  <1>3. k \in Key /\ j \in Job /\ j.key = k /\ j.cmd = pushing[w].cmd
    <2>1. k \in Key
      BY <1>1, WrappedKey
    <2>2. pushing[w].cmd \in PushCmd
      BY <1>1
    <2> QED BY <2>1, <2>2 DEF Job
  <1>4. ASSUME NEW v \in Worker PROVE Front(v)' = Front(v)
    <2>1. Len(Append(q, j)) = Len(q) + 1 /\ Len(q) \in Nat
      BY <1>1, <1>3
    <2> HIDE DEF j
    <2> QED BY <1>1, <1>2, <2>1 DEF Front
  <1>5. j.cmd = CmdOf(dpdkKey[w])
    <2> DEFINE t == pushed[w]
    <2>1. /\ dpdkKey[w] + pushing[w].left = PacketsOf(t)
          /\ t # 0 /\ pushing[w].left <= Program[t].parts /\ pushing[w].cmd = Program[t].cmd
      BY <1>2 DEF ClientInv, PushInv
    <2>2. t \in Task /\ Program[t].first \in Nat /\ Program[t].parts \in Nat
      BY <1>1, <2>1, ProgramTypes DEF Task
    <2>3. pushing[w].left \in Nat /\ dpdkKey[w] \in Nat
      BY <1>1
    <2>4. Program[t].first <= dpdkKey[w] /\ dpdkKey[w] < Program[t].first + Program[t].parts
      BY <1>2, <2>1, <2>2, <2>3 DEF PacketsOf
    <2> QED BY <1>3, <2>1, <2>2, <2>3, <2>4, CmdOfTask
  <1>6. PushInv'
    <2> SUFFICES ASSUME NEW v \in Worker
                 PROVE  /\ dpdkKey'[v] + pushing'[v].left = PacketsOf(pushed[v])
                        /\ pushing'[v].left > 0 =>
                             /\ pushed[v] # 0
                             /\ pushing'[v].left <= Program[pushed[v]].parts
                             /\ pushing'[v].cmd = Program[pushed[v]].cmd
      BY <1>2 DEF PushInv
    <2>1. /\ dpdkKey[v] + pushing[v].left = PacketsOf(pushed[v])
          /\ pushing[v].left > 0 =>
               /\ pushed[v] # 0
               /\ pushing[v].left <= Program[pushed[v]].parts
               /\ pushing[v].cmd = Program[pushed[v]].cmd
      BY DEF ClientInv, PushInv
    <2>2. CASE v = w
      <3>1. /\ dpdkKey'[w] = dpdkKey[w] + 1 /\ pushing'[w].left = pushing[w].left - 1
            /\ pushing'[w].cmd = pushing[w].cmd
            /\ dpdkKey[w] \in Nat /\ pushing[w].left \in Nat
        BY <1>1, <1>2
      <3>2. pushed[w] # 0 => Program[pushed[w]].parts \in Nat
        BY <1>1, ProgramTypes
      <3> QED BY <1>2, <2>1, <2>2, <3>1, <3>2
    <2>3. CASE v # w
      <3>1. dpdkKey'[v] = dpdkKey[v] /\ pushing'[v] = pushing[v]
        BY <1>1, <1>2, <2>3
      <3> QED BY <2>1, <3>1
    <2> QED BY <2>2, <2>3
  <1> HIDE DEF j
  <1>7. QueueInv'
    <2> SUFFICES ASSUME NEW v \in Worker
                 PROVE  /\ Front(v)' \in Nat
                        /\ \A i \in 1 .. Len(pushpulljobQueue'[v]) :
                             /\ pushpulljobQueue'[v][i].key = (Front(v)' + i - 1) % DPDK_KEY_TOTAL
                             /\ pushpulljobQueue'[v][i].cmd = CmdOf(Front(v)' + i - 1)
      BY DEF QueueInv
    <2>1. /\ Front(v) \in Nat
          /\ \A i \in 1 .. Len(pushpulljobQueue[v]) :
               /\ pushpulljobQueue[v][i].key = (Front(v) + i - 1) % DPDK_KEY_TOTAL
               /\ pushpulljobQueue[v][i].cmd = CmdOf(Front(v) + i - 1)
      BY DEF ClientInv, QueueInv
    <2>2. CASE v # w
      BY <1>1, <1>2, <1>4, <2>1, <2>2
    <2>3. CASE v = w
      <3>1. pushpulljobQueue'[w] = Append(q, j) /\ q \in Seq(Job)
        BY <1>1, <1>2
      <3>2. ASSUME NEW i \in 1 .. Len(q) + 1
            PROVE  /\ Append(q, j)[i].key = (Front(w) + i - 1) % DPDK_KEY_TOTAL
                   /\ Append(q, j)[i].cmd = CmdOf(Front(w) + i - 1)
        <4>1. CASE i \in 1 .. Len(q)
          <5>1. Append(q, j)[i] = q[i]
            BY <1>3, <3>1, <4>1
          <5> QED BY <2>1, <2>3, <4>1, <5>1
        <4>2. CASE i = Len(q) + 1
          <5>1. Append(q, j)[i] = j
            BY <1>3, <3>1, <4>2
          <5>2. Front(w) + i - 1 = dpdkKey[w]
            BY <1>1, <3>1, <4>2 DEF Front
          <5> QED BY <1>3, <1>5, <5>1, <5>2
        <4> QED BY <3>1, <4>1, <4>2
      <3>3. Len(Append(q, j)) = Len(q) + 1
        BY <1>3, <3>1
      <3> QED BY <1>4, <2>1, <2>3, <3>1, <3>2, <3>3
    <2> QED BY <2>2, <2>3
  <1>8. SlotInv'
    BY <1>2, <1>4 DEF ClientInv, SlotInv
  <1> QED BY <1>4, <1>6, <1>7, <1>8 DEF ClientInv

LEMMA TxAssembleClient ==
  ASSUME ClientTypes, ClientInv, NEW w \in Worker, TxAssemble(w),
         NEW j, NEW s, NEW n,
         j = Head(pushpulljobQueue[w]), s = AgtrOf(j.key), n = slot_roundnum[w][s]
  PROVE  /\ ClientInv'
         /\ j.key \in Key /\ j.cmd \in PushCmd /\ s \in Agtr /\ n \in Nat
         /\ j.key = KeyAt(s, n) /\ j.cmd = CmdOf(Position(s, n))
         /\ n = Sent(Front(w), s) /\ Sent(Front(w)', s) = n + 1
         /\ \A v \in Worker, t \in Agtr :
              /\ Sent(Front(v), t) \in Nat /\ Sent(Front(v)', t) \in Nat
              /\ Sent(Front(v), t) <= Sent(Front(v)', t)
  <1> USE DEF pushVars
  <1> DEFINE q == pushpulljobQueue[w]
             k == j.key
  <1>1. /\ dpdkKey \in [Worker -> Nat] /\ pushpulljobQueue \in [Worker -> Seq(Job)]
        /\ slot_roundnum \in [Worker -> [Agtr -> Nat]]
        /\ slot_ready    \in [Worker -> [Agtr -> BOOLEAN]]
        /\ slot_dpdk_key \in [Worker -> [Agtr -> Key]]
    BY DEF ClientTypes, PushTypes, SlotTypes
  <1>2. /\ q # << >> /\ slot_ready[w][s]
        /\ slot_ready'    = [slot_ready    EXCEPT ![w][s] = FALSE]
        /\ slot_dpdk_key' = [slot_dpdk_key EXCEPT ![w][s] = k]
        /\ pushpulljobQueue' = [pushpulljobQueue EXCEPT ![w] = Tail(@)]
        /\ UNCHANGED <<pushed, pushing, dpdkKey, slot_roundnum>>
    BY DEF TxAssemble
  <1>3. q \in Seq(Job) /\ Len(q) >= 1 /\ j = q[1] /\ Tail(q) \in Seq(Job)
        /\ Len(Tail(q)) = Len(q) - 1
        /\ \A i \in 1 .. Len(q) - 1 : Tail(q)[i] = q[i + 1]
    BY <1>1, <1>2
  <1>4. /\ \A v \in Worker : Front(v) \in Nat
        /\ Front(w)' = Front(w) + 1
        /\ \A v \in Worker : v # w => Front(v)' = Front(v)
    <2>1. \A v \in Worker : Front(v) \in Nat
      BY DEF ClientInv, QueueInv
    <2>2. Front(w)' = Front(w) + 1
      BY <1>1, <1>2, <1>3 DEF Front
    <2>3. \A v \in Worker : v # w => Front(v)' = Front(v)
      BY <1>1, <1>2 DEF Front
    <2> QED BY <2>1, <2>2, <2>3
  <1>5. k = Front(w) % DPDK_KEY_TOTAL /\ j.cmd = CmdOf(Front(w)) /\ j.cmd \in PushCmd
    <2>1. 1 \in 1 .. Len(q) /\ q[1] \in Job
      BY <1>3
    <2>2. /\ q[1].key = (Front(w) + 1 - 1) % DPDK_KEY_TOTAL
          /\ q[1].cmd = CmdOf(Front(w) + 1 - 1)
      BY <2>1 DEF ClientInv, QueueInv
    <2>3. Front(w) + 1 - 1 = Front(w)
      BY <1>4
    <2> QED BY <1>3, <2>1, <2>2, <2>3 DEF Job
  <1>6. /\ k \in Key /\ s \in Agtr /\ s = Front(w) % MAX_AGTR_COUNT
        /\ KeyAt(s, Sent(Front(w), s)) = k
        /\ Position(s, Sent(Front(w), s)) = Front(w)
    BY <1>4, <1>5, KeyOfJob
  <1>7. n = Sent(Front(w), s) /\ n \in Nat
    BY <1>1, <1>2, <1>6 DEF ClientInv, SlotInv
  <1>8. /\ Sent(Front(w)', s) = n + 1
        /\ \A t \in Agtr : t # s => Sent(Front(w)', t) = Sent(Front(w), t)
    BY <1>4, <1>6, <1>7, SentStep, SentType
  <1>9. ASSUME NEW v \in Worker, NEW t \in Agtr
        PROVE  /\ Sent(Front(v), t) \in Nat /\ Sent(Front(v)', t) \in Nat
               /\ Sent(Front(v), t) <= Sent(Front(v)', t)
    <2>1. Sent(Front(v), t) \in Nat
      BY <1>4, SentType
    <2>2. CASE v = w /\ t = s
      BY <1>7, <1>8, <2>2
    <2>3. CASE ~(v = w /\ t = s)
      <3>1. Sent(Front(v)', t) = Sent(Front(v), t)
        BY <1>4, <1>8, <2>3
      <3> QED BY <2>1, <3>1
    <2> QED BY <2>1, <2>2, <2>3
  <1>10. QueueInv'
    <2> SUFFICES ASSUME NEW v \in Worker
                 PROVE  /\ Front(v)' \in Nat
                        /\ \A i \in 1 .. Len(pushpulljobQueue'[v]) :
                             /\ pushpulljobQueue'[v][i].key = (Front(v)' + i - 1) % DPDK_KEY_TOTAL
                             /\ pushpulljobQueue'[v][i].cmd = CmdOf(Front(v)' + i - 1)
      BY DEF QueueInv
    <2>1. \A i \in 1 .. Len(pushpulljobQueue[v]) :
            /\ pushpulljobQueue[v][i].key = (Front(v) + i - 1) % DPDK_KEY_TOTAL
            /\ pushpulljobQueue[v][i].cmd = CmdOf(Front(v) + i - 1)
      BY DEF ClientInv, QueueInv
    <2>2. CASE v # w
      BY <1>1, <1>2, <1>4, <2>1, <2>2
    <2>3. CASE v = w
      <3>1. pushpulljobQueue'[w] = Tail(q)
        BY <1>1, <1>2
      <3>2. ASSUME NEW i \in 1 .. Len(q) - 1
            PROVE  /\ Tail(q)[i].key = (Front(w)' + i - 1) % DPDK_KEY_TOTAL
                   /\ Tail(q)[i].cmd = CmdOf(Front(w)' + i - 1)
        <4>1. i + 1 \in 1 .. Len(q) /\ Tail(q)[i] = q[i + 1]
          BY <1>3
        <4>2. /\ q[i + 1].key = (Front(w) + (i + 1) - 1) % DPDK_KEY_TOTAL
              /\ q[i + 1].cmd = CmdOf(Front(w) + (i + 1) - 1)
          BY <2>1, <2>3, <4>1
        <4>3. Front(w) + (i + 1) - 1 = Front(w)' + i - 1
          BY <1>4
        <4> QED BY <4>1, <4>2, <4>3
      <3> QED BY <1>3, <1>4, <2>3, <3>1, <3>2
    <2> QED BY <2>2, <2>3
  <1>11. SlotInv'
    <2> SUFFICES ASSUME NEW v \in Worker, NEW t \in Agtr
                 PROVE  /\ slot_roundnum[v][t] + (IF slot_ready'[v][t] THEN 0 ELSE 1)
                             = Sent(Front(v)', t)
                        /\ ~slot_ready'[v][t] =>
                             slot_dpdk_key'[v][t] = KeyAt(t, slot_roundnum[v][t])
      BY <1>2 DEF SlotInv
    <2>1. /\ slot_roundnum[v][t] + (IF slot_ready[v][t] THEN 0 ELSE 1) = Sent(Front(v), t)
          /\ ~slot_ready[v][t] => slot_dpdk_key[v][t] = KeyAt(t, slot_roundnum[v][t])
      BY DEF ClientInv, SlotInv
    <2>2. CASE v = w /\ t = s
      <3>1. ~slot_ready'[v][t] /\ slot_dpdk_key'[v][t] = k
        BY <1>1, <1>2, <1>6, <2>2
      <3> QED BY <1>6, <1>7, <1>8, <2>2, <3>1
    <2>3. CASE ~(v = w /\ t = s)
      <3>1. slot_ready'[v][t] = slot_ready[v][t] /\ slot_dpdk_key'[v][t] = slot_dpdk_key[v][t]
        BY <1>1, <1>2, <1>6, <2>3
      <3>2. Sent(Front(v)', t) = Sent(Front(v), t)
        BY <1>4, <1>8, <2>3
      <3> QED BY <2>1, <3>1, <3>2
    <2> QED BY <2>2, <2>3
  <1>12. PushInv'
    BY <1>2 DEF ClientInv, PushInv
  <1> QED BY <1>5, <1>6, <1>7, <1>8, <1>9, <1>10, <1>11, <1>12 DEF ClientInv

=============================================================================
