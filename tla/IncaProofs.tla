------------------------------ MODULE IncaProofs -----------------------------
(***************************************************************************)
(* The theorems about IncaSystem, for every set of workers, program,       *)
(* number of slots and number of keys that satisfies the assumptions: it   *)
(* keeps its types; IndInv is inductive and the safety properties follow   *)
(* from it; FinishedExactlyOnce follows from IndInv and FinishInv.         *)
(***************************************************************************)
EXTENDS FinishInvariant, ClientProofs

-----------------------------------------------------------------------------
(* Type correctness.                                                       *)

LEMMA VectorTypes ==
  /\ NoVector \in Vector
  /\ \A w \in Worker, k \in Key : Gradient(w, k) \in Vector
  BY DEF NoVector, Gradient, Vector

LEMMA AgtrInSlots == Agtr \subseteq Slots
  BY Constants, ServerAssumption DEF Agtr, Slots

LEMMA InitTypeOK == Init => TypeOK
  <1> SUFFICES ASSUME Init PROVE TypeOK
    OBVIOUS
  <1>1. 0 \in 0 .. NUM_WORKER
    BY Constants
  <1>2. NoVector \in Vector /\ [w \in Worker |-> << >>] \in Vector
    BY VectorTypes DEF NoVector
  <1>3. PushTypes /\ SlotTypes /\ PartTypes
    BY InitClientTypes DEF Init, ClientTypes
  <1>4. ThreadTypes
    BY <1>2 DEF Init, ClientInit, ThreadTypes
  <1>5. NetworkTypes
    BY DEF Init, NetworkTypes
  <1>6. ServerTypes
    BY <1>1, <1>2 DEF Init, PsInit, ServerTypes
  <1> QED BY <1>3, <1>4, <1>5, <1>6 DEF TypeOK

LEMMA ClientPart == TypeOK => ClientTypes
  BY DEF TypeOK, ThreadTypes, ClientTypes

LEMMA NextTypeOK == TypeOK /\ [Next]_vars => TypeOK'
  <1> SUFFICES ASSUME TypeOK, [Next]_vars PROVE TypeOK'
    OBVIOUS
  <1>0. PushTypes /\ SlotTypes /\ PartTypes /\ ThreadTypes /\ NetworkTypes /\ ServerTypes
    BY DEF TypeOK
  <1>q. ASSUME PushTypes', SlotTypes', PartTypes', ThreadTypes', NetworkTypes', ServerTypes'
        PROVE  TypeOK'
    BY <1>q DEF TypeOK
  <1> USE DEF vars, clientVars, pushVars, slotVars, partVars, psVars
  <1>1. ASSUME NEW w \in Worker, Client(w) \/ Send(w)
        PROVE  PushTypes' /\ SlotTypes' /\ PartTypes'
               /\ pushpulljobQueue' \in [Worker -> Seq(Job)]
               /\ resetting' \in [Worker -> {-1} \cup Agtr]
    BY <1>1, ClientPart, ClientStepTypes DEF ClientTypes, Client, Send
  <1>2. ASSUME NEW w \in Worker, PushJob(w), UNCHANGED <<toPS, toWorker, psVars, counted>>
        PROVE  TypeOK'
    <2> DEFINE k == dpdkKey[w] % DPDK_KEY_TOTAL
               d == IF pushing[w].cmd = TENSOR_COMM THEN Gradient(w, k)
                                                    ELSE cpubuff_table[w][k]
    <2>1. k \in Key
      BY <1>0, WrappedKey DEF PushTypes
    <2>2. d \in Vector
      BY <1>0, <2>1, VectorTypes DEF ThreadTypes
    <2>3. cpubuff_table' = [cpubuff_table EXCEPT ![w][k] = d] /\ txpkt' = txpkt
      BY <1>2 DEF PushJob
    <2> HIDE DEF d
    <2>4. cpubuff_table' \in [Worker -> [Key -> Vector]]
      BY <1>0, <2>1, <2>2, <2>3 DEF ThreadTypes
    <2>5. ThreadTypes'
      BY <1>0, <1>1, <1>2, <2>3, <2>4 DEF ThreadTypes, Client
    <2>6. NetworkTypes' /\ ServerTypes'
      BY <1>0, <1>2 DEF NetworkTypes, ServerTypes
    <2> QED BY <1>1, <1>2, <2>5, <2>6, <1>q DEF Client
  <1>3. ASSUME NEW w \in Worker, TxAssemble(w), UNCHANGED <<toPS, toWorker, psVars, counted>>
        PROVE  TypeOK'
    <2> DEFINE job == Head(pushpulljobQueue[w])
               k == job.key
               m == [worker |-> w, agtr |-> AgtrOf(k), round |-> slot_roundnum[w][AgtrOf(k)],
                     key |-> k, cmd |-> job.cmd, norm |-> 0]
    <2>1. job \in Job
      BY <1>0, <1>3 DEF ThreadTypes, TxAssemble
    <2>2. k \in Key /\ job.cmd \in PushCmd /\ AgtrOf(k) \in Agtr
      BY <2>1, SlotOfKey DEF Job
    <2>3. m \in Packet
      BY <1>0, <2>2 DEF Packet, SlotTypes
    <2>4. txpkt' = [txpkt EXCEPT ![w] = m] /\ cpubuff_table' = cpubuff_table
      BY <1>3 DEF TxAssemble
    <2> HIDE DEF m
    <2>5. ThreadTypes'
      BY <1>0, <1>1, <1>3, <2>3, <2>4 DEF ThreadTypes, Client
    <2>6. NetworkTypes' /\ ServerTypes'
      BY <1>0, <1>3 DEF NetworkTypes, ServerTypes
    <2> QED BY <1>1, <1>3, <2>5, <2>6, <1>q DEF Client
  <1>4. ASSUME NEW w \in Worker, UNCHANGED <<toPS, toWorker, psVars, counted>>,
               PushStart(w) \/ ResetBegin(w) \/ ResetSlot(w) \/ PollFinishKey(w)
        PROVE  TypeOK'
    <2>1. UNCHANGED <<cpubuff_table, txpkt>>
      BY <1>4 DEF PushStart, DPDKPushPull, ResetBegin, ResetSlot, PollFinishKey
    <2>2. ThreadTypes'
      BY <1>0, <1>1, <1>4, <2>1 DEF ThreadTypes, Client
    <2>3. NetworkTypes' /\ ServerTypes'
      BY <1>0, <1>4 DEF NetworkTypes, ServerTypes
    <2> QED BY <1>1, <1>4, <2>2, <2>3, <1>q DEF Client
  <1>5. ASSUME NEW w \in Worker, Send(w)
        PROVE  TypeOK'
    <2>1. txpkt[w] \in Packet
      BY <1>0, <1>5 DEF ThreadTypes, Send, TxBurst
    <2>2. ThreadTypes'
      BY <1>0, <1>5 DEF ThreadTypes, Send, TxBurst
    <2>3. NetworkTypes'
      BY <1>0, <1>5, <2>1 DEF NetworkTypes, Send
    <2>4. ServerTypes'
      BY <1>0, <1>5 DEF Send, ServerTypes
    <2> QED BY <1>1, <1>5, <2>2, <2>3, <2>4, <1>q
  <1>6. ASSUME NEW m \in toPS, ServerReceive(m)
        PROVE  TypeOK'
    <2>1. m \in Packet
      BY <1>0 DEF NetworkTypes
    <2>2. /\ m.agtr \in Agtr /\ m.agtr \in Slots /\ m.round \in Nat /\ m.worker \in Worker
          /\ m.key \in Key /\ m.cmd \in PushCmd /\ m.norm = 0
      BY <2>1, AgtrInSlots DEF Packet
    <2>3. CountAfter(m) \in 0 .. NUM_WORKER
      BY <1>0, <2>2, Constants DEF ServerTypes, CountAfter
    <2>4. NormAfter(m) = 0
      BY <1>0, <2>2 DEF ServerTypes, NormAfter
    <2>5. DataAfter(m) \in Vector
      BY <1>0, <2>2 DEF ServerTypes, DataAfter, process_data, Vector
    <2>6. Reply(m) \in ReplyPacket
      BY <2>2, <2>4, <2>5 DEF Reply, ReplyPacket
    <2>7. NetworkTypes'
      BY <1>0, <1>6, <2>6 DEF NetworkTypes, ServerReceive
    <2>8. ServerTypes'
      <3>1. CASE Stale(m)
        BY <1>0, <1>6, <3>1 DEF ServerTypes, ServerReceive, PsReceive
      <3>2. CASE ~Stale(m)
        BY <1>0, <1>6, <2>2, <2>3, <2>4, <2>5, <3>2 DEF ServerTypes, ServerReceive, PsReceive
      <3> QED BY <3>1, <3>2
    <2>9. PushTypes' /\ SlotTypes' /\ PartTypes' /\ ThreadTypes'
      BY <1>0, <1>6 DEF ServerReceive, PushTypes, SlotTypes, PartTypes, ThreadTypes
    <2> QED BY <2>7, <2>8, <2>9, <1>q
  <1>7. ASSUME NEW p \in toWorker, WorkerReceive(p[1], p[2])
        PROVE  TypeOK'
    <2> DEFINE w == p[1]
               r == p[2]
    <2>1. w \in Worker /\ r \in ReplyPacket
      BY <1>0 DEF NetworkTypes
    <2>2. r.agtr \in Agtr /\ r.key \in Key /\ r.data \in Vector
      BY <2>1 DEF ReplyPacket
    <2>3. /\ PushTypes' /\ SlotTypes' /\ PartTypes'
          /\ pushpulljobQueue' \in [Worker -> Seq(Job)]
          /\ resetting' \in [Worker -> {-1} \cup Agtr]
      BY <1>7, <2>1, <2>2, ClientPart, RxPacketTypes DEF ClientTypes, WorkerReceive
    <2>4. ThreadTypes'
      <3>1. CASE Expected(w, r)
        <4> DEFINE d == IF r.cmd = TENSOR_COMM /\ ~NO_CPUBUFF_COPY
                          THEN r.data ELSE cpubuff_table[w][r.key]
        <4>1. d \in Vector
          BY <1>0, <2>1, <2>2 DEF ThreadTypes
        <4>2. /\ cpubuff_table' = [cpubuff_table EXCEPT ![w][r.key] = d]
              /\ txpkt' = txpkt
          BY <1>7, <3>1 DEF WorkerReceive, RxPacket
        <4> HIDE DEF d
        <4> QED BY <1>0, <2>1, <2>2, <2>3, <4>1, <4>2 DEF ThreadTypes
      <3>2. CASE ~Expected(w, r)
        BY <1>0, <1>7, <3>2 DEF WorkerReceive, RxPacket, ThreadTypes
      <3> QED BY <3>1, <3>2
    <2>5. NetworkTypes' /\ ServerTypes'
      BY <1>0, <1>7 DEF WorkerReceive, NetworkTypes, ServerTypes
    <2> QED BY <2>3, <2>4, <2>5, <1>q
  <1>8. CASE UNCHANGED vars
    <2>1. PushTypes' /\ SlotTypes' /\ PartTypes'
      BY <1>0, <1>8 DEF PushTypes, SlotTypes, PartTypes
    <2>2. ThreadTypes' /\ NetworkTypes' /\ ServerTypes'
      BY <1>0, <1>8 DEF ThreadTypes, NetworkTypes, ServerTypes
    <2> QED BY <2>1, <2>2, <1>q
  <1> QED BY <1>2, <1>3, <1>4, <1>5, <1>6, <1>7, <1>8
      DEF Next, Client

\* Every behaviour keeps the types; in particular the client's tables are
\* only indexed with keys below DPDK_KEY_TOTAL, however often it wraps.
THEOREM TypeCorrect == Spec => []TypeOK
  BY InitTypeOK, NextTypeOK, PTL DEF Spec

-----------------------------------------------------------------------------
(* Reading the invariant.                                                  *)

LEMMA ClientPartInv == IndInv <=> (ClientInv /\ PacketInv /\ TxInv /\ ServerInv /\ ReplyInv
                                                /\ BufferLocalOrFullSum)
  BY DEF IndInv, ClientInv

\* Worker, slot and round identify a packet: key and command follow.
LEMMA SamePacket ==
  ASSUME NEW m1 \in Packet, NEW m2 \in Packet, Genuine(m1), Genuine(m2),
         m1.worker = m2.worker, m1.agtr = m2.agtr, m1.round = m2.round
  PROVE  m1 = m2
  BY DEF Packet, Genuine

\* A reply of the slot's current round finds the slot occupied: the round is
\* below the number of packets sent, and only an occupied slot lags behind.
LEMMA AwaitedWhenExpected ==
  ASSUME TypeOK, SlotInv, ReplyInv, NEW p \in toWorker, Expected(p[1], p[2])
  PROVE  /\ ~slot_ready[p[1]][p[2].agtr]
         /\ slot_dpdk_key[p[1]][p[2].agtr] = p[2].key
  <1> DEFINE w == p[1]
             s == p[2].agtr
  <1>1. w \in Worker /\ p[2] \in ReplyPacket
    BY DEF TypeOK, NetworkTypes
  <1>2. s \in Agtr /\ p[2].round \in Nat /\ slot_roundnum[w][s] = p[2].round
    BY <1>1 DEF ReplyPacket, Expected
  <1>3. p[2].round < Sent(Front(w), s) /\ p[2].key = KeyAt(s, p[2].round)
    BY <1>1 DEF ReplyInv
  <1>4. /\ slot_roundnum[w][s] + (IF slot_ready[w][s] THEN 0 ELSE 1) = Sent(Front(w), s)
        /\ ~slot_ready[w][s] => slot_dpdk_key[w][s] = KeyAt(s, slot_roundnum[w][s])
    BY <1>1, <1>2 DEF SlotInv
  <1>5. ~slot_ready[w][s]
    BY <1>2, <1>3, <1>4
  <1> QED BY <1>2, <1>3, <1>4, <1>5

-----------------------------------------------------------------------------
(* One lemma per action.                                                   *)

LEMMA InitIndInv == Init => IndInv
  <1> SUFFICES ASSUME Init PROVE IndInv
    OBVIOUS
  <1>1. PushInv /\ QueueInv /\ SlotInv
    BY InitClientInv DEF Init, ClientInv
  <1>2. PacketInv /\ TxInv /\ ReplyInv
    BY DEF PacketInv, TxInv, ReplyInv, Init, ClientInit
  <1>3. ServerInv
    <2> SUFFICES ASSUME NEW s \in Agtr
                 PROVE  receive_count[s] = Cardinality(counted[s]) /\ counted[s] = {}
      BY DEF ServerInv
    <2>1. s \in Slots
      BY AgtrInSlots
    <2>2. counted[s] = {} /\ receive_count[s] = 0
      BY <2>1 DEF Init, PsInit
    <2> QED BY <2>2, FS_EmptySet
  <1>4. BufferLocalOrFullSum
    BY DEF BufferLocalOrFullSum, Init, ClientInit
  <1> QED BY <1>1, <1>2, <1>3, <1>4 DEF IndInv

\* PushStart, ResetBegin and PollFinishKey change nothing the invariant reads
\* but the progress of the push loop.
LEMMA FrameIndInv ==
  ASSUME IndInv, PushInv',
         UNCHANGED <<dpdkKey, pushpulljobQueue, slotVars, cpubuff_table, txpkt,
                     toPS, toWorker, psVars, counted>>
  PROVE  IndInv'
  <1> USE DEF slotVars, psVars
  <1>1. QueueInv' /\ SlotInv'
    BY DEF IndInv, QueueInv, SlotInv, Front
  <1>2. PacketInv' /\ TxInv' /\ ReplyInv'
    BY DEF IndInv, PacketInv, TxInv, ReplyInv, Genuine, Front
  <1>3. ServerInv'
    BY DEF IndInv, ServerInv, Front
  <1>4. BufferLocalOrFullSum'
    BY DEF IndInv, BufferLocalOrFullSum
  <1> QED BY <1>1, <1>2, <1>3, <1>4 DEF IndInv

LEMMA PushStartIndInv ==
  ASSUME TypeOK, IndInv, NEW w \in Worker, PushStart(w),
         UNCHANGED <<toPS, toWorker, psVars, counted>>
  PROVE  IndInv'
  <1>1. PushInv'
    BY ClientPart, ClientPartInv, PushStartClient DEF ClientInv
  <1>2. UNCHANGED <<dpdkKey, pushpulljobQueue, slotVars, cpubuff_table, txpkt>>
    BY DEF PushStart, DPDKPushPull
  <1> QED BY <1>1, <1>2, FrameIndInv

LEMMA PushJobIndInv ==
  ASSUME TypeOK, IndInv, NEW w \in Worker, PushJob(w),
         UNCHANGED <<toPS, toWorker, psVars, counted>>
  PROVE  IndInv'
  <1> USE DEF slotVars, psVars
  <1> DEFINE k == dpdkKey[w] % DPDK_KEY_TOTAL
             d == IF pushing[w].cmd = TENSOR_COMM THEN Gradient(w, k) ELSE cpubuff_table[w][k]
  <1>1. dpdkKey \in [Worker -> Nat] /\ cpubuff_table \in [Worker -> [Key -> Vector]]
    BY DEF TypeOK, PushTypes, ThreadTypes
  <1>2. /\ cpubuff_table' = [cpubuff_table EXCEPT ![w][k] = d]
        /\ UNCHANGED <<txpkt, toPS, toWorker, psVars, counted>>
    BY DEF PushJob
  <1>3. k \in Key
    BY <1>1, WrappedKey
  <1>4. ClientInv' /\ \A v \in Worker : Front(v)' = Front(v)
    BY ClientPart, ClientPartInv, PushJobClient
  <1> HIDE DEF d
  <1>5. PacketInv' /\ TxInv'
    <2>1. ASSUME NEW m \in Packet, Genuine(m) PROVE Genuine(m)'
      BY <2>1, <1>4 DEF Genuine, Packet
    <2>2. toPS \subseteq Packet /\ txpkt \in [Worker -> Packet \cup {NoPacket}]
      BY DEF TypeOK, NetworkTypes, ThreadTypes
    <2> QED BY <1>2, <2>1, <2>2 DEF IndInv, PacketInv, TxInv
  <1>6. ServerInv'
    <2>1. \A s \in Agtr : counted[s] \subseteq Worker
      BY AgtrInSlots DEF TypeOK, ServerTypes
    <2> QED BY <1>2, <1>4, <2>1 DEF IndInv, ServerInv
  <1>7. ReplyInv'
    BY <1>2, <1>4 DEF IndInv, ReplyInv
  <1>8. BufferLocalOrFullSum'
    <2>1. d \in {NoVector, Gradient(w, k), FullSum(k)}
      BY <1>3 DEF d, IndInv, BufferLocalOrFullSum
    <2> QED BY <1>1, <1>2, <1>3, <2>1 DEF IndInv, BufferLocalOrFullSum
  <1> QED BY <1>4, <1>5, <1>6, <1>7, <1>8 DEF IndInv, ClientInv

LEMMA TxAssembleIndInv ==
  ASSUME TypeOK, IndInv, NEW w \in Worker, TxAssemble(w),
         UNCHANGED <<toPS, toWorker, psVars, counted>>
  PROVE  IndInv'
  <1> USE DEF pushVars, psVars
  <1>pick. PICK j, k, s, n, m :
             /\ j = Head(pushpulljobQueue[w]) /\ k = j.key /\ s = AgtrOf(k)
             /\ n = slot_roundnum[w][s]
             /\ m = [worker |-> w, agtr |-> s, round |-> n, key |-> k,
                     cmd |-> j.cmd, norm |-> 0]
    OBVIOUS
  <1>1. /\ txpkt \in [Worker -> Packet \cup {NoPacket}]
        /\ toPS \subseteq Packet /\ toWorker \subseteq Worker \X ReplyPacket
        /\ roundNumbers \in [Slots -> Nat] /\ counted \in [Slots -> SUBSET Worker]
    BY DEF TypeOK, ThreadTypes, NetworkTypes, ServerTypes
  <1>2. /\ txpkt' = [txpkt EXCEPT ![w] = m]
        /\ UNCHANGED <<cpubuff_table, toPS, toWorker, psVars, counted>>
    BY <1>pick DEF TxAssemble
  <1>3. /\ ClientInv'
        /\ k \in Key /\ j.cmd \in PushCmd /\ s \in Agtr /\ n \in Nat
        /\ k = KeyAt(s, n) /\ j.cmd = CmdOf(Position(s, n))
        /\ n = Sent(Front(w), s) /\ Sent(Front(w)', s) = n + 1
        /\ \A v \in Worker, t \in Agtr :
             /\ Sent(Front(v), t) \in Nat /\ Sent(Front(v)', t) \in Nat
             /\ Sent(Front(v), t) <= Sent(Front(v)', t)
    BY <1>pick, ClientPart, ClientPartInv, TxAssembleClient
  <1>4. /\ m \in Packet /\ m # NoPacket /\ m.worker = w /\ m.agtr = s /\ m.round = n
        /\ m.key = k /\ m.cmd = j.cmd
    <2>1. m \in Packet
      BY <1>pick, <1>3 DEF Packet
    <2>2. m # NoPacket
      <3>1. "key" \in DOMAIN m /\ "key" \notin DOMAIN NoPacket
        BY <1>pick DEF NoPacket
      <3> QED BY <3>1
    <2> QED BY <1>pick, <2>1, <2>2
  <1>5. ASSUME NEW x \in Packet, Genuine(x) PROVE Genuine(x)'
    BY <1>3, <1>5 DEF Genuine, Packet
  <1>6. PacketInv'
    BY <1>1, <1>2, <1>5 DEF IndInv, PacketInv
  <1>7. TxInv'
    <2> SUFFICES ASSUME NEW v \in Worker, NEW x, x = txpkt'[v], x # NoPacket
                 PROVE  x.worker = v /\ Genuine(x)' /\ x \notin toPS
      BY <1>2 DEF TxInv, Genuine, Front
    <2>1. CASE v = w
      <3>1. x = m
        BY <1>1, <1>2, <2>1
      <3>2. Genuine(x)'
        <4>1. x.worker = w /\ x.agtr = s /\ x.round = n /\ x.key = k /\ x.cmd = j.cmd
          BY <1>4, <3>1
        <4>2. x.round < Sent(Front(x.worker)', x.agtr)
          BY <1>3, <4>1
        <4>3. x.key = KeyAt(x.agtr, x.round) /\ x.cmd = CmdOf(Position(x.agtr, x.round))
          BY <1>3, <4>1
        <4> QED BY <4>2, <4>3 DEF Genuine
      <3>3. m \notin toPS
        <4> SUFFICES ASSUME m \in toPS PROVE FALSE
          OBVIOUS
        <4>1. n < Sent(Front(w), s)
          BY <1>4 DEF IndInv, PacketInv, Genuine
        <4> QED BY <1>3, <4>1
      <3> QED BY <1>4, <2>1, <3>1, <3>2, <3>3
    <2>2. CASE v # w
      <3>1. x = txpkt[v] /\ x \in Packet
        BY <1>1, <1>2, <2>2
      <3>2. x.worker = v /\ Genuine(x) /\ x \notin toPS
        BY <3>1 DEF IndInv, TxInv
      <3> QED BY <1>5, <3>1, <3>2
    <2> QED BY <2>1, <2>2
  <1>8. ServerInv'
    <2> SUFFICES ASSUME NEW t \in Agtr, NEW v \in counted[t]
                 PROVE  /\ roundNumbers[t] < Sent(Front(v)', t)
                        /\ txpkt'[v] # NoPacket =>
                             ~(txpkt'[v].agtr = t /\ txpkt'[v].round = roundNumbers[t])
      BY <1>2 DEF IndInv, ServerInv
    <2>1. v \in Worker /\ roundNumbers[t] \in Nat
      BY <1>1, AgtrInSlots
    <2>2. /\ roundNumbers[t] < Sent(Front(v), t)
          /\ txpkt[v] # NoPacket =>
               ~(txpkt[v].agtr = t /\ txpkt[v].round = roundNumbers[t])
      BY DEF IndInv, ServerInv
    <2>3. roundNumbers[t] < Sent(Front(v)', t)
      BY <1>3, <2>1, <2>2
    <2>4. txpkt'[v] # NoPacket =>
            ~(txpkt'[v].agtr = t /\ txpkt'[v].round = roundNumbers[t])
      <3>1. CASE v = w
        BY <1>1, <1>2, <1>3, <1>4, <2>1, <2>2, <3>1
      <3>2. CASE v # w
        BY <1>1, <1>2, <2>1, <2>2, <3>2
      <3> QED BY <3>1, <3>2
    <2> QED BY <2>3, <2>4
  <1>9. ReplyInv'
    <2> SUFFICES ASSUME NEW p \in toWorker
                 PROVE  /\ p[2].key = KeyAt(p[2].agtr, p[2].round)
                        /\ p[2].cmd = TENSOR_COMM => p[2].data = FullSum(p[2].key)
                        /\ \A v \in Worker : p[2].round < Sent(Front(v)', p[2].agtr)
      BY <1>2 DEF ReplyInv
    <2>1. p[2].agtr \in Agtr /\ p[2].round \in Nat
      BY <1>1 DEF ReplyPacket
    <2>2. /\ p[2].key = KeyAt(p[2].agtr, p[2].round)
          /\ p[2].cmd = TENSOR_COMM => p[2].data = FullSum(p[2].key)
          /\ \A v \in Worker : p[2].round < Sent(Front(v), p[2].agtr)
      BY DEF IndInv, ReplyInv
    <2> QED BY <1>3, <2>1, <2>2
  <1>10. BufferLocalOrFullSum'
    BY <1>2 DEF IndInv, BufferLocalOrFullSum
  <1> QED BY <1>3, <1>6, <1>7, <1>8, <1>9, <1>10 DEF IndInv, ClientInv

LEMMA FrontFrame ==
  ASSUME UNCHANGED <<dpdkKey, pushpulljobQueue>>
  PROVE  \A m : Genuine(m) => Genuine(m)'
  BY FrontSame DEF Genuine

LEMMA SendIndInv ==
  ASSUME TypeOK, IndInv, NEW w \in Worker, Send(w)
  PROVE  IndInv'
  <1> USE DEF pushVars, slotVars, partVars, psVars
  <1>1. /\ txpkt \in [Worker -> Packet \cup {NoPacket}]
        /\ toPS \subseteq Packet
    BY DEF TypeOK, ThreadTypes, NetworkTypes
  <1>2. /\ txpkt[w] # NoPacket
        /\ txpkt' = [txpkt EXCEPT ![w] = NoPacket]
        /\ toPS' = toPS \cup {txpkt[w]}
        /\ UNCHANGED <<pushed, pushing, dpdkKey, pushpulljobQueue, slotVars, cpubuff_table,
                       toWorker, psVars, counted>>
    BY DEF Send, TxBurst
  <1>3. \A v : Front(v)' = Front(v)
    BY <1>2, FrontSame
  <1>4. PushInv' /\ QueueInv' /\ SlotInv'
    BY <1>2, <1>3, FrontSame DEF IndInv, SlotInv, PushInv
  <1>5. /\ txpkt[w] \in Packet /\ txpkt[w].worker = w
        /\ Genuine(txpkt[w]) /\ txpkt[w] \notin toPS
    BY <1>1, <1>2 DEF IndInv, TxInv
  <1>6. PacketInv'
    BY <1>2, <1>5, FrontFrame DEF IndInv, PacketInv
  <1>7. TxInv'
    <2> SUFFICES ASSUME NEW v \in Worker, NEW x, x = txpkt'[v], x # NoPacket
                 PROVE  x.worker = v /\ Genuine(x)' /\ x \notin toPS'
      BY DEF TxInv, Genuine, Front
    <2>1. v # w /\ x = txpkt[v]
      BY <1>1, <1>2
    <2>2. x.worker = v /\ Genuine(x) /\ x \notin toPS
      BY <2>1 DEF IndInv, TxInv
    <2>3. Genuine(x)'
      BY <1>2, <2>2, FrontFrame
    <2> QED BY <1>2, <1>5, <2>1, <2>2, <2>3
  <1>8. ServerInv'
    <2> SUFFICES ASSUME NEW t \in Agtr, NEW v \in counted[t]
                 PROVE  /\ \A x \in toPS' :
                             ~(x.worker = v /\ x.agtr = t /\ x.round = roundNumbers[t])
                        /\ txpkt'[v] # NoPacket =>
                             ~(txpkt'[v].agtr = t /\ txpkt'[v].round = roundNumbers[t])
      BY <1>2, <1>3 DEF IndInv, ServerInv
    <2>1. v \in Worker
      BY AgtrInSlots DEF TypeOK, ServerTypes
    <2>2. /\ \A x \in toPS :
               ~(x.worker = v /\ x.agtr = t /\ x.round = roundNumbers[t])
          /\ txpkt[v] # NoPacket =>
               ~(txpkt[v].agtr = t /\ txpkt[v].round = roundNumbers[t])
      BY DEF IndInv, ServerInv
    <2> QED BY <1>1, <1>2, <1>5, <2>1, <2>2
  <1>9. ReplyInv' /\ BufferLocalOrFullSum'
    BY <1>2, <1>3 DEF IndInv, ReplyInv, BufferLocalOrFullSum
  <1> QED BY <1>4, <1>6, <1>7, <1>8, <1>9 DEF IndInv

LEMMA ResetSlotIndInv ==
  ASSUME TypeOK, IndInv, NEW w \in Worker, ResetSlot(w),
         UNCHANGED <<toPS, toWorker, psVars, counted>>
  PROVE  IndInv'
  <1> USE DEF pushVars, psVars
  <1>1. UNCHANGED <<dpdkKey, pushpulljobQueue, cpubuff_table, txpkt, toPS, toWorker, psVars,
                    counted>>
    BY DEF ResetSlot
  <1>2. ClientInv'
    BY ClientPart, ClientPartInv, ResetSlotClient
  <1>3. PacketInv' /\ TxInv'
    BY <1>1 DEF IndInv, PacketInv, TxInv, Genuine, Front
  <1>4. ServerInv' /\ ReplyInv' /\ BufferLocalOrFullSum'
    BY <1>1 DEF IndInv, ServerInv, ReplyInv, BufferLocalOrFullSum, Front
  <1> QED BY <1>2, <1>3, <1>4, ClientPartInv DEF IndInv, ClientInv

LEMMA WorkerReceiveIndInv ==
  ASSUME TypeOK, IndInv, NEW p \in toWorker, WorkerReceive(p[1], p[2])
  PROVE  IndInv'
  <1> USE DEF pushVars, slotVars, psVars
  <1> DEFINE w == p[1]
             r == p[2]
  <1>1. /\ UNCHANGED <<pushed, pushing, dpdkKey, pushpulljobQueue, txpkt, toPS, psVars,
                       counted>>
        /\ toWorker' \subseteq toWorker
    BY DEF WorkerReceive, RxPacket
  <1>2. w \in Worker /\ r \in ReplyPacket
    BY DEF TypeOK, NetworkTypes
  <1>3. r.agtr \in Agtr /\ r.key \in Key
    BY <1>2 DEF ReplyPacket
  <1>4. SlotInv'
    <2>1. CASE Expected(w, r)
      <3>1. FreeSlot(w, r.agtr)
        BY <2>1 DEF WorkerReceive, RxPacket
      <3>2. ~slot_ready[w][r.agtr]
        BY <2>1, AwaitedWhenExpected DEF IndInv
      <3> QED BY <1>1, <1>2, <1>3, <3>1, <3>2, FreeSlotInv DEF IndInv, TypeOK
    <2>2. CASE ~Expected(w, r)
      BY <1>1, <2>2 DEF WorkerReceive, RxPacket, IndInv, SlotInv, Front
    <2> QED BY <2>1, <2>2
  <1>5. BufferLocalOrFullSum'
    <2>1. CASE Expected(w, r)
      <3> DEFINE d == IF r.cmd = TENSOR_COMM /\ ~NO_CPUBUFF_COPY
                        THEN r.data ELSE cpubuff_table[w][r.key]
      <3>1. cpubuff_table' = [cpubuff_table EXCEPT ![w][r.key] = d]
        BY <2>1 DEF WorkerReceive, RxPacket
      <3>2. d \in {NoVector, Gradient(w, r.key), FullSum(r.key)}
        BY <1>2, <1>3 DEF IndInv, ReplyInv, BufferLocalOrFullSum
      <3>3. cpubuff_table \in [Worker -> [Key -> Vector]]
        BY DEF TypeOK, ThreadTypes
      <3> HIDE DEF d
      <3> QED BY <1>2, <1>3, <3>1, <3>2, <3>3 DEF IndInv, BufferLocalOrFullSum
    <2>2. CASE ~Expected(w, r)
      BY <2>2 DEF WorkerReceive, RxPacket, IndInv, BufferLocalOrFullSum
    <2> QED BY <2>1, <2>2
  <1>6. QueueInv' /\ PacketInv' /\ TxInv'
    BY <1>1 DEF IndInv, QueueInv, PacketInv, TxInv, Genuine, Front
  <1>7. ServerInv'
    BY <1>1, FrontSame DEF IndInv, ServerInv
  <1>8. ReplyInv' /\ PushInv'
    BY <1>1, FrontSame DEF IndInv, ReplyInv, PushInv
  <1> QED BY <1>4, <1>5, <1>6, <1>7, <1>8 DEF IndInv


\* A packet that is not stale is the first of its sender in its round: the
\* count never meets a full slot, and the sum gains exactly one gradient.
LEMMA NewlyCounted ==
  ASSUME TypeOK, IndInv, NEW m \in toPS, ~Stale(m)
  PROVE  LET s   == m.agtr
             old == IF Newer(m) THEN {} ELSE counted[s]
             now == old \cup {m.worker}
         IN  /\ now \subseteq Worker /\ m.worker \notin old
             /\ CountAfter(m) = Cardinality(now)
             /\ CountAfter(m) = 1 <=> old = {}
             /\ m.cmd = TENSOR_COMM => DataAfter(m) = PartialSum(now, m.key)
  <1> DEFINE s   == m.agtr
             old == IF Newer(m) THEN {} ELSE counted[s]
             now == old \cup {m.worker}
  <1>1. m \in Packet
    BY DEF TypeOK, NetworkTypes
  <1>2. s \in Agtr /\ s \in Slots /\ m.worker \in Worker /\ m.round \in Nat
    BY <1>1, AgtrInSlots DEF Packet
  <1>3. /\ roundNumbers[s] \in Nat /\ receive_count[s] \in 0 .. NUM_WORKER
        /\ counted[s] \subseteq Worker
    BY <1>2 DEF TypeOK, ServerTypes
  <1>4. old \subseteq Worker /\ IsFiniteSet(old) /\ Cardinality(old) \in Nat
    <2>1. old \subseteq Worker
      BY <1>3
    <2> QED BY <2>1, WorkerAssumption, FS_Subset, FS_CardinalityType
  <1>5. ~Newer(m) => m.round = roundNumbers[s]
    BY <1>2, <1>3 DEF Stale, Newer
  <1>6. m.worker \notin old
    BY <1>2, <1>5 DEF IndInv, ServerInv
  <1>7. Cardinality(now) = Cardinality(old) + 1
    BY <1>4, <1>6, FS_AddElement
  <1>8. CountAfter(m) = Cardinality(old) + 1
    <2>1. CASE Newer(m)
      BY <2>1, FS_EmptySet DEF CountAfter
    <2>2. CASE ~Newer(m)
      <3>1. receive_count[s] = Cardinality(old)
        BY <1>2, <2>2 DEF IndInv, ServerInv
      <3>2. receive_count[s] # NUM_WORKER
        <4> SUFFICES ASSUME receive_count[s] = NUM_WORKER PROVE FALSE
          OBVIOUS
        <4>1. old = Worker
          BY <1>4, <3>1, WorkerAssumption, FS_Subset DEF NUM_WORKER
        <4> QED BY <1>2, <1>6, <4>1
      <3> QED BY <2>2, <3>1, <3>2 DEF CountAfter
    <2> QED BY <2>1, <2>2
  <1>9. CountAfter(m) = 1 <=> old = {}
    <2>1. Cardinality(old) = 0 <=> old = {}
      BY <1>4, FS_EmptySet
    <2> QED BY <1>4, <1>8, <2>1
  <1>10. ASSUME m.cmd = TENSOR_COMM PROVE DataAfter(m) = PartialSum(now, m.key)
    <2>1. CASE old = {}
      <3>1. now = {m.worker}
        BY <2>1
      <3>2. DataAfter(m) = [w \in Worker |-> IF w = m.worker THEN <<m.key>> ELSE << >>]
        BY <1>9, <1>10, <2>1 DEF DataAfter, process_data
      <3> QED BY <3>1, <3>2 DEF PartialSum
    <2>2. CASE old # {}
      <3>1. m.round = roundNumbers[s] /\ old = counted[s]
        BY <1>5, <2>2
      <3>2. Genuine(m)
        BY DEF IndInv, PacketInv
      <3>3. data_slots[s] = PartialSum(old, m.key)
        BY <1>2, <1>10, <2>2, <3>1, <3>2 DEF IndInv, ServerInv, Genuine
      <3>4. DataAfter(m) = [data_slots[s] EXCEPT ![m.worker] = Append(@, m.key)]
        BY <1>9, <1>10, <2>2 DEF DataAfter, process_data
      <3>5. PartialSum(old, m.key)[m.worker] = << >>
        BY <1>2, <1>6 DEF PartialSum
      <3>6. Append(<< >>, m.key) = <<m.key>>
        OBVIOUS
      <3>7. DataAfter(m) = [PartialSum(old, m.key) EXCEPT ![m.worker] = <<m.key>>]
        BY <3>3, <3>4, <3>5, <3>6
      <3> QED BY <1>2, <3>7 DEF PartialSum
    <2> QED BY <2>1, <2>2
  <1> QED BY <1>2, <1>4, <1>6, <1>7, <1>8, <1>9, <1>10

LEMMA ServerReceiveIndInv ==
  ASSUME TypeOK, IndInv, NEW m \in toPS, ServerReceive(m)
  PROVE  IndInv'
  <1> USE DEF clientVars, pushVars, slotVars, psVars
  <1> DEFINE s   == m.agtr
             old == IF Newer(m) THEN {} ELSE counted[s]
             now == old \cup {m.worker}
  <1>1. /\ UNCHANGED <<pushed, pushing, dpdkKey, pushpulljobQueue, slotVars, cpubuff_table, txpkt>>
        /\ toPS' = toPS \ {m}
        /\ toWorker' = IF Completes(m) THEN toWorker \cup (Worker \X {Reply(m)}) ELSE toWorker
        /\ counted' = IF Stale(m) THEN counted
                      ELSE [counted EXCEPT ![s] =
                              IF CountAfter(m) = 1 THEN {m.worker} ELSE @ \cup {m.worker}]
        /\ PsReceive(m)
    BY DEF ServerReceive
  <1>2. m \in Packet /\ Genuine(m) /\ toPS \subseteq Packet
    BY DEF TypeOK, NetworkTypes, IndInv, PacketInv
  <1>3. /\ s \in Agtr /\ s \in Slots /\ m.worker \in Worker /\ m.round \in Nat
        /\ m.key = KeyAt(s, m.round) /\ m.cmd = CmdOf(Position(s, m.round))
        /\ m.round < Sent(Front(m.worker), s)
    BY <1>2, AgtrInSlots DEF Packet, Genuine
  <1>4. \A v : Front(v)' = Front(v)
    BY <1>1, FrontSame
  <1>5. PushInv' /\ QueueInv' /\ SlotInv' /\ BufferLocalOrFullSum'
    BY <1>1, <1>4, FrontSame DEF IndInv, PushInv, SlotInv, BufferLocalOrFullSum
  <1>6. PacketInv' /\ TxInv'
    BY <1>1 DEF IndInv, PacketInv, TxInv, Genuine, Front
  <1>7. CASE Stale(m)
    <2>1. UNCHANGED <<psVars, toWorker, counted>>
      BY <1>1, <1>7 DEF PsReceive, Completes
    <2>2. ServerInv'
      BY <1>1, <1>4, <2>1 DEF IndInv, ServerInv
    <2>3. ReplyInv'
      BY <1>4, <2>1 DEF IndInv, ReplyInv
    <2> QED BY <1>5, <1>6, <2>2, <2>3 DEF IndInv
  <1>8. CASE ~Stale(m)
    <2>1. /\ roundNumbers'  = [roundNumbers  EXCEPT ![s] = m.round]
          /\ receive_count' = [receive_count EXCEPT ![s] = CountAfter(m)]
          /\ data_slots'    = [data_slots    EXCEPT ![s] = DataAfter(m)]
      BY <1>1, <1>8 DEF PsReceive
    <2>2. /\ roundNumbers  \in [Slots -> Nat]
          /\ receive_count \in [Slots -> 0 .. NUM_WORKER]
          /\ data_slots    \in [Slots -> Vector]
          /\ counted       \in [Slots -> SUBSET Worker]
      BY DEF TypeOK, ServerTypes
    <2>3. /\ now \subseteq Worker /\ m.worker \notin old
          /\ CountAfter(m) = Cardinality(now)
          /\ CountAfter(m) = 1 <=> old = {}
          /\ m.cmd = TENSOR_COMM => DataAfter(m) = PartialSum(now, m.key)
      BY <1>8, NewlyCounted
    <2>4. /\ roundNumbers'[s] = m.round /\ receive_count'[s] = CountAfter(m)
          /\ data_slots'[s] = DataAfter(m)
      BY <1>3, <2>1, <2>2
    <2>5. counted'[s] = now
      BY <1>1, <1>3, <1>8, <2>2, <2>3
    <2>6. \A t \in Agtr : t # s => /\ roundNumbers'[t] = roundNumbers[t]
                                   /\ receive_count'[t] = receive_count[t]
                                   /\ data_slots'[t] = data_slots[t]
                                   /\ counted'[t] = counted[t]
      BY <1>1, <1>3, <1>8, <2>1, <2>2, AgtrInSlots
    <2>7. ~Newer(m) => m.round = roundNumbers[s]
      BY <1>3, <1>8, <2>2 DEF Stale, Newer
    <2>8. \A w \in now : m.round < Sent(Front(w), s)
      <3>1. \A w \in old : m.round < Sent(Front(w), s)
        BY <1>3, <2>7 DEF IndInv, ServerInv
      <3> QED BY <1>3, <3>1
    \* no second packet of a counted worker is under way
    <2>9. ASSUME NEW w \in now
          PROVE  /\ \A x \in toPS \ {m} :
                      ~(x.worker = w /\ x.agtr = s /\ x.round = m.round)
                 /\ txpkt[w] # NoPacket =>
                      ~(txpkt[w].agtr = s /\ txpkt[w].round = m.round)
      <3>1. CASE w = m.worker
        <4>1. ASSUME NEW x \in toPS, x.worker = w, x.agtr = s, x.round = m.round
              PROVE  x = m
          BY <1>2, <3>1, <4>1, SamePacket DEF IndInv, PacketInv
        <4>2. ASSUME txpkt[w] # NoPacket, txpkt[w].agtr = s, txpkt[w].round = m.round
              PROVE  FALSE
          <5>1. /\ txpkt[w] \in Packet /\ txpkt[w].worker = w
                /\ Genuine(txpkt[w]) /\ txpkt[w] \notin toPS
            BY <2>3, <4>2 DEF IndInv, TxInv, TypeOK, ThreadTypes
          <5>2. txpkt[w] = m
            BY <1>2, <3>1, <4>2, <5>1, SamePacket
          <5> QED BY <5>1, <5>2
        <4> QED BY <4>1, <4>2
      <3>2. CASE w # m.worker
        <4>1. ~Newer(m) /\ w \in counted[s]
          BY <3>2
        <4> QED BY <1>3, <2>7, <4>1 DEF IndInv, ServerInv
      <3> QED BY <3>1, <3>2
    <2> HIDE DEF now, old
    <2>10. ServerInv'
      <3> SUFFICES ASSUME NEW t \in Agtr
                   PROVE  /\ receive_count'[t] = Cardinality(counted'[t])
                          /\ counted'[t] # {}
                               /\ CmdOf(Position(t, roundNumbers'[t])) = TENSOR_COMM =>
                               data_slots'[t] =
                                 PartialSum(counted'[t], KeyAt(t, roundNumbers'[t]))
                          /\ \A w \in counted'[t] :
                               /\ roundNumbers'[t] < Sent(Front(w), t)
                               /\ \A x \in toPS' :
                                    ~(x.worker = w /\ x.agtr = t /\ x.round = roundNumbers'[t])
                               /\ txpkt[w] # NoPacket =>
                                    ~(txpkt[w].agtr = t /\ txpkt[w].round = roundNumbers'[t])
        BY <1>1, <1>4 DEF ServerInv
      <3>1. CASE t = s
        BY <1>1, <1>3, <2>3, <2>4, <2>5, <2>8, <2>9, <3>1
      <3>2. CASE t # s
        <4>1. /\ receive_count[t] = Cardinality(counted[t])
              /\ counted[t] # {} /\ CmdOf(Position(t, roundNumbers[t])) = TENSOR_COMM =>
                   data_slots[t] = PartialSum(counted[t], KeyAt(t, roundNumbers[t]))
              /\ \A w \in counted[t] :
                   /\ roundNumbers[t] < Sent(Front(w), t)
                   /\ \A x \in toPS :
                        ~(x.worker = w /\ x.agtr = t /\ x.round = roundNumbers[t])
                   /\ txpkt[w] # NoPacket =>
                        ~(txpkt[w].agtr = t /\ txpkt[w].round = roundNumbers[t])
          BY DEF IndInv, ServerInv
        <4> QED BY <1>1, <2>6, <3>2, <4>1
      <3> QED BY <3>1, <3>2
    <2>11. ReplyInv'
      <3>1. ASSUME NEW p \in toWorker
            PROVE  /\ p[2].key = KeyAt(p[2].agtr, p[2].round)
                   /\ p[2].cmd = TENSOR_COMM => p[2].data = FullSum(p[2].key)
                   /\ \A w \in Worker : p[2].round < Sent(Front(w), p[2].agtr)
        BY DEF IndInv, ReplyInv
      <3>2. ASSUME Completes(m), NEW p \in Worker \X {Reply(m)}
            PROVE  /\ p[2].key = KeyAt(p[2].agtr, p[2].round)
                   /\ p[2].cmd = TENSOR_COMM => p[2].data = FullSum(p[2].key)
                   /\ \A w \in Worker : p[2].round < Sent(Front(w), p[2].agtr)
        <4>1. /\ p[2].agtr = s /\ p[2].round = m.round /\ p[2].key = m.key
              /\ p[2].cmd = m.cmd /\ p[2].data = DataAfter(m)
          BY DEF Reply
        <4>2. now = Worker
          <5>1. Cardinality(now) = Cardinality(Worker)
            BY <2>3, <3>2 DEF Completes, NUM_WORKER
          <5> QED BY <2>3, <5>1, WorkerAssumption, FS_Subset
        <4>3. m.cmd = TENSOR_COMM => DataAfter(m) = FullSum(m.key)
          BY <2>3, <4>2 DEF FullSum, PartialSum
        <4> QED BY <1>3, <2>8, <4>1, <4>2, <4>3
      <3>3. \A p \in toWorker' : p \in toWorker \/ (Completes(m) /\ p \in Worker \X {Reply(m)})
        BY <1>1
      <3> QED BY <1>4, <3>1, <3>2, <3>3 DEF ReplyInv
    <2> QED BY <1>5, <1>6, <2>10, <2>11 DEF IndInv
  <1> QED BY <1>7, <1>8

-----------------------------------------------------------------------------
(* The theorems.                                                           *)

LEMMA NextIndInv == TypeOK /\ IndInv /\ [Next]_vars => IndInv'
  <1> SUFFICES ASSUME TypeOK, IndInv, [Next]_vars PROVE IndInv'
    OBVIOUS
  <1>1. ASSUME NEW w \in Worker, Client(w) PROVE IndInv'
    <2>1. UNCHANGED <<toPS, toWorker, psVars, counted>>
      BY <1>1 DEF Client
    <2>0. CASE PushStart(w)
      BY <2>0, <2>1, PushStartIndInv
    <2>2. CASE ResetBegin(w) \/ PollFinishKey(w)
      <3>1. UNCHANGED <<pushed, pushing, dpdkKey, pushpulljobQueue, slotVars, cpubuff_table,
                        txpkt>>
        BY <2>2 DEF ResetBegin, PollFinishKey, pushVars
      <3>2. PushInv'
        BY <3>1 DEF IndInv, PushInv
      <3> QED BY <2>1, <3>1, <3>2, FrameIndInv
    <2>3. CASE PushJob(w)
      BY <2>1, <2>3, PushJobIndInv
    <2>4. CASE TxAssemble(w)
      BY <2>1, <2>4, TxAssembleIndInv
    <2>5. CASE ResetSlot(w)
      BY <2>1, <2>5, ResetSlotIndInv
    <2> QED BY <1>1, <2>0, <2>2, <2>3, <2>4, <2>5 DEF Client
  <1>2. ASSUME NEW w \in Worker, Send(w) PROVE IndInv'
    BY <1>2, SendIndInv
  <1>3. ASSUME NEW m \in toPS, ServerReceive(m) PROVE IndInv'
    BY <1>3, ServerReceiveIndInv
  <1>4. ASSUME NEW p \in toWorker, WorkerReceive(p[1], p[2]) PROVE IndInv'
    BY <1>4, WorkerReceiveIndInv
  <1>5. CASE UNCHANGED vars
    <2>1. PushInv'
      BY <1>5 DEF IndInv, PushInv, vars, clientVars, pushVars
    <2> QED BY <1>5, <2>1, FrameIndInv DEF vars, clientVars, pushVars
  <1> QED BY <1>1, <1>2, <1>3, <1>4, <1>5 DEF Next

\* IndInv holds in every reachable state.
THEOREM Inductive == Spec => []IndInv
  <1>1. Init => TypeOK /\ IndInv
    BY InitTypeOK, InitIndInv
  <1>2. TypeOK /\ IndInv /\ [Next]_vars => TypeOK' /\ IndInv'
    BY NextTypeOK, NextIndInv
  <1> QED BY <1>1, <1>2, PTL DEF Spec

LEMMA OneKeyPerRound == IndInv => SameRoundSameKey
  <1> SUFFICES ASSUME IndInv, NEW m1 \in InFlight, NEW m2 \in InFlight,
                      m1.agtr = m2.agtr, m1.round = m2.round
               PROVE  m1.key = m2.key /\ m1.cmd = m2.cmd
    BY DEF SameRoundSameKey
  <1>1. \A m \in InFlight : /\ m.key = KeyAt(m.agtr, m.round)
                            /\ m.cmd = CmdOf(Position(m.agtr, m.round))
    BY DEF InFlight, IndInv, PacketInv, TxInv, Genuine
  <1> QED BY <1>1

\* The server's sum of a round never mixes keys: DPDKManager and RxThread of
\* the server keep SameRoundSameKey through every pattern of timeouts, lost
\* and late packets.
THEOREM RoundsAgreeOnKeys == Spec => []SameRoundSameKey
  BY Inductive, OneKeyPerRound, PTL

LEMMA RepliesComplete == IndInv => ReplyIsFullSum
  BY DEF IndInv, ReplyInv, ReplyIsFullSum

\* broadcast_packet never sends a sum that lacks a worker's gradient, counts
\* one twice or keeps something of an abandoned round.
THEOREM RepliesAreFullSums == Spec => []ReplyIsFullSum
  BY Inductive, RepliesComplete, PTL

LEMMA RepliesAwaited == TypeOK /\ IndInv => AcceptedReplyIsAwaited
  BY AwaitedWhenExpected DEF IndInv, AcceptedReplyIsAwaited

\* The round test alone is enough for the client's RxThread: a reply it
\* accepts is the answer to the packet that occupies the slot.
THEOREM AcceptedRepliesAwaited == Spec => []AcceptedReplyIsAwaited
  BY TypeCorrect, Inductive, RepliesAwaited, PTL

\* No buffer is ever partly aggregated, timeouts included.
THEOREM BuffersLocalOrFull == Spec => []BufferLocalOrFullSum
  <1>1. IndInv => BufferLocalOrFullSum
    BY DEF IndInv
  <1> QED BY <1>1, Inductive, PTL

LEMMA RoundStep ==
  ASSUME TypeOK, IndInv, [Next]_vars, NEW v \in Worker, NEW t \in Agtr,
         slot_roundnum'[v][t] # slot_roundnum[v][t]
  PROVE  /\ slot_roundnum'[v][t] = slot_roundnum[v][t] + 1
         /\ ~slot_ready[v][t] /\ slot_ready'[v][t]
  <1>1. /\ slot_roundnum \in [Worker -> [Agtr -> Nat]]
        /\ slot_ready    \in [Worker -> [Agtr -> BOOLEAN]]
    BY DEF TypeOK, SlotTypes
  <1>2. ASSUME NEW w \in Worker, NEW s \in Agtr, FreeSlot(w, s), ~slot_ready[w][s]
        PROVE  /\ slot_roundnum'[v][t] = slot_roundnum[v][t] + 1
               /\ ~slot_ready[v][t] /\ slot_ready'[v][t]
    <2>1. CASE v = w /\ t = s
      BY <1>1, <1>2, <2>1 DEF FreeSlot
    <2>2. CASE ~(v = w /\ t = s)
      <3>1. slot_roundnum'[v][t] = slot_roundnum[v][t]
        BY <1>1, <1>2, <2>2 DEF FreeSlot
      <3> QED BY <3>1
    <2> QED BY <2>1, <2>2
  <1>3. CASE UNCHANGED slot_roundnum
    BY <1>3
  <1>4. ASSUME NEW w \in Worker, ResetSlot(w), ~UNCHANGED slot_roundnum
        PROVE  \E s \in Agtr : FreeSlot(w, s) /\ ~slot_ready[w][s]
    <2>1. resetting[w] \in Agtr
      BY <1>4 DEF TypeOK, ThreadTypes, ResetSlot, QueueUnlocked
    <2> QED BY <1>4, <2>1 DEF ResetSlot, slotVars
  <1>5. ASSUME NEW p \in toWorker, WorkerReceive(p[1], p[2]), ~UNCHANGED slot_roundnum
        PROVE  \E w \in Worker, s \in Agtr : FreeSlot(w, s) /\ ~slot_ready[w][s]
    <2>1. p[1] \in Worker /\ p[2].agtr \in Agtr
      BY DEF TypeOK, NetworkTypes, ReplyPacket
    <2>2. Expected(p[1], p[2]) /\ FreeSlot(p[1], p[2].agtr)
      BY <1>5 DEF WorkerReceive, RxPacket, slotVars
    <2> QED BY <2>1, <2>2, AwaitedWhenExpected DEF IndInv
  <1>6. ASSUME NEW w \in Worker, Client(w) \/ Send(w), ~ResetSlot(w)
        PROVE  UNCHANGED slot_roundnum
    BY <1>6 DEF Client, Send, PushStart, DPDKPushPull, PushJob, TxAssemble, TxBurst, ResetBegin,
                PollFinishKey, slotVars
  <1>7. ASSUME NEW m \in toPS, ServerReceive(m) PROVE UNCHANGED slot_roundnum
    BY <1>7 DEF ServerReceive, clientVars, slotVars
  <1>8. CASE UNCHANGED vars
    BY <1>3, <1>8 DEF vars, clientVars, slotVars
  <1> QED BY <1>2, <1>3, <1>4, <1>5, <1>6, <1>7, <1>8 DEF Next

\* RxThread and Reset both advance the round of a slot, and RxThread does not
\* look at slot_ready: still the round never advances without a packet.
THEOREM RoundsAdvanceWithSlots == Spec => RoundAdvancesWithSlot
  <1>1. TypeOK /\ IndInv /\ [Next]_vars =>
          [\A w \in Worker, s \in Agtr :
             slot_roundnum'[w][s] # slot_roundnum[w][s] =>
               /\ slot_roundnum'[w][s] = slot_roundnum[w][s] + 1
               /\ ~slot_ready[w][s] /\ slot_ready'[w][s]]_vars
    BY RoundStep
  <1> QED BY <1>1, TypeCorrect, Inductive, PTL DEF Spec, RoundAdvancesWithSlot

-----------------------------------------------------------------------------
(* A round is answered once.                                               *)

\* Nothing of a round that was answered is still to be counted.
LEMMA NeverAnswered ==
  ASSUME TypeOK, IndInv, AnsweredInv, NEW m \in toPS, ~Stale(m), NEW p \in toWorker,
         p[2].agtr = m.agtr
  PROVE  p[2].round < m.round
  <1>1. m \in Packet /\ p[2] \in ReplyPacket
    BY DEF TypeOK, NetworkTypes
  <1>2. /\ m.agtr \in Agtr /\ m.agtr \in Slots /\ m.round \in Nat /\ m.worker \in Worker
        /\ p[2].round \in Nat
    BY <1>1, AgtrInSlots DEF Packet, ReplyPacket
  <1>3. roundNumbers[m.agtr] \in Nat
    BY <1>2 DEF TypeOK, ServerTypes
  <1>4. p[2].round <= roundNumbers[m.agtr] /\ roundNumbers[m.agtr] <= m.round
    BY <1>2, <1>3 DEF AnsweredInv, Stale
  <1>5. ASSUME p[2].round = m.round PROVE FALSE
    <2>1. p[2].round = roundNumbers[m.agtr]
      BY <1>2, <1>3, <1>4, <1>5
    <2>2. counted[m.agtr] = Worker
      BY <2>1 DEF AnsweredInv
    <2> QED BY <1>2, <1>5, <2>1, <2>2 DEF IndInv, ServerInv
  <1> QED BY <1>2, <1>3, <1>4, <1>5

LEMMA ServerReceiveAnswered ==
  ASSUME TypeOK, IndInv, AnsweredInv, NEW m \in toPS, ServerReceive(m)
  PROVE  AnsweredInv'
  <1> DEFINE s   == m.agtr
             old == IF Newer(m) THEN {} ELSE counted[s]
             now == old \cup {m.worker}
  <1>1. m \in Packet /\ toWorker \subseteq Worker \X ReplyPacket
    BY DEF TypeOK, NetworkTypes
  <1>2. s \in Agtr /\ s \in Slots /\ m.round \in Nat /\ m.worker \in Worker
    BY <1>1, AgtrInSlots DEF Packet
  <1>3. CASE Stale(m)
    BY <1>3 DEF ServerReceive, PsReceive, psVars, Completes, AnsweredInv
  <1>4. CASE ~Stale(m)
    <2>1. roundNumbers \in [Slots -> Nat] /\ counted \in [Slots -> SUBSET Worker]
      BY DEF TypeOK, ServerTypes
    <2>2. roundNumbers' = [roundNumbers EXCEPT ![s] = m.round]
      BY <1>4 DEF ServerReceive, PsReceive
    <2>3. counted' = [counted EXCEPT ![s] = now]
      <3>1. CountAfter(m) = 1 <=> old = {}
        BY <1>4, NewlyCounted
      <3>2. counted' = [counted EXCEPT ![s] =
                          IF CountAfter(m) = 1 THEN {m.worker} ELSE @ \cup {m.worker}]
        BY <1>4 DEF ServerReceive
      <3>3. CASE Newer(m)
        BY <3>1, <3>2, <3>3
      <3>4. CASE ~Newer(m)
        BY <3>1, <3>2, <3>4
      <3> QED BY <3>3, <3>4
    <2> SUFFICES ASSUME NEW p \in toWorker'
                 PROVE  /\ p[2].round <= roundNumbers'[p[2].agtr]
                        /\ p[2].round = roundNumbers'[p[2].agtr] => counted'[p[2].agtr] = Worker
      BY DEF AnsweredInv
    <2>4. CASE p \in toWorker
      <3>1. p[2].agtr \in Agtr /\ p[2].agtr \in Slots /\ p[2].round \in Nat
        BY <1>1, <2>4, AgtrInSlots DEF ReplyPacket
      <3>2. CASE p[2].agtr = s
        <4>1. p[2].round < m.round
          BY <1>4, <2>4, <3>2, NeverAnswered
        <4> QED BY <1>2, <2>1, <2>2, <3>1, <3>2, <4>1
      <3>3. CASE p[2].agtr # s
        BY <2>1, <2>2, <2>3, <2>4, <3>1, <3>3 DEF AnsweredInv
      <3> QED BY <3>2, <3>3
    <2>5. CASE p \notin toWorker
      <3>1. Completes(m) /\ p[2] = Reply(m)
        BY <2>5 DEF ServerReceive
      <3>2. p[2].agtr = s /\ p[2].round = m.round
        BY <3>1 DEF Reply
      <3>3. now \subseteq Worker /\ Cardinality(now) = Cardinality(Worker)
        BY <1>4, <3>1, NewlyCounted DEF Completes, NUM_WORKER
      <3>4. now = Worker
        BY <3>3, WorkerAssumption, FS_Subset
      <3>5. roundNumbers'[s] = m.round /\ counted'[s] = now
        BY <1>2, <2>1, <2>2, <2>3
      <3> QED BY <1>2, <3>2, <3>4, <3>5
    <2> QED BY <2>4, <2>5
  <1> QED BY <1>3, <1>4

LEMMA InitAnswered == Init => AnsweredInv
  BY DEF Init, AnsweredInv

LEMMA NextAnswered == TypeOK /\ IndInv /\ AnsweredInv /\ [Next]_vars => AnsweredInv'
  <1> SUFFICES ASSUME TypeOK, IndInv, AnsweredInv, [Next]_vars PROVE AnsweredInv'
    OBVIOUS
  <1>1. ASSUME toWorker' \subseteq toWorker, UNCHANGED <<roundNumbers, counted>>
        PROVE  AnsweredInv'
    BY <1>1 DEF AnsweredInv
  <1>2. ASSUME NEW w \in Worker, Client(w) \/ Send(w) PROVE AnsweredInv'
    BY <1>1, <1>2 DEF Client, Send, psVars
  <1>3. ASSUME NEW m \in toPS, ServerReceive(m) PROVE AnsweredInv'
    BY <1>3, ServerReceiveAnswered
  <1>4. ASSUME NEW p \in toWorker, WorkerReceive(p[1], p[2]) PROVE AnsweredInv'
    BY <1>1, <1>4 DEF WorkerReceive, psVars
  <1>5. CASE UNCHANGED vars
    BY <1>1, <1>5 DEF vars, psVars
  <1> QED BY <1>2, <1>3, <1>4, <1>5 DEF Next

\* broadcast_packet answers a round once: no second reply of a slot and round
\* is ever under way, so the copy RxThread works on is the only one.
THEOREM RoundsAnsweredOnce == Spec => []AnsweredInv
  <1>1. Init => TypeOK /\ IndInv /\ AnsweredInv
    BY InitTypeOK, InitIndInv, InitAnswered
  <1>2. TypeOK /\ IndInv /\ AnsweredInv /\ [Next]_vars => TypeOK' /\ IndInv' /\ AnsweredInv'
    BY NextTypeOK, NextIndInv, NextAnswered
  <1> QED BY <1>1, <1>2, PTL DEF Spec

-----------------------------------------------------------------------------
(* Every task is reported finished once.                                   *)

WorkerInv(w) == KeysInv(w) /\ TableInv(w) /\ PartInv(w) /\ EntryInv(w)

-----------------------------------------------------------------------------
(* Outstanding keys and open parts.                                        *)

LEMMA OutTypes ==
  ASSUME TypeOK, NEW w \in Worker
  PROVE  /\ OutstandingKeys(w) \in SUBSET Key /\ IsFiniteSet(OutstandingKeys(w))
         /\ \A i \in DOMAIN pushpulljobQueue[w] :
              pushpulljobQueue[w][i].key \in OutstandingKeys(w)
         /\ \A s \in BusySlots(w) : slot_dpdk_key[w][s] \in OutstandingKeys(w)
         /\ BusySlots(w) \subseteq Agtr
  <1>1. pushpulljobQueue[w] \in Seq(Job) /\ slot_dpdk_key[w] \in [Agtr -> Key]
    BY DEF TypeOK, ThreadTypes, SlotTypes
  <1>2. \A i \in DOMAIN pushpulljobQueue[w] : pushpulljobQueue[w][i] \in Job
    BY <1>1
  <1>3. OutstandingKeys(w) \in SUBSET Key
    BY <1>1, <1>2 DEF OutstandingKeys, BusySlots, Job
  <1>4. IsFiniteSet(Key)
    BY FS_Interval, Constants DEF Key
  <1>5. IsFiniteSet(OutstandingKeys(w))
    BY <1>3, <1>4, FS_Subset
  <1> QED BY <1>3, <1>5 DEF OutstandingKeys, BusySlots

LEMMA OpenTypes ==
  ASSUME TypeOK, NEW w \in Worker, NEW t
  PROVE  /\ OpenKeys(w, t) \subseteq OutstandingKeys(w)
         /\ IsFiniteSet(OpenKeys(w, t)) /\ Cardinality(OpenKeys(w, t)) \in Nat
         /\ Cardinality(OpenKeys(w, t)) = 0 <=> OpenKeys(w, t) = {}
         /\ pushing[w].left \in Nat
         /\ OpenParts(w, t) = Cardinality(OpenKeys(w, t))
                                + (IF t = pushed[w] THEN pushing[w].left ELSE 0)
         /\ OpenParts(w, t) \in Nat
  <1>1. OpenKeys(w, t) \in SUBSET OutstandingKeys(w)
    BY DEF OpenKeys
  <1>2. IsFiniteSet(OpenKeys(w, t))
    BY <1>1, OutTypes, FS_Subset
  <1>3. /\ Cardinality(OpenKeys(w, t)) \in Nat
        /\ Cardinality(OpenKeys(w, t)) = 0 <=> OpenKeys(w, t) = {}
    BY <1>2, FS_CardinalityType, FS_EmptySet
  <1>4. pushing[w].left \in Nat
    BY DEF TypeOK, PushTypes
  <1>5. OpenParts(w, t) = Cardinality(OpenKeys(w, t))
                            + (IF t = pushed[w] THEN pushing[w].left ELSE 0)
    BY DEF OpenParts, OpenKeys
  <1> QED BY <1>1, <1>2, <1>3, <1>4, <1>5

\* The counter is not about to come round to an outstanding key.
LEMMA NotYetRound ==
  ASSUME TypeOK, NEW w \in Worker, NEW m \in Nat \ {0}, KeysFree(w, m),
         NEW k \in OutstandingKeys(w), NEW n \in 1 .. DPDK_KEY_TOTAL,
         n <= dpdkKey[w], k = (dpdkKey[w] - n) % DPDK_KEY_TOTAL
  PROVE  n < DPDK_KEY_TOTAL
  <1>1. dpdkKey[w] \in Nat /\ DPDK_KEY_TOTAL \in Nat \ {0}
    BY Constants DEF TypeOK, PushTypes
  <1> SUFFICES ASSUME n = DPDK_KEY_TOTAL PROVE FALSE
    BY <1>1
  <1>2. PICK a \in Nat : a = dpdkKey[w] - DPDK_KEY_TOTAL
    BY <1>1
  <1>3. (a + DPDK_KEY_TOTAL) % DPDK_KEY_TOTAL = a % DPDK_KEY_TOTAL
    BY <1>1, ModTurn
  <1>4. a + DPDK_KEY_TOTAL = dpdkKey[w]
    BY <1>1, <1>2
  <1>5. dpdkKey[w] % DPDK_KEY_TOTAL = k
    BY <1>2, <1>3, <1>4
  <1>6. 0 \in 0 .. m - 1 /\ dpdkKey[w] + 0 = dpdkKey[w]
    BY <1>1
  <1>7. dpdkKey[w] % DPDK_KEY_TOTAL \notin OutstandingKeys(w)
    BY <1>6 DEF KeysFree
  <1> QED BY <1>5, <1>7

\* An open task is one of the last DPDK_KEY_TOTAL that were pushed.
LEMMA OpenIsRecent ==
  ASSUME TypeOK, NEW w \in Worker, KeysInv(w), TableInv(w), NEW t \in Task, OpenParts(w, t) > 0
  PROVE  t \in 1 .. pushed[w] /\ pushed[w] - t < DPDK_KEY_TOTAL
  <1>0. pushed[w] \in Nat /\ DPDK_KEY_TOTAL \in Nat \ {0} /\ t \in Nat \ {0}
    BY Constants, ProgramTypes DEF TypeOK, PushTypes, Task
  <1>1. CASE OpenKeys(w, t) # {}
    <2>1. PICK k \in OutstandingKeys(w) : dpdk_key_to_tensor_key[w][k] = t
      BY <1>1 DEF OpenKeys
    <2>2. PICK n \in 1 .. DPDK_KEY_TOTAL :
            /\ n <= dpdkKey[w] /\ k = (dpdkKey[w] - n) % DPDK_KEY_TOTAL
            /\ DrawnTasks(w) - t < n
      BY <2>1 DEF TableInv
    <2>3. t \in 1 .. pushed[w]
      BY <2>1 DEF TableInv
    <2>4. CASE pushing[w].left > 0
      <3>1. n < DPDK_KEY_TOTAL
        <4>1. pushing[w].left \in Nat \ {0}
          BY <2>4, OpenTypes
        <4> QED BY <2>2, <4>1, NotYetRound DEF KeysInv
      <3>2. DrawnTasks(w) = pushed[w] - 1
        BY <2>4 DEF DrawnTasks
      <3> QED BY <1>0, <2>2, <2>3, <3>1, <3>2
    <2>5. CASE ~(pushing[w].left > 0)
      <3>1. DrawnTasks(w) = pushed[w]
        BY <1>0, <2>5 DEF DrawnTasks
      <3> QED BY <1>0, <2>2, <2>3, <3>1
    <2> QED BY <2>4, <2>5
  <1>2. CASE OpenKeys(w, t) = {}
    BY <1>0, <1>2, OpenTypes
  <1> QED BY <1>1, <1>2

\* So the part counters of the open tasks are all different.
LEMMA OwnCounter ==
  ASSUME TypeOK, NEW w \in Worker, KeysInv(w), TableInv(w),
         NEW t \in Task, NEW u \in Task, OpenParts(w, t) > 0, OpenParts(w, u) > 0,
         MutexOf(t) = MutexOf(u)
  PROVE  t = u
  <1>1. /\ t \in 1 .. pushed[w] /\ pushed[w] - t < DPDK_KEY_TOTAL
        /\ u \in 1 .. pushed[w] /\ pushed[w] - u < DPDK_KEY_TOTAL
    BY OpenIsRecent
  <1>2. pushed[w] \in Nat /\ DPDK_KEY_TOTAL \in Nat \ {0}
    BY Constants, ProgramTypes DEF TypeOK, PushTypes
  <1>3. PICK a \in Nat, b \in Nat : a = t - 1 /\ b = u - 1
    BY <1>1, <1>2
  <1>4. a % DPDK_KEY_TOTAL = b % DPDK_KEY_TOTAL
    BY <1>3 DEF MutexOf
  <1>5. b - a < DPDK_KEY_TOTAL /\ a - b < DPDK_KEY_TOTAL
    BY <1>1, <1>2, <1>3
  <1>6. ~(a < b)
    BY <1>2, <1>4, <1>5, ModDistinct
  <1>7. ~(b < a)
    BY <1>2, <1>4, <1>5, ModDistinct
  <1> QED BY <1>1, <1>2, <1>3, <1>6, <1>7

LEMMA MutexType ==
  ASSUME NEW t \in Task
  PROVE  MutexOf(t) \in Key
  <1>1. t - 1 \in Nat
    BY ProgramTypes DEF Task
  <1> QED BY <1>1, WrappedKey DEF MutexOf

-----------------------------------------------------------------------------
(* Steps that leave a worker's tables alone.                               *)

LEMMA SameOutstanding ==
  ASSUME NEW w, UNCHANGED <<pushpulljobQueue[w], slot_ready[w], slot_dpdk_key[w]>>
  PROVE  BusySlots(w)' = BusySlots(w) /\ OutstandingKeys(w)' = OutstandingKeys(w)
  <1>1. BusySlots(w)' = BusySlots(w)
    BY DEF BusySlots
  <1> QED BY <1>1 DEF OutstandingKeys

LEMMA SameOpenParts ==
  ASSUME NEW w, UNCHANGED <<OutstandingKeys(w), dpdk_key_to_tensor_key[w], pushed[w], pushing[w]>>
  PROVE  /\ \A t : OpenKeys(w, t)' = OpenKeys(w, t)
         /\ \A t : OpenParts(w, t)' = OpenParts(w, t)
         /\ DrawnTasks(w)' = DrawnTasks(w)
  BY DEF OpenKeys, OpenParts, DrawnTasks

LEMMA SameClient ==
  ASSUME NEW w, WorkerInv(w),
         UNCHANGED <<pushed[w], pushing[w], dpdkKey[w], curr_mutex_idx[w],
                     dpdk_key_to_tensor_key[w], dpdk_key_to_mutex_idx[w],
                     tensor_key_part_total[w], tensor_key_part_finish[w],
                     pushpulljobQueue[w], slot_ready[w], slot_dpdk_key[w],
                     finishKeys[w], DPDKTask[w]>>
  PROVE  WorkerInv(w)'
  <1>1. BusySlots(w)' = BusySlots(w) /\ OutstandingKeys(w)' = OutstandingKeys(w)
    BY SameOutstanding
  <1>2. /\ \A t : OpenParts(w, t)' = OpenParts(w, t)
        /\ DrawnTasks(w)' = DrawnTasks(w)
    BY <1>1, SameOpenParts
  <1>3. KeysInv(w)'
    BY <1>1 DEF WorkerInv, KeysInv, KeysFree
  <1>4. TableInv(w)'
    BY <1>1, <1>2 DEF WorkerInv, TableInv
  <1>5. PartInv(w)'
    BY <1>2 DEF WorkerInv, PartInv
  <1>6. EntryInv(w)'
    BY <1>2 DEF WorkerInv, EntryInv, Reported
  <1> QED BY <1>3, <1>4, <1>5, <1>6 DEF WorkerInv

-----------------------------------------------------------------------------
(* DPDKPushPull.                                                           *)

LEMMA PushStartFinish ==
  ASSUME TypeOK, IndInv, NEW w \in Worker, WorkerInv(w), PushStart(w)
  PROVE  WorkerInv(w)'
  <1>0. KeysInv(w) /\ TableInv(w) /\ PartInv(w) /\ EntryInv(w)
    BY DEF WorkerInv
  <1>pick. PICK u, n, i : u = pushed[w] + 1 /\ n = Program[u].parts /\ i = curr_mutex_idx[w]
    OBVIOUS
  <1>1. /\ pushed[w] \in Nat /\ pushed \in [Worker -> 0 .. Len(Program)]
        /\ pushing \in [Worker -> [left : Nat, idx : Key, cmd : PushCmd]]
        /\ dpdkKey[w] \in Nat /\ curr_mutex_idx \in [Worker -> Key]
        /\ tensor_key_part_total  \in [Worker -> [Key -> Nat]]
        /\ tensor_key_part_finish \in [Worker -> [Key -> Nat]]
        /\ DPDKTask \in [Worker -> SUBSET Nat]
    BY ProgramTypes DEF TypeOK, PushTypes, PartTypes
  <1>2. u \in Task /\ n \in Nat \ {0} /\ u \in Nat \ {0} /\ i \in Key
    BY <1>pick, <1>1, ProgramTypes DEF PushStart, DPDKPushPull, Task
  <1>3. /\ pushing[w].left = 0 /\ KeysFree(w, n)
        /\ pushed'  = [pushed  EXCEPT ![w] = @ + 1]
        /\ pushing' = [pushing EXCEPT ![w] = [left |-> n, idx |-> i, cmd |-> Program[u].cmd]]
        /\ curr_mutex_idx' = [curr_mutex_idx EXCEPT ![w] = (@ + 1) % DPDK_KEY_TOTAL]
        /\ tensor_key_part_total'  = [tensor_key_part_total  EXCEPT ![w][i] = n]
        /\ tensor_key_part_finish' = [tensor_key_part_finish EXCEPT ![w][i] = 0]
        /\ DPDKTask' = [DPDKTask EXCEPT ![w] = @ \cup {u}]
        /\ UNCHANGED <<dpdkKey, dpdk_key_to_tensor_key, dpdk_key_to_mutex_idx, slot_ready,
                       slot_dpdk_key, finishKeys, pushpulljobQueue>>
    BY <1>pick DEF PushStart, DPDKPushPull, slotVars
  <1>4. /\ pushed'[w] = u /\ pushing'[w].left = n /\ pushing'[w].idx = i
        /\ DPDKTask'[w] = DPDKTask[w] \cup {u}
        /\ curr_mutex_idx'[w] = (i + 1) % DPDK_KEY_TOTAL
        /\ tensor_key_part_total'[w][i] = n /\ tensor_key_part_finish'[w][i] = 0
        /\ \A j \in Key : j # i =>
             /\ tensor_key_part_total'[w][j] = tensor_key_part_total[w][j]
             /\ tensor_key_part_finish'[w][j] = tensor_key_part_finish[w][j]
    BY <1>pick, <1>1, <1>2, <1>3
  <1>5. BusySlots(w)' = BusySlots(w) /\ OutstandingKeys(w)' = OutstandingKeys(w)
    BY <1>3, SameOutstanding
  <1>6. i = pushed[w] % DPDK_KEY_TOTAL /\ MutexOf(u) = i
    BY <1>0, <1>pick, <1>1 DEF PartInv, MutexOf
  <1>7. \A t : OpenKeys(w, t)' = OpenKeys(w, t)
    BY <1>3, <1>5 DEF OpenKeys
  <1>8. OpenKeys(w, u) = {}
    BY <1>0, <1>pick, <1>1 DEF TableInv, OpenKeys
  <1>9. OpenParts(w, u)' = n
    <2>1. OpenParts(w, u)' = Cardinality(OpenKeys(w, u)) + n
      BY <1>3, <1>4, <1>5 DEF OpenParts, OpenKeys
    <2> QED BY <1>2, <1>8, <2>1, FS_EmptySet
  <1>10. ASSUME NEW t \in Task, t # u PROVE OpenParts(w, t)' = OpenParts(w, t)
    <2>1. pushed'[w] # t
      BY <1>4, <1>10
    <2>2. OpenParts(w, t)' = Cardinality(OpenKeys(w, t)) + 0
      BY <1>3, <1>5, <2>1 DEF OpenParts, OpenKeys
    <2>3. OpenParts(w, t) = Cardinality(OpenKeys(w, t)) + 0
      BY <1>3, OpenTypes
    <2> QED BY <2>2, <2>3
  <1>11. ASSUME NEW t \in Task, t # u, OpenParts(w, t) > 0 PROVE MutexOf(t) # i
    <2>1. OpenKeys(w, t) # {}
      BY <1>3, <1>11, OpenTypes
    <2>2. PICK k \in OutstandingKeys(w) : dpdk_key_to_tensor_key[w][k] = t
      BY <2>1 DEF OpenKeys
    <2>3. PICK d \in 1 .. DPDK_KEY_TOTAL :
            /\ d <= dpdkKey[w] /\ k = (dpdkKey[w] - d) % DPDK_KEY_TOTAL
            /\ DrawnTasks(w) - t < d
      BY <1>0, <2>2 DEF TableInv
    <2>4. d < DPDK_KEY_TOTAL
      BY <1>2, <1>3, <2>2, <2>3, NotYetRound
    <2>5. DrawnTasks(w) = pushed[w]
      BY <1>1, <1>3 DEF DrawnTasks
    <2>6. t \in 1 .. pushed[w]
      BY <1>0, <2>2 DEF TableInv
    <2>7. DPDK_KEY_TOTAL \in Nat \ {0}
      BY Constants
    <2>8. PICK a \in Nat : a = t - 1
      BY <1>1, <2>6
    <2>9. a < pushed[w] /\ pushed[w] - a < DPDK_KEY_TOTAL
      BY <1>1, <2>3, <2>4, <2>5, <2>6, <2>7, <2>8
    <2>10. a % DPDK_KEY_TOTAL # pushed[w] % DPDK_KEY_TOTAL
      BY <1>1, <2>7, <2>9, ModDistinct
    <2> QED BY <1>6, <2>8, <2>10 DEF MutexOf
  <1>12. KeysInv(w)'
    BY <1>0, <1>3, <1>4, <1>5 DEF KeysInv, KeysFree
  <1>13. TableInv(w)'
    <2>1. DrawnTasks(w)' = DrawnTasks(w)
      <3>1. DrawnTasks(w)' = u - 1
        BY <1>2, <1>4 DEF DrawnTasks
      <3>2. DrawnTasks(w) = pushed[w]
        BY <1>1, <1>3 DEF DrawnTasks
      <3> QED BY <1>pick, <1>1, <3>1, <3>2
    <2>2. 1 .. pushed[w] \subseteq 1 .. pushed'[w]
      BY <1>pick, <1>1, <1>4
    <2> QED BY <1>0, <1>3, <1>5, <2>1, <2>2 DEF TableInv
  <1>14. PartInv(w)'
    <2>1. curr_mutex_idx'[w] = pushed'[w] % DPDK_KEY_TOTAL
      BY <1>pick, <1>1, <1>4, <1>6, Constants, ModSucc
    <2>2. pushing'[w].idx = MutexOf(pushed'[w])
      BY <1>4, <1>6
    <2>3. ASSUME NEW t \in Task, OpenParts(w, t)' > 0
          PROVE  tensor_key_part_finish'[w][MutexOf(t)] + OpenParts(w, t)'
                   = tensor_key_part_total'[w][MutexOf(t)]
      <3>1. CASE t = u
        BY <1>2, <1>4, <1>6, <1>9, <3>1
      <3>2. CASE t # u
        <4>1. OpenParts(w, t)' = OpenParts(w, t) /\ MutexOf(t) # i /\ MutexOf(t) \in Key
          BY <1>10, <1>11, <2>3, <3>2, MutexType
        <4> QED BY <1>0, <1>4, <2>3, <4>1 DEF PartInv
      <3> QED BY <3>1, <3>2
    <2> QED BY <2>1, <2>2, <2>3 DEF PartInv, MutexOf
  <1>15. EntryInv(w)'
    <2>1. DPDKTask'[w] \subseteq 1 .. pushed'[w]
      BY <1>0, <1>pick, <1>1, <1>4 DEF EntryInv
    <2>2. /\ \A a, b \in DOMAIN finishKeys'[w] : finishKeys'[w][a] = finishKeys'[w][b] => a = b
          /\ \A a \in DOMAIN finishKeys'[w] : finishKeys'[w][a] \in 1 .. pushed'[w]
      BY <1>0, <1>pick, <1>1, <1>3, <1>4 DEF EntryInv
    <2>3. ASSUME NEW t \in Task
          PROVE  /\ Reported(w, t)' => t \in DPDKTask'[w] /\ OpenParts(w, t)' = 0
                 /\ t \in DPDKTask'[w] /\ ~Reported(w, t)' => OpenParts(w, t)' > 0
                 /\ OpenParts(w, t)' > 0 => t \in DPDKTask'[w]
      <3>1. Reported(w, t)' <=> Reported(w, t)
        BY <1>3 DEF Reported
      <3>2. CASE t = u
        <4>1. ~Reported(w, t)
          BY <1>0, <1>pick, <1>1, <3>2 DEF EntryInv, Reported
        <4> QED BY <1>2, <1>4, <1>9, <3>1, <3>2, <4>1
      <3>3. CASE t # u
        <4>1. OpenParts(w, t)' = OpenParts(w, t) /\ (t \in DPDKTask'[w] <=> t \in DPDKTask[w])
          BY <1>4, <1>10, <3>3
        <4> QED BY <1>0, <3>1, <4>1 DEF EntryInv
      <3> QED BY <3>2, <3>3
    <2> QED BY <2>1, <2>2, <2>3 DEF EntryInv
  <1> QED BY <1>12, <1>13, <1>14, <1>15 DEF WorkerInv

LEMMA PushJobFinish ==
  ASSUME TypeOK, IndInv, NEW w \in Worker, WorkerInv(w), PushJob(w)
  PROVE  WorkerInv(w)'
  <1>0. KeysInv(w) /\ TableInv(w) /\ PartInv(w) /\ EntryInv(w)
    BY DEF WorkerInv
  <1>pick. PICK k, u, d, j, left :
             /\ d = dpdkKey[w] /\ k = d % DPDK_KEY_TOTAL /\ u = pushed[w]
             /\ left = pushing[w].left /\ j = [key |-> k, cmd |-> pushing[w].cmd]
    OBVIOUS
  <1>1. /\ pushing \in [Worker -> [left : Nat, idx : Key, cmd : PushCmd]]
        /\ dpdkKey \in [Worker -> Nat] /\ pushpulljobQueue \in [Worker -> Seq(Job)]
        /\ dpdk_key_to_tensor_key \in [Worker -> [Key -> 0 .. Len(Program)]]
        /\ dpdk_key_to_mutex_idx  \in [Worker -> [Key -> Key]]
        /\ d \in Nat /\ left \in Nat /\ DPDK_KEY_TOTAL \in Nat \ {0}
    BY <1>pick, Constants DEF TypeOK, PushTypes, ThreadTypes
  <1>2. k \in Key /\ j \in Job /\ j.key = k
    BY <1>pick, <1>1, WrappedKey DEF Job
  <1>3. /\ left > 0 /\ pushing' = [pushing EXCEPT ![w].left = @ - 1]
        /\ dpdkKey' = [dpdkKey EXCEPT ![w] = @ + 1]
        /\ dpdk_key_to_tensor_key' = [dpdk_key_to_tensor_key EXCEPT ![w][k] = u]
        /\ dpdk_key_to_mutex_idx' = [dpdk_key_to_mutex_idx EXCEPT ![w][k] = pushing[w].idx]
        /\ pushpulljobQueue' = [pushpulljobQueue EXCEPT ![w] = Append(@, j)]
        /\ UNCHANGED <<pushed, curr_mutex_idx, tensor_key_part_total, tensor_key_part_finish,
                       slot_ready, slot_dpdk_key, finishKeys, DPDKTask>>
    BY <1>pick DEF PushJob, slotVars, partVars
  <1>4. /\ u \in Task /\ u \in Nat \ {0} /\ left <= DPDK_KEY_TOTAL
    <2>1. u # 0 /\ left <= Program[u].parts
      BY <1>pick, <1>3 DEF IndInv, PushInv
    <2>2. u \in Task /\ u \in Nat \ {0}
      BY <1>pick, <2>1, ProgramTypes DEF TypeOK, PushTypes, Task
    <2>3. Program[u].parts <= DPDK_KEY_TOTAL /\ Program[u].parts \in Nat
      BY <2>2, PartsAssumption, ProgramTypes DEF Task
    <2> QED BY <1>1, <2>1, <2>2, <2>3
  <1>5. /\ pushing'[w].left = left - 1 /\ pushing'[w].idx = pushing[w].idx /\ dpdkKey'[w] = d + 1
        /\ dpdk_key_to_tensor_key'[w][k] = u /\ dpdk_key_to_mutex_idx'[w][k] = pushing[w].idx
        /\ \A x \in Key : x # k =>
             /\ dpdk_key_to_tensor_key'[w][x] = dpdk_key_to_tensor_key[w][x]
             /\ dpdk_key_to_mutex_idx'[w][x] = dpdk_key_to_mutex_idx[w][x]
    BY <1>pick, <1>1, <1>2, <1>3
  <1>6. k \notin OutstandingKeys(w)
    <2>1. 0 \in 0 .. left - 1 /\ d + 0 = d
      BY <1>1, <1>3
    <2> QED BY <1>0, <1>pick, <2>1 DEF KeysInv, KeysFree
  <1> DEFINE q == pushpulljobQueue[w]
  <1>7. /\ pushpulljobQueue'[w] = Append(q, j) /\ q \in Seq(Job)
        /\ DOMAIN pushpulljobQueue'[w] = 1 .. Len(q) + 1 /\ DOMAIN q = 1 .. Len(q)
        /\ Len(q) \in Nat /\ pushpulljobQueue'[w][Len(q) + 1] = j
        /\ \A a \in 1 .. Len(q) : pushpulljobQueue'[w][a] = q[a]
    BY <1>1, <1>2, <1>3
  <1>8. BusySlots(w)' = BusySlots(w)
    BY <1>3 DEF BusySlots
  <1>9. OutstandingKeys(w)' = OutstandingKeys(w) \cup {k}
    <2>1. {pushpulljobQueue'[w][a].key : a \in DOMAIN pushpulljobQueue'[w]}
            = {q[a].key : a \in DOMAIN q} \cup {k}
      BY <1>2, <1>7
    <2> QED BY <1>3, <1>8, <2>1 DEF OutstandingKeys
  <1>10. OutstandingKeys(w) \in SUBSET Key
    BY OutTypes
  <1>11. \A t \in Task : OpenParts(w, t)' = OpenParts(w, t)
    <2> SUFFICES ASSUME NEW t \in Task PROVE OpenParts(w, t)' = OpenParts(w, t)
      OBVIOUS
    <2>1. IsFiniteSet(OpenKeys(w, t)) /\ k \notin OpenKeys(w, t) /\ Cardinality(OpenKeys(w, t)) \in Nat
      BY <1>6, OpenTypes
    <2>2. OpenParts(w, t) = Cardinality(OpenKeys(w, t)) + (IF t = u THEN left ELSE 0)
      BY <1>pick, OpenTypes
    <2>3. OpenParts(w, t)' = Cardinality(OpenKeys(w, t)') + (IF t = u THEN left - 1 ELSE 0)
      BY <1>pick, <1>3, <1>5 DEF OpenParts, OpenKeys
    <2>4. CASE t = u
      <3>1. OpenKeys(w, t)' = OpenKeys(w, t) \cup {k}
        BY <1>5, <1>6, <1>9, <1>10, <2>4 DEF OpenKeys
      <3>2. Cardinality(OpenKeys(w, t) \cup {k}) = Cardinality(OpenKeys(w, t)) + 1
        BY <2>1, FS_AddElement
      <3> QED BY <1>1, <2>1, <2>2, <2>3, <2>4, <3>1, <3>2
    <2>5. CASE t # u
      <3>1. OpenKeys(w, t)' = OpenKeys(w, t)
        BY <1>5, <1>6, <1>9, <1>10, <2>5 DEF OpenKeys
      <3> QED BY <2>2, <2>3, <2>5, <3>1
    <2> QED BY <2>4, <2>5
  <1> HIDE DEF q
  <1>12. KeysInv(w)'
    <2>1. \A a \in 1 .. Len(q) : q[a].key \in OutstandingKeys(w)
      BY <1>7, OutTypes DEF q
    <2>2. \A s \in BusySlots(w) : slot_dpdk_key[w][s] \in OutstandingKeys(w)
      BY OutTypes
    <2>3. ASSUME NEW a \in 1 .. Len(q) + 1, NEW b \in 1 .. Len(q) + 1,
                 pushpulljobQueue'[w][a].key = pushpulljobQueue'[w][b].key
          PROVE  a = b
      <3>1. CASE a \in 1 .. Len(q) /\ b \in 1 .. Len(q)
        BY <1>0, <1>7, <2>3, <3>1 DEF KeysInv, q
      <3>2. CASE a = Len(q) + 1 /\ b \in 1 .. Len(q)
        BY <1>2, <1>6, <1>7, <2>1, <2>3, <3>2
      <3>3. CASE b = Len(q) + 1 /\ a \in 1 .. Len(q)
        BY <1>2, <1>6, <1>7, <2>1, <2>3, <3>3
      <3> QED BY <1>7, <3>1, <3>2, <3>3
    <2>4. ASSUME NEW a \in 1 .. Len(q) + 1, NEW s \in BusySlots(w)
          PROVE  pushpulljobQueue'[w][a].key # slot_dpdk_key[w][s]
      <3>1. CASE a \in 1 .. Len(q)
        BY <1>0, <1>7, <3>1 DEF KeysInv, q
      <3>2. CASE a = Len(q) + 1
        BY <1>2, <1>6, <1>7, <2>2, <3>2
      <3> QED BY <1>7, <3>1, <3>2
    <2>5. ASSUME NEW a \in 0 .. left - 2
          PROVE  (d + 1 + a) % DPDK_KEY_TOTAL \notin OutstandingKeys(w) \cup {k}
      <3>1. a + 1 \in 0 .. left - 1 /\ d + (a + 1) = d + 1 + a
        BY <1>1
      <3>2. (d + (a + 1)) % DPDK_KEY_TOTAL \notin OutstandingKeys(w)
        BY <1>0, <1>pick, <3>1 DEF KeysInv, KeysFree
      <3>3. PICK e \in Nat : e = d + 1 + a
        BY <1>1
      <3>4. d < e /\ e - d < DPDK_KEY_TOTAL
        BY <1>1, <1>4, <3>3
      <3>5. d % DPDK_KEY_TOTAL # e % DPDK_KEY_TOTAL
        BY <1>1, <3>4, ModDistinct
      <3> QED BY <1>pick, <3>1, <3>2, <3>3, <3>5
    <2>6. KeysFree(w, pushing[w].left)'
      <3>1. \A a \in 0 .. (left - 1) - 1 : a \in 0 .. left - 2
        BY <1>1
      <3> QED BY <1>5, <1>9, <2>5, <3>1 DEF KeysFree
    <2>7. \A a, b \in DOMAIN pushpulljobQueue'[w] :
            pushpulljobQueue'[w][a].key = pushpulljobQueue'[w][b].key => a = b
      BY <1>7, <2>3
    <2>8. \A a \in DOMAIN pushpulljobQueue'[w], s \in BusySlots(w)' :
            pushpulljobQueue'[w][a].key # slot_dpdk_key'[w][s]
      BY <1>3, <1>7, <1>8, <2>4
    <2> QED BY <2>6, <2>7, <2>8 DEF KeysInv
  <1>13. TableInv(w)'
    <2> SUFFICES ASSUME NEW x \in OutstandingKeys(w) \cup {k}
                 PROVE  LET t == dpdk_key_to_tensor_key'[w][x]
                        IN  /\ t \in 1 .. u
                            /\ dpdk_key_to_mutex_idx'[w][x] = MutexOf(t)
                            /\ \E n \in 1 .. DPDK_KEY_TOTAL :
                                 /\ n <= d + 1
                                 /\ x = ((d + 1) - n) % DPDK_KEY_TOTAL
                                 /\ DrawnTasks(w)' - t < n
      BY <1>pick, <1>3, <1>5, <1>9 DEF TableInv, MutexOf
    <2>0. /\ DrawnTasks(w) = u - 1
          /\ DrawnTasks(w)' = u - (IF left - 1 > 0 THEN 1 ELSE 0)
      BY <1>pick, <1>3, <1>5 DEF DrawnTasks
    <2>1. CASE x = k
      <3>1. dpdk_key_to_tensor_key'[w][x] = u /\ dpdk_key_to_mutex_idx'[w][x] = MutexOf(u)
        BY <1>0, <1>pick, <1>3, <1>5, <2>1 DEF PartInv
      <3>2. /\ 1 \in 1 .. DPDK_KEY_TOTAL /\ 1 <= d + 1 /\ (d + 1) - 1 = d
            /\ DrawnTasks(w)' - u < 1 /\ u \in 1 .. u
        BY <1>1, <1>4, <2>0
      <3>3. x = ((d + 1) - 1) % DPDK_KEY_TOTAL
        BY <1>pick, <2>1, <3>2
      <3> QED BY <3>1, <3>2, <3>3
    <2>2. CASE x # k
      <3>1. x \in OutstandingKeys(w) /\ x \in Key
        BY <1>10, <2>2
      <3> DEFINE t == dpdk_key_to_tensor_key[w][x]
      <3>2. /\ dpdk_key_to_tensor_key'[w][x] = t
            /\ dpdk_key_to_mutex_idx'[w][x] = MutexOf(t) /\ t \in 1 .. u
        BY <1>0, <1>pick, <1>5, <2>2, <3>1 DEF TableInv
      <3>3. PICK n \in 1 .. DPDK_KEY_TOTAL :
              n <= d /\ x = (d - n) % DPDK_KEY_TOTAL /\ DrawnTasks(w) - t < n
        BY <1>0, <1>pick, <3>1 DEF TableInv
      <3>4. n < DPDK_KEY_TOTAL
        <4>1. left \in Nat \ {0} /\ KeysFree(w, left)
          BY <1>0, <1>pick, <1>1, <1>3 DEF KeysInv
        <4> QED BY <1>pick, <3>1, <3>3, <4>1, NotYetRound
      <3> HIDE DEF t
      <3>5. /\ n + 1 \in 1 .. DPDK_KEY_TOTAL /\ n + 1 <= d + 1 /\ (d + 1) - (n + 1) = d - n
            /\ DrawnTasks(w)' - t < n + 1
        BY <1>1, <1>4, <2>0, <3>2, <3>3, <3>4
      <3>6. x = ((d + 1) - (n + 1)) % DPDK_KEY_TOTAL
        BY <3>3, <3>5
      <3> QED BY <3>2, <3>5, <3>6
    <2> QED BY <2>1, <2>2
  <1>14. PartInv(w)'
    <2>1. pushing'[w].left > 0 => pushing'[w].idx = MutexOf(pushed'[w])
      BY <1>0, <1>pick, <1>3, <1>5 DEF PartInv
    <2> QED BY <1>0, <1>3, <1>11, <2>1 DEF PartInv, MutexOf
  <1>15. EntryInv(w)'
    BY <1>0, <1>3, <1>11 DEF EntryInv, Reported
  <1> QED BY <1>12, <1>13, <1>14, <1>15 DEF WorkerInv

-----------------------------------------------------------------------------
(* TxThread moves a key from the queue to its slot.                        *)

LEMMA TxAssembleFinish ==
  ASSUME TypeOK, IndInv, NEW w \in Worker, WorkerInv(w), TxAssemble(w)
  PROVE  WorkerInv(w)'
  <1>0. KeysInv(w) /\ TableInv(w) /\ PartInv(w) /\ EntryInv(w)
    BY DEF WorkerInv
  <1>pick. PICK q, k, s : /\ q = pushpulljobQueue[w] /\ k = Head(q).key
                          /\ s = AgtrOf(k)
    OBVIOUS
  <1>1. /\ pushpulljobQueue \in [Worker -> Seq(Job)] /\ q \in Seq(Job)
        /\ slot_ready \in [Worker -> [Agtr -> BOOLEAN]]
        /\ slot_dpdk_key \in [Worker -> [Agtr -> Key]]
    BY <1>pick DEF TypeOK, ThreadTypes, SlotTypes
  <1>2. /\ q # << >> /\ slot_ready[w][s]
        /\ slot_ready'    = [slot_ready    EXCEPT ![w][s] = FALSE]
        /\ slot_dpdk_key' = [slot_dpdk_key EXCEPT ![w][s] = k]
        /\ pushpulljobQueue' = [pushpulljobQueue EXCEPT ![w] = Tail(@)]
        /\ UNCHANGED <<pushed, pushing, dpdkKey, curr_mutex_idx, dpdk_key_to_tensor_key,
                       dpdk_key_to_mutex_idx, tensor_key_part_total, tensor_key_part_finish,
                       finishKeys, DPDKTask>>
    BY <1>pick DEF TxAssemble, pushVars, partVars
  <1>3. /\ Len(q) \in Nat \ {0} /\ Head(q) = q[1] /\ q[1] \in Job
        /\ Tail(q) \in Seq(Job) /\ Len(Tail(q)) = Len(q) - 1
        /\ \A a \in 1 .. Len(q) - 1 : Tail(q)[a] = q[a + 1]
    BY <1>1, <1>2
  <1>4. k \in Key /\ k = q[1].key /\ s \in Agtr
    BY <1>pick, <1>3, SlotOfKey DEF Job
  <1>5. /\ pushpulljobQueue'[w] = Tail(q) /\ DOMAIN Tail(q) = 1 .. Len(q) - 1
        /\ DOMAIN q = 1 .. Len(q)
    BY <1>pick, <1>1, <1>2, <1>3
  <1>6. /\ BusySlots(w)' = BusySlots(w) \cup {s} /\ s \notin BusySlots(w)
        /\ slot_dpdk_key'[w][s] = k
        /\ \A t \in BusySlots(w) : slot_dpdk_key'[w][t] = slot_dpdk_key[w][t]
    <2>1. /\ slot_ready'[w][s] = FALSE /\ slot_dpdk_key'[w][s] = k
          /\ \A t \in Agtr : t # s => /\ slot_ready'[w][t] = slot_ready[w][t]
                                      /\ slot_dpdk_key'[w][t] = slot_dpdk_key[w][t]
      BY <1>1, <1>2, <1>4
    <2> QED BY <1>2, <1>4, <2>1 DEF BusySlots
  <1>7. OutstandingKeys(w)' = OutstandingKeys(w)
    <2>1. {q[a].key : a \in DOMAIN q} = {Tail(q)[a].key : a \in DOMAIN Tail(q)} \cup {k}
      <3>1. ASSUME NEW a \in 1 .. Len(q)
            PROVE  q[a].key \in {Tail(q)[b].key : b \in DOMAIN Tail(q)} \cup {k}
        <4>1. CASE a = 1
          BY <1>4, <4>1
        <4>2. CASE a # 1
          <5>1. a - 1 \in 1 .. Len(q) - 1 /\ (a - 1) + 1 = a
            BY <1>3, <4>2
          <5>2. Tail(q)[a - 1] = q[a]
            BY <1>3, <5>1
          <5> QED BY <1>5, <5>1, <5>2
        <4> QED BY <4>1, <4>2
      <3>2. ASSUME NEW b \in 1 .. Len(q) - 1
            PROVE  Tail(q)[b].key \in {q[a].key : a \in DOMAIN q}
        <4>1. b + 1 \in 1 .. Len(q) /\ Tail(q)[b] = q[b + 1]
          BY <1>3
        <4> QED BY <1>5, <4>1
      <3>3. k \in {q[a].key : a \in DOMAIN q}
        BY <1>3, <1>4, <1>5
      <3> QED BY <1>5, <3>1, <3>2, <3>3
    <2>2. {slot_dpdk_key'[w][t] : t \in BusySlots(w)'}
            = {slot_dpdk_key[w][t] : t \in BusySlots(w)} \cup {k}
      BY <1>6
    <2>3. OutstandingKeys(w)
            = {q[a].key : a \in DOMAIN q} \cup {slot_dpdk_key[w][t] : t \in BusySlots(w)}
      BY <1>pick DEF OutstandingKeys
    <2>4. OutstandingKeys(w)' = {Tail(q)[a].key : a \in DOMAIN Tail(q)}
                                  \cup {slot_dpdk_key'[w][t] : t \in BusySlots(w)'}
      BY <1>5 DEF OutstandingKeys
    <2> QED BY <2>1, <2>2, <2>3, <2>4, Zenon
  <1>8. /\ \A t : OpenParts(w, t)' = OpenParts(w, t)
        /\ DrawnTasks(w)' = DrawnTasks(w)
    BY <1>2, <1>7, SameOpenParts
  <1>9. KeysInv(w)'
    <2>0. \A a, b \in 1 .. Len(q) : q[a].key = q[b].key => a = b
      BY <1>0, <1>pick, <1>5 DEF KeysInv
    <2>1. \A a, b \in 1 .. Len(q) - 1 : Tail(q)[a].key = Tail(q)[b].key => a = b
      <3> SUFFICES ASSUME NEW a \in 1 .. Len(q) - 1, NEW b \in 1 .. Len(q) - 1,
                          Tail(q)[a].key = Tail(q)[b].key
                   PROVE  a = b
        OBVIOUS
      <3>1. q[a + 1].key = q[b + 1].key /\ a + 1 \in 1 .. Len(q) /\ b + 1 \in 1 .. Len(q)
        BY <1>3
      <3>2. a + 1 = b + 1
        BY <2>0, <3>1
      <3> QED BY <1>3, <3>2
    <2>2. \A a \in 1 .. Len(q) - 1, t \in BusySlots(w)' : Tail(q)[a].key # slot_dpdk_key'[w][t]
      <3> SUFFICES ASSUME NEW a \in 1 .. Len(q) - 1, NEW t \in BusySlots(w)'
                   PROVE  Tail(q)[a].key # slot_dpdk_key'[w][t]
        OBVIOUS
      <3>1. Tail(q)[a] = q[a + 1] /\ a + 1 \in 1 .. Len(q) /\ a + 1 # 1 /\ 1 \in 1 .. Len(q)
        BY <1>3
      <3>2. CASE t = s
        BY <1>4, <1>6, <2>0, <3>1, <3>2
      <3>3. CASE t \in BusySlots(w)
        BY <1>0, <1>pick, <1>5, <1>6, <3>1, <3>3 DEF KeysInv
      <3> QED BY <1>6, <3>2, <3>3
    <2>3. KeysFree(w, pushing[w].left)'
      BY <1>0, <1>2, <1>7 DEF KeysInv, KeysFree
    <2> QED BY <1>5, <2>1, <2>2, <2>3 DEF KeysInv
  <1>10. TableInv(w)'
    BY <1>0, <1>2, <1>7, <1>8 DEF TableInv, MutexOf
  <1>11. PartInv(w)'
    BY <1>0, <1>2, <1>8 DEF PartInv, MutexOf
  <1>12. EntryInv(w)'
    BY <1>0, <1>2, <1>8 DEF EntryInv, Reported
  <1> QED BY <1>9, <1>10, <1>11, <1>12 DEF WorkerInv

-----------------------------------------------------------------------------
(* A slot is freed, by RxThread or by Reset, and one part is finished.     *)

\* The key in a slot belongs to the slot.
LEMMA KeyInItsSlot ==
  ASSUME TypeOK, SlotInv, NEW w \in Worker, NEW s \in BusySlots(w)
  PROVE  AgtrOf(slot_dpdk_key[w][s]) = s
  <1>1. s \in Agtr /\ slot_dpdk_key[w][s] = KeyAt(s, slot_roundnum[w][s])
        /\ slot_roundnum[w][s] \in Nat
    BY DEF BusySlots, SlotInv, TypeOK, SlotTypes
  <1>2. PICK r \in Nat : r = slot_roundnum[w][s]
    BY <1>1
  <1>3. PICK n \in Nat : n = Position(s, r) /\ n = MAX_AGTR_COUNT * r + s
    BY <1>1, <1>2, Constants DEF Position, Agtr
  <1>4. n % MAX_AGTR_COUNT = s
    BY <1>1, <1>3, Constants, DivModUnique DEF Agtr
  <1>5. (n % DPDK_KEY_TOTAL) % MAX_AGTR_COUNT = n % MAX_AGTR_COUNT
    BY Constants, ModOfMod
  <1> QED BY <1>1, <1>2, <1>3, <1>4, <1>5 DEF KeyAt, AgtrOf

LEMMA PartFinish ==
  ASSUME TypeOK, IndInv, NEW w \in Worker, WorkerInv(w), NEW s \in BusySlots(w),
         FreeSlot(w, s), PartFinished(w, slot_dpdk_key[w][s]),
         UNCHANGED <<pushed, pushing, dpdkKey, curr_mutex_idx, dpdk_key_to_tensor_key,
                     dpdk_key_to_mutex_idx, tensor_key_part_total, pushpulljobQueue, DPDKTask>>
  PROVE  WorkerInv(w)'
  <1>0. KeysInv(w) /\ TableInv(w) /\ PartInv(w) /\ EntryInv(w)
    BY DEF WorkerInv
  <1>pick. PICK k, t, i, n : /\ k = slot_dpdk_key[w][s] /\ t = dpdk_key_to_tensor_key[w][k]
                             /\ i = dpdk_key_to_mutex_idx[w][k]
                             /\ n = tensor_key_part_finish[w][i] + 1
    OBVIOUS
  <1>1. /\ slot_ready \in [Worker -> [Agtr -> BOOLEAN]]
        /\ slot_dpdk_key \in [Worker -> [Agtr -> Key]]
        /\ tensor_key_part_finish \in [Worker -> [Key -> Nat]]
        /\ finishKeys \in [Worker -> Seq(0 .. Len(Program))]
        /\ pushed[w] \in 0 .. Len(Program) /\ Len(Program) \in Nat
    BY ProgramTypes DEF TypeOK, SlotTypes, PartTypes, PushTypes
  <1>2. s \in Agtr /\ k \in OutstandingKeys(w) /\ OutstandingKeys(w) \in SUBSET Key
    BY <1>pick, OutTypes
  <1>3. /\ t \in 1 .. pushed[w] /\ t \in Task /\ i = MutexOf(t) /\ i \in Key
    <2>1. t \in 1 .. pushed[w] /\ i = MutexOf(t)
      BY <1>0, <1>pick, <1>2 DEF TableInv
    <2>2. t \in Task
      BY <1>1, <2>1 DEF Task
    <2> QED BY <2>1, <2>2, MutexType
  <1>4. BusySlots(w)' = BusySlots(w) \ {s}
        /\ \A a \in BusySlots(w) \ {s} : slot_dpdk_key'[w][a] = slot_dpdk_key[w][a]
    <2>1. /\ slot_ready'[w][s] = TRUE
          /\ \A a \in Agtr : a # s => /\ slot_ready'[w][a] = slot_ready[w][a]
                                      /\ slot_dpdk_key'[w][a] = slot_dpdk_key[w][a]
      BY <1>1, <1>2 DEF FreeSlot
    <2> QED BY <1>2, <2>1 DEF BusySlots
  <1>5. OutstandingKeys(w)' = OutstandingKeys(w) \ {k}
    <2>1. \A a \in DOMAIN pushpulljobQueue[w] : pushpulljobQueue[w][a].key # k
      BY <1>0, <1>pick DEF KeysInv
    <2>2. \A a \in BusySlots(w) \ {s} : slot_dpdk_key[w][a] # k
      BY <1>pick, KeyInItsSlot DEF IndInv
    <2>3. {slot_dpdk_key'[w][a] : a \in BusySlots(w)'}
            = {slot_dpdk_key[w][a] : a \in BusySlots(w)} \ {k}
      BY <1>pick, <1>4, <2>2
    <2> QED BY <2>1, <2>3 DEF OutstandingKeys
  <1>6. /\ OpenKeys(w, t)' = OpenKeys(w, t) \ {k} /\ k \in OpenKeys(w, t)
        /\ \A u : u # t => OpenKeys(w, u)' = OpenKeys(w, u)
    BY <1>pick, <1>2, <1>5 DEF OpenKeys
  <1>7. /\ OpenParts(w, t) \in Nat /\ OpenParts(w, t) > 0
        /\ OpenParts(w, t)' = OpenParts(w, t) - 1
        /\ \A u : u # t => OpenParts(w, u)' = OpenParts(w, u)
    <2>1. /\ IsFiniteSet(OpenKeys(w, t)) /\ Cardinality(OpenKeys(w, t)) \in Nat
          /\ Cardinality(OpenKeys(w, t)) # 0 /\ OpenParts(w, t) \in Nat
          /\ pushing[w].left \in Nat
          /\ OpenParts(w, t) = Cardinality(OpenKeys(w, t))
                                 + (IF t = pushed[w] THEN pushing[w].left ELSE 0)
      BY <1>6, OpenTypes
    <2>2. Cardinality(OpenKeys(w, t) \ {k}) = Cardinality(OpenKeys(w, t)) - 1
      BY <1>6, <2>1, FS_RemoveElement
    <2>3. \A u : OpenParts(w, u)' = Cardinality(OpenKeys(w, u)')
                                      + (IF u = pushed[w] THEN pushing[w].left ELSE 0)
      BY DEF OpenParts, OpenKeys
    <2>4. OpenParts(w, t)' = OpenParts(w, t) - 1
      <3>1. PICK a \in Nat, c \in Nat :
              /\ a = (IF t = pushed[w] THEN pushing[w].left ELSE 0)
              /\ c = Cardinality(OpenKeys(w, t))
        BY <2>1
      <3>2. OpenParts(w, t)' = Cardinality(OpenKeys(w, t)') + a
        BY <2>3, <3>1
      <3>3. Cardinality(OpenKeys(w, t)') = c - 1
        BY <1>6, <2>2, <3>1
      <3>4. OpenParts(w, t) = c + a
        BY <2>1, <3>1
      <3> QED BY <3>2, <3>3, <3>4
    <2>5. \A u : u # t => OpenParts(w, u)' = OpenParts(w, u)
      BY <1>6, <2>3, OpenTypes
    <2> QED BY <2>1, <2>4, <2>5
  <1>8. n + (OpenParts(w, t) - 1) = tensor_key_part_total[w][i]
    <2>1. tensor_key_part_finish[w][i] + OpenParts(w, t) = tensor_key_part_total[w][i]
      BY <1>0, <1>3, <1>7 DEF PartInv
    <2>2. tensor_key_part_finish[w][i] \in Nat
      BY <1>1, <1>3
    <2> QED BY <1>pick, <1>7, <2>1, <2>2
  <1>9. n \in Nat /\ (n = tensor_key_part_total[w][i] <=> OpenParts(w, t)' = 0)
    <2>1. n \in Nat
      BY <1>pick, <1>1, <1>3
    <2> QED BY <1>7, <1>8, <2>1
  <1>10. /\ tensor_key_part_finish' = [tensor_key_part_finish EXCEPT ![w][i] = n]
         /\ finishKeys' = IF n = tensor_key_part_total[w][i]
                            THEN [finishKeys EXCEPT ![w] = Append(@, t)] ELSE finishKeys
    BY <1>pick DEF PartFinished
  <1>11. KeysInv(w)'
    <2>1. KeysFree(w, pushing[w].left)'
      BY <1>0, <1>5 DEF KeysInv, KeysFree
    <2> QED BY <1>0, <1>4, <2>1 DEF KeysInv
  <1>12. TableInv(w)'
    <2>1. DrawnTasks(w)' = DrawnTasks(w)
      BY DEF DrawnTasks
    <2> QED BY <1>0, <1>5, <2>1 DEF TableInv, MutexOf
  <1>13. PartInv(w)'
    <2>1. ASSUME NEW u \in Task, OpenParts(w, u)' > 0
          PROVE  tensor_key_part_finish'[w][MutexOf(u)] + OpenParts(w, u)'
                   = tensor_key_part_total[w][MutexOf(u)]
      <3>1. CASE u = t
        <4>1. tensor_key_part_finish'[w][i] = n
          BY <1>1, <1>3, <1>10
        <4> QED BY <1>3, <1>7, <1>8, <3>1, <4>1
      <3>2. CASE u # t
        <4>1. OpenParts(w, u)' = OpenParts(w, u) /\ OpenParts(w, u) > 0
          BY <1>7, <2>1, <3>2
        <4>2. MutexOf(u) # i /\ MutexOf(u) \in Key
          BY <1>0, <1>3, <1>7, <3>2, <4>1, OwnCounter, MutexType
        <4>3. tensor_key_part_finish'[w][MutexOf(u)] = tensor_key_part_finish[w][MutexOf(u)]
          BY <1>1, <1>3, <1>10, <4>2
        <4> QED BY <1>0, <4>1, <4>3 DEF PartInv
      <3> QED BY <3>1, <3>2
    <2> QED BY <1>0, <2>1 DEF PartInv, MutexOf
  <1>14. EntryInv(w)'
    <2>0. ~Reported(w, t) /\ t \in DPDKTask[w]
      BY <1>0, <1>3, <1>7 DEF EntryInv
    <2>1. CASE n # tensor_key_part_total[w][i]
      <3>1. finishKeys' = finishKeys /\ OpenParts(w, t)' > 0
        BY <1>7, <1>9, <1>10, <2>1
      <3> QED BY <1>0, <1>7, <2>0, <3>1 DEF EntryInv, Reported
    <2>2. CASE n = tensor_key_part_total[w][i]
      <3>pick. PICK f : f = finishKeys[w]
        OBVIOUS
      <3>1. /\ f \in Seq(0 .. Len(Program)) /\ finishKeys'[w] = Append(f, t)
            /\ t \in 0 .. Len(Program)
        BY <1>1, <1>3, <1>10, <2>2, <3>pick
      <3>2. /\ Len(f) \in Nat /\ DOMAIN f = 1 .. Len(f)
            /\ DOMAIN finishKeys'[w] = 1 .. Len(f) + 1 /\ finishKeys'[w][Len(f) + 1] = t
            /\ \A a \in 1 .. Len(f) : finishKeys'[w][a] = f[a]
        BY <3>1
      <3>3. \A a \in 1 .. Len(f) : f[a] # t
        BY <2>0, <3>pick, <3>2 DEF Reported
      <3>4. \A a, b \in DOMAIN finishKeys'[w] : finishKeys'[w][a] = finishKeys'[w][b] => a = b
        <4>1. \A a, b \in 1 .. Len(f) : f[a] = f[b] => a = b
          BY <1>0, <3>pick, <3>2 DEF EntryInv
        <4> SUFFICES ASSUME NEW a \in 1 .. Len(f) + 1, NEW b \in 1 .. Len(f) + 1,
                            finishKeys'[w][a] = finishKeys'[w][b]
                     PROVE  a = b
          BY <3>2
        <4>2. CASE a \in 1 .. Len(f) /\ b \in 1 .. Len(f)
          BY <3>2, <4>1, <4>2
        <4>3. CASE a = Len(f) + 1 /\ b \in 1 .. Len(f)
          BY <3>2, <3>3, <4>3
        <4>4. CASE b = Len(f) + 1 /\ a \in 1 .. Len(f)
          BY <3>2, <3>3, <4>4
        <4> QED BY <3>2, <4>2, <4>3, <4>4
      <3>5. \A a \in DOMAIN finishKeys'[w] : finishKeys'[w][a] \in 1 .. pushed'[w]
        <4>1. \A a \in 1 .. Len(f) : f[a] \in 1 .. pushed[w]
          BY <1>0, <3>pick, <3>2 DEF EntryInv
        <4> SUFFICES ASSUME NEW a \in 1 .. Len(f) + 1
                     PROVE  finishKeys'[w][a] \in 1 .. pushed[w]
          BY <3>2
        <4>2. CASE a \in 1 .. Len(f)
          BY <3>2, <4>1, <4>2
        <4>3. CASE a = Len(f) + 1
          BY <1>3, <3>2, <4>3
        <4> QED BY <3>2, <4>2, <4>3
      <3>6. \A u : Reported(w, u)' <=> (Reported(w, u) \/ u = t)
        <4> SUFFICES ASSUME NEW u PROVE Reported(w, u)' <=> (Reported(w, u) \/ u = t)
          OBVIOUS
        <4>1. ASSUME Reported(w, u)' PROVE Reported(w, u) \/ u = t
          <5>1. PICK a \in 1 .. Len(f) + 1 : finishKeys'[w][a] = u
            BY <3>2, <4>1 DEF Reported
          <5>2. CASE a \in 1 .. Len(f)
            BY <3>pick, <3>2, <5>1, <5>2 DEF Reported
          <5>3. CASE a = Len(f) + 1
            BY <3>2, <5>1, <5>3
          <5> QED BY <3>2, <5>2, <5>3
        <4>2. ASSUME Reported(w, u) PROVE Reported(w, u)'
          <5>1. PICK a \in 1 .. Len(f) : f[a] = u
            BY <3>pick, <3>2, <4>2 DEF Reported
          <5>2. a \in 1 .. Len(f) + 1
            BY <3>2
          <5> QED BY <3>2, <5>1, <5>2 DEF Reported
        <4>3. Reported(w, t)'
          <5>1. Len(f) + 1 \in 1 .. Len(f) + 1
            BY <3>2
          <5> QED BY <3>2, <5>1 DEF Reported
        <4> QED BY <4>1, <4>2, <4>3
      <3>7. OpenParts(w, t)' = 0
        BY <1>9, <2>2
      <3> QED BY <1>0, <1>7, <2>0, <3>4, <3>5, <3>6, <3>7 DEF EntryInv
    <2> QED BY <2>1, <2>2
  <1> QED BY <1>11, <1>12, <1>13, <1>14 DEF WorkerInv

-----------------------------------------------------------------------------
(* DPDKListenerLoop takes a finished task from the queue.                  *)

LEMMA PollFinish ==
  ASSUME TypeOK, NEW w \in Worker, WorkerInv(w), PollFinishKey(w)
  PROVE  WorkerInv(w)'
  <1>0. KeysInv(w) /\ TableInv(w) /\ PartInv(w) /\ EntryInv(w)
    BY DEF WorkerInv
  <1>pick. PICK f, h : f = finishKeys[w] /\ h = Head(f)
    OBVIOUS
  <1>1. /\ f \in Seq(0 .. Len(Program)) /\ finishKeys \in [Worker -> Seq(0 .. Len(Program))]
        /\ DPDKTask \in [Worker -> SUBSET Nat]
    BY <1>pick DEF TypeOK, PartTypes
  <1>2. /\ f # << >> /\ finishKeys'[w] = Tail(f) /\ DPDKTask'[w] = DPDKTask[w] \ {h}
        /\ UNCHANGED <<pushed, pushing, dpdkKey, curr_mutex_idx, dpdk_key_to_tensor_key,
                       dpdk_key_to_mutex_idx, tensor_key_part_total, tensor_key_part_finish,
                       pushpulljobQueue, slot_ready, slot_dpdk_key>>
    BY <1>pick, <1>1 DEF PollFinishKey, pushVars, slotVars
  <1>3. /\ Len(f) \in Nat \ {0} /\ h = f[1] /\ Len(Tail(f)) = Len(f) - 1
        /\ DOMAIN f = 1 .. Len(f) /\ DOMAIN Tail(f) = 1 .. Len(f) - 1
        /\ \A a \in 1 .. Len(f) - 1 : Tail(f)[a] = f[a + 1] /\ a + 1 \in 1 .. Len(f)
    BY <1>pick, <1>1, <1>2
  <1>4. BusySlots(w)' = BusySlots(w) /\ OutstandingKeys(w)' = OutstandingKeys(w)
    BY <1>2, SameOutstanding
  <1>5. /\ \A t : OpenParts(w, t)' = OpenParts(w, t)
        /\ DrawnTasks(w)' = DrawnTasks(w)
    BY <1>2, <1>4, SameOpenParts
  <1>6. KeysInv(w)'
    BY <1>0, <1>2, <1>4 DEF KeysInv, KeysFree
  <1>7. TableInv(w)'
    BY <1>0, <1>2, <1>4, <1>5 DEF TableInv
  <1>8. PartInv(w)'
    BY <1>0, <1>2, <1>5 DEF PartInv
  <1>9. EntryInv(w)'
    <2>1. /\ \A a, b \in 1 .. Len(f) : f[a] = f[b] => a = b
          /\ \A a \in 1 .. Len(f) : f[a] \in 1 .. pushed[w]
      BY <1>0, <1>pick, <1>3 DEF EntryInv
    <2>2. \A a, b \in 1 .. Len(f) - 1 : Tail(f)[a] = Tail(f)[b] => a = b
      <3> SUFFICES ASSUME NEW a \in 1 .. Len(f) - 1, NEW b \in 1 .. Len(f) - 1,
                          Tail(f)[a] = Tail(f)[b]
                   PROVE  a = b
        OBVIOUS
      <3>1. a + 1 = b + 1
        BY <1>3, <2>1
      <3> QED BY <1>3, <3>1
    <2>3. \A a \in 1 .. Len(f) - 1 : Tail(f)[a] \in 1 .. pushed[w]
      BY <1>3, <2>1
    <2>4. \A t : Reported(w, t)' <=> (Reported(w, t) /\ t # h)
      <3> SUFFICES ASSUME NEW t PROVE Reported(w, t)' <=> (Reported(w, t) /\ t # h)
        OBVIOUS
      <3>1. ASSUME Reported(w, t)' PROVE Reported(w, t) /\ t # h
        <4>1. PICK a \in 1 .. Len(f) - 1 : Tail(f)[a] = t
          BY <1>2, <1>3, <3>1 DEF Reported
        <4>2. f[a + 1] = t /\ a + 1 \in 1 .. Len(f) /\ a + 1 # 1 /\ 1 \in 1 .. Len(f)
          BY <1>3, <4>1
        <4> QED BY <1>pick, <1>3, <2>1, <4>2 DEF Reported
      <3>2. ASSUME Reported(w, t), t # h PROVE Reported(w, t)'
        <4>1. PICK a \in 1 .. Len(f) : f[a] = t
          BY <1>pick, <1>3, <3>2 DEF Reported
        <4>2. a # 1
          BY <1>3, <3>2, <4>1
        <4>3. a - 1 \in 1 .. Len(f) - 1 /\ (a - 1) + 1 = a
          BY <1>3, <4>2
        <4>4. Tail(f)[a - 1] = t
          BY <1>3, <4>1, <4>3
        <4> QED BY <1>2, <1>3, <4>3, <4>4 DEF Reported
      <3> QED BY <3>1, <3>2
    <2>5. Reported(w, h)
      <3>1. 1 \in 1 .. Len(f)
        BY <1>3
      <3> QED BY <1>pick, <1>3, <3>1 DEF Reported
    <2>6. ASSUME NEW t \in Task
          PROVE  /\ Reported(w, t)' => t \in DPDKTask'[w] /\ OpenParts(w, t)' = 0
                 /\ t \in DPDKTask'[w] /\ ~Reported(w, t)' => OpenParts(w, t)' > 0
                 /\ OpenParts(w, t)' > 0 => t \in DPDKTask'[w]
      <3>1. /\ Reported(w, t) => t \in DPDKTask[w] /\ OpenParts(w, t) = 0
            /\ t \in DPDKTask[w] /\ ~Reported(w, t) => OpenParts(w, t) > 0
            /\ OpenParts(w, t) > 0 => t \in DPDKTask[w]
        BY <1>0 DEF EntryInv
      <3>2. OpenParts(w, t)' = OpenParts(w, t)
        BY <1>5
      <3>3. CASE t = h
        <4>1. ~(OpenParts(w, t) > 0)
          BY <2>5, <3>1, <3>3
        <4> QED BY <1>2, <2>4, <3>2, <3>3, <4>1
      <3>4. CASE t # h
        BY <1>2, <2>4, <3>1, <3>2, <3>4
      <3> QED BY <3>3, <3>4
    <2>7. DPDKTask'[w] \subseteq 1 .. pushed'[w]
      BY <1>0, <1>2 DEF EntryInv
    <2> QED BY <1>2, <1>3, <2>2, <2>3, <2>6, <2>7 DEF EntryInv
  <1> QED BY <1>6, <1>7, <1>8, <1>9 DEF WorkerInv

-----------------------------------------------------------------------------
(* The step.                                                               *)

\* An action of one worker leaves the tables of the others alone.
LEMMA OtherWorkers ==
  ASSUME TypeOK, NEW w \in Worker, NEW v \in Worker, v # w,
         \/ Client(w) \/ Send(w)
         \/ \E r \in ReplyPacket : WorkerReceive(w, r)
  PROVE  UNCHANGED <<pushed[v], pushing[v], dpdkKey[v], curr_mutex_idx[v],
                     dpdk_key_to_tensor_key[v], dpdk_key_to_mutex_idx[v],
                     tensor_key_part_total[v], tensor_key_part_finish[v],
                     pushpulljobQueue[v], slot_ready[v], slot_dpdk_key[v],
                     finishKeys[v], DPDKTask[v]>>
  <1> USE DEF pushVars, slotVars, partVars
  <1>1. /\ DOMAIN pushed = Worker /\ DOMAIN pushing = Worker /\ DOMAIN dpdkKey = Worker
        /\ DOMAIN curr_mutex_idx = Worker /\ DOMAIN dpdk_key_to_tensor_key = Worker
        /\ DOMAIN dpdk_key_to_mutex_idx = Worker /\ DOMAIN tensor_key_part_total = Worker
        /\ DOMAIN tensor_key_part_finish = Worker /\ DOMAIN pushpulljobQueue = Worker
        /\ DOMAIN slot_ready = Worker /\ DOMAIN slot_dpdk_key = Worker
        /\ DOMAIN finishKeys = Worker /\ DOMAIN DPDKTask = Worker
    BY DEF TypeOK, PushTypes, SlotTypes, PartTypes, ThreadTypes
  <1>2. CASE PushStart(w)
    BY <1>1, <1>2 DEF PushStart, DPDKPushPull
  <1>3. CASE PushJob(w)
    BY <1>1, <1>3 DEF PushJob
  <1>4. CASE TxAssemble(w)
    BY <1>1, <1>4 DEF TxAssemble
  <1>5. CASE ResetBegin(w)
    BY <1>5 DEF ResetBegin
  <1>6. CASE ResetSlot(w)
    BY <1>1, <1>6 DEF ResetSlot, FreeSlot, PartFinished
  <1>7. CASE PollFinishKey(w)
    BY <1>1, <1>7 DEF PollFinishKey
  <1>8. CASE Send(w)
    BY <1>8 DEF Send, TxBurst
  <1>9. ASSUME NEW r \in ReplyPacket, WorkerReceive(w, r)
        PROVE  UNCHANGED <<pushed[v], pushing[v], dpdkKey[v], curr_mutex_idx[v],
                           dpdk_key_to_tensor_key[v], dpdk_key_to_mutex_idx[v],
                           tensor_key_part_total[v], tensor_key_part_finish[v],
                           pushpulljobQueue[v], slot_ready[v], slot_dpdk_key[v],
                           finishKeys[v], DPDKTask[v]>>
    BY <1>1, <1>9 DEF WorkerReceive, RxPacket, FreeSlot, PartFinished
  <1> QED BY <1>2, <1>3, <1>4, <1>5, <1>6, <1>7, <1>8, <1>9 DEF Client

LEMMA OwnStep ==
  ASSUME TypeOK, IndInv, NEW w \in Worker, WorkerInv(w), Client(w) \/ Send(w)
  PROVE  WorkerInv(w)'
  <1> USE DEF pushVars, slotVars, partVars
  <1>1. CASE PushStart(w)
    BY <1>1, PushStartFinish
  <1>2. CASE PushJob(w)
    BY <1>2, PushJobFinish
  <1>3. CASE TxAssemble(w)
    BY <1>3, TxAssembleFinish
  <1>4. CASE ResetBegin(w)
    BY <1>4, SameClient DEF ResetBegin
  <1>5. CASE ResetSlot(w)
    <2>1. resetting[w] \in Agtr
      BY <1>5 DEF TypeOK, ThreadTypes, ResetSlot, QueueUnlocked
    <2>2. CASE slot_ready[w][resetting[w]]
      BY <1>5, <2>2, SameClient DEF ResetSlot
    <2>3. CASE ~slot_ready[w][resetting[w]]
      <3>1. resetting[w] \in BusySlots(w)
        BY <2>1, <2>3 DEF BusySlots
      <3>2. /\ FreeSlot(w, resetting[w]) /\ PartFinished(w, slot_dpdk_key[w][resetting[w]])
            /\ UNCHANGED <<pushVars, pushpulljobQueue, DPDKTask>>
        BY <1>5, <2>3 DEF ResetSlot
      <3> QED BY <3>1, <3>2, PartFinish
    <2> QED BY <2>2, <2>3
  <1>6. CASE PollFinishKey(w)
    BY <1>6, PollFinish
  <1>7. CASE Send(w)
    BY <1>7, SameClient DEF Send, TxBurst
  <1> QED BY <1>1, <1>2, <1>3, <1>4, <1>5, <1>6, <1>7 DEF Client

LEMMA ReceiveStep ==
  ASSUME TypeOK, IndInv, NEW p \in toWorker, WorkerInv(p[1]), WorkerReceive(p[1], p[2])
  PROVE  WorkerInv(p[1])'
  <1> USE DEF pushVars, slotVars, partVars
  <1>1. p[1] \in Worker /\ p[2] \in ReplyPacket /\ p[2].agtr \in Agtr
    BY DEF TypeOK, NetworkTypes, ReplyPacket
  <1>2. CASE Expected(p[1], p[2])
    <2>1. /\ p[2].agtr \in BusySlots(p[1])
          /\ slot_dpdk_key[p[1]][p[2].agtr] = p[2].key
      BY <1>1, <1>2, AwaitedWhenExpected DEF IndInv, BusySlots
    <2>2. /\ FreeSlot(p[1], p[2].agtr) /\ PartFinished(p[1], p[2].key)
          /\ UNCHANGED <<pushVars, pushpulljobQueue, DPDKTask>>
      BY <1>2 DEF WorkerReceive, RxPacket
    <2> QED BY <1>1, <2>1, <2>2, PartFinish
  <1>3. CASE ~Expected(p[1], p[2])
    BY <1>3, SameClient DEF WorkerReceive, RxPacket
  <1> QED BY <1>2, <1>3

LEMMA InitFinish == Init => FinishInv
  <1> SUFFICES ASSUME Init, NEW w \in Worker PROVE WorkerInv(w)
    BY DEF FinishInv, WorkerInv
  <1> USE DEF Init, ClientInit
  <1>0. DPDK_KEY_TOTAL \in Nat \ {0}
    BY Constants
  <1>1. BusySlots(w) = {} /\ OutstandingKeys(w) = {}
    BY DEF BusySlots, OutstandingKeys
  <1>2. ASSUME NEW t \in Task PROVE OpenParts(w, t) = 0
    BY <1>1, FS_EmptySet DEF OpenParts
  <1>3. KeysInv(w) /\ TableInv(w)
    BY <1>1 DEF KeysInv, KeysFree, TableInv
  <1>4. PartInv(w)
    BY <1>0, <1>2 DEF PartInv
  <1>5. EntryInv(w)
    BY <1>2 DEF EntryInv, Reported
  <1> QED BY <1>3, <1>4, <1>5 DEF WorkerInv

LEMMA NextFinish == TypeOK /\ IndInv /\ FinishInv /\ [Next]_vars => FinishInv'
  <1> SUFFICES ASSUME TypeOK, IndInv, FinishInv, [Next]_vars, NEW v \in Worker
               PROVE  WorkerInv(v)'
    BY DEF FinishInv, WorkerInv
  <1>0. WorkerInv(v)
    BY DEF FinishInv, WorkerInv
  <1>1. ASSUME NEW w \in Worker, Client(w) \/ Send(w) PROVE WorkerInv(v)'
    <2>1. CASE v = w
      BY <1>0, <1>1, <2>1, OwnStep
    <2>2. CASE v # w
      BY <1>0, <1>1, <2>2, OtherWorkers, SameClient
    <2> QED BY <2>1, <2>2
  <1>2. ASSUME NEW m \in toPS, ServerReceive(m) PROVE WorkerInv(v)'
    BY <1>0, <1>2, SameClient DEF ServerReceive, clientVars, pushVars, slotVars, partVars
  <1>3. ASSUME NEW p \in toWorker, WorkerReceive(p[1], p[2]) PROVE WorkerInv(v)'
    <2>1. p[1] \in Worker /\ p[2] \in ReplyPacket
      BY DEF TypeOK, NetworkTypes
    <2>2. CASE v = p[1]
      BY <1>0, <1>3, <2>2, ReceiveStep
    <2>3. CASE v # p[1]
      BY <1>0, <1>3, <2>1, <2>3, OtherWorkers, SameClient
    <2> QED BY <2>2, <2>3
  <1>4. CASE UNCHANGED vars
    BY <1>0, <1>4, SameClient DEF vars, clientVars, pushVars, slotVars, partVars
  <1> QED BY <1>1, <1>2, <1>3, <1>4 DEF Next

\* The tables of DPDKPushPull are never overwritten while a packet still
\* needs them, and the part counter of an open task is its own, although
\* neither counter is checked for wrapping.
THEOREM FinishInvariance == Spec => []FinishInv
  <1>1. Init => TypeOK /\ IndInv /\ FinishInv
    BY InitTypeOK, InitIndInv, InitFinish
  <1>2. TypeOK /\ IndInv /\ FinishInv /\ [Next]_vars => TypeOK' /\ IndInv' /\ FinishInv'
    BY NextTypeOK, NextIndInv, NextFinish
  <1> QED BY <1>1, <1>2, PTL DEF Spec

\* Whatever replies, losses and timeouts RxThread and Reset see, a task is
\* reported to DPDKListenerLoop once, after its last part and not before,
\* and a task that has an entry and is not reported has an open part.
THEOREM FinishedOnce == Spec => []FinishedExactlyOnce
  <1>1. FinishInv => FinishedExactlyOnce
    BY DEF FinishInv, EntryInv, FinishedExactlyOnce, Reported
  <1> QED BY <1>1, FinishInvariance, PTL

=============================================================================
