---------------------------- MODULE SwitchProofs -----------------------------
(***************************************************************************)
(* SwitchSystem keeps its types and PassInv, for every set of workers,     *)
(* program, number of slots, of keys and of passes, and KeyInv when all    *)
(* tasks are gradients and no late packet is routed to a worker.           *)
(***************************************************************************)
EXTENDS SwitchInvariant, ClientProofs

-----------------------------------------------------------------------------
(* Registers and slots.                                                    *)

\* The CIRC_TIME registers of a client's slot lie within the switch, and from
\* the last of them, the one a multicast carries, RxThread recovers the slot:
\* the conversions of assemble_dpdk_p4ml_hdrs and RxThread fit together.
THEOREM SlotRecovered ==
  ASSUME NEW m, NEW s \in Agtr, m.cmd = TENSOR_COMM,
         m.agtr = s * CIRC_TIME + (CIRC_TIME - 1)
  PROVE  m.agtr \in Registers /\ AgtrIndex(m) = {s}
  <1> DEFINE C == CIRC_TIME
  <1>1. C \in Nat \ {0} /\ total_aggregator_cnt \in Nat /\ MAX_AGTR_COUNT \in Nat \ {0}
    BY PassAssumption, SlotAssumption
  <1>2. s \in Nat /\ s + 1 <= MAX_AGTR_COUNT
    BY <1>1 DEF Agtr
  <1>3. MAX_AGTR_COUNT * C <= total_aggregator_cnt
    BY RegisterAssumption
  <1> HIDE DEF C
  <1>4. PICK d \in Nat : MAX_AGTR_COUNT = (s + 1) + d
    <2>1. MAX_AGTR_COUNT - (s + 1) \in Nat
      BY <1>1, <1>2
    <2> QED BY <1>1, <1>2, <2>1
  <1>5. /\ ((s + 1) + d) * C = (s * C + C) + d * C
        /\ s * C \in Nat /\ d * C \in Nat
    BY <1>1, <1>2
  <1>6. m.agtr \in Registers
    BY <1>1, <1>3, <1>4, <1>5 DEF Registers, C
  <1>7. AgtrIndex(m) = {s}
    <2>1. CASE m.agtr < CIRC_TIME
      <3>1. s * C = 0
        BY <1>1, <1>5, <2>1 DEF C
      <3>2. s = 0
        BY <1>1, <1>2, <3>1
      <3> QED BY <2>1, <3>2 DEF AgtrIndex
    <2>2. CASE ~(m.agtr < CIRC_TIME)
      <3>1. m.agtr - (CIRC_TIME - 1) = s * C
        BY <1>1, <1>5 DEF C
      <3>2. s * C = C * s + 0 /\ 0 \in 0 .. C - 1
        BY <1>1, <1>2
      <3>3. (s * C) \div C = s
        BY <1>1, <1>2, <1>5, <3>2, DivModUnique
      <3> QED BY <2>2, <3>1, <3>3 DEF AgtrIndex, C
    <2> QED BY <2>1, <2>2
  <1> QED BY <1>6, <1>7

\* Register j of the CIRC_TIME registers of slot s.
LEMMA RegisterOfSlot ==
  ASSUME NEW s \in Agtr, NEW j \in 0 .. CIRC_TIME - 1
  PROVE  /\ s * CIRC_TIME + j \in Registers
         /\ SlotOf(s * CIRC_TIME + j) = s
         /\ (s * CIRC_TIME + j) % CIRC_TIME = j
  <1> DEFINE C == CIRC_TIME
  <1>1. C \in Nat \ {0} /\ total_aggregator_cnt \in Nat /\ MAX_AGTR_COUNT \in Nat \ {0}
    BY PassAssumption, SlotAssumption
  <1>2. s \in Nat /\ s + 1 <= MAX_AGTR_COUNT
    BY <1>1 DEF Agtr
  <1>3. MAX_AGTR_COUNT * C <= total_aggregator_cnt
    BY RegisterAssumption
  <1>4. j \in 0 .. C - 1
    OBVIOUS
  <1> HIDE DEF C
  <1>5. PICK d \in Nat : MAX_AGTR_COUNT = (s + 1) + d
    <2>1. MAX_AGTR_COUNT - (s + 1) \in Nat
      BY <1>1, <1>2
    <2> QED BY <1>1, <1>2, <2>1
  <1>6. /\ ((s + 1) + d) * C = (s * C + C) + d * C
        /\ s * C \in Nat /\ d * C \in Nat /\ s * C = C * s
    BY <1>1, <1>2
  <1>7. s * C + j \in Registers
    BY <1>1, <1>3, <1>4, <1>5, <1>6 DEF Registers
  <1>8. (s * C + j) \div C = s /\ (s * C + j) % C = j
    BY <1>1, <1>2, <1>4, <1>6, DivModUnique
  <1> QED BY <1>7, <1>8 DEF C, SlotOf

\* The next register of the same slot.
LEMMA NextRegister ==
  ASSUME NEW a \in Registers, SlotOf(a) \in Agtr, a % CIRC_TIME # CIRC_TIME - 1
  PROVE  /\ a + 1 \in Registers /\ SlotOf(a + 1) = SlotOf(a)
         /\ (a + 1) % CIRC_TIME = (a % CIRC_TIME) + 1
         /\ (a % CIRC_TIME) + 1 \in 0 .. CIRC_TIME - 1
  <1>1. CIRC_TIME \in Nat \ {0} /\ a \in Nat
    BY PassAssumption DEF Registers
  <1>2. /\ (a + 1) % CIRC_TIME = (a % CIRC_TIME) + 1
        /\ (a + 1) \div CIRC_TIME = a \div CIRC_TIME
    BY <1>1, DivModStep
  <1>3. /\ a = CIRC_TIME * SlotOf(a) + (a % CIRC_TIME)
        /\ a % CIRC_TIME \in 0 .. CIRC_TIME - 1
    BY <1>1, DivMod DEF SlotOf
  <1>4. PICK s \in Agtr, j \in 0 .. CIRC_TIME - 1 : s = SlotOf(a) /\ j = (a % CIRC_TIME) + 1
    BY <1>1, <1>3
  <1>5. s \in Nat
    BY DEF Agtr
  <1>6. s * CIRC_TIME + j = a + 1
    <2>1. PICK x \in Nat : x = CIRC_TIME * s /\ s * CIRC_TIME = x
      BY <1>1, <1>5
    <2>2. PICK r \in Nat : r = a % CIRC_TIME
      BY <1>3
    <2>3. a = x + r /\ j = r + 1
      BY <1>3, <1>4, <2>1, <2>2
    <2>4. x + j = a + 1
      BY <1>1, <2>3
    <2> QED BY <2>1, <2>4
  <1>7. a + 1 \in Registers
    BY <1>6, RegisterOfSlot
  <1> QED BY <1>1, <1>2, <1>3, <1>7 DEF SlotOf

\* The slot RxThread computes from the register of any packet is a slot.
LEMMA IndexIsSlot ==
  ASSUME NEW m \in Packet, Placed(m)
  PROVE  AgtrIndex(m) \subseteq Agtr
  <1>1. m.agtr \in Nat /\ CIRC_TIME \in Nat \ {0} /\ SlotOf(m.agtr) \in Agtr
    BY PassAssumption DEF Packet, Registers, Placed
  <1>2. PICK s \in Nat, j \in 0 .. CIRC_TIME - 1 :
          s = SlotOf(m.agtr) /\ j = m.agtr % CIRC_TIME /\ m.agtr = CIRC_TIME * s + j
    BY <1>1, DivMod DEF SlotOf
  <1>3. CASE m.cmd # TENSOR_COMM
    BY <1>3 DEF AgtrIndex
  <1>4. CASE m.agtr < CIRC_TIME
    <2>1. 0 \in Agtr
      BY Constants DEF Agtr
    <2> QED BY <1>4, <2>1 DEF AgtrIndex
  <1>5. CASE m.cmd = TENSOR_COMM /\ ~(m.agtr < CIRC_TIME)
    <2>1. PICK n \in Nat : n = m.agtr - (CIRC_TIME - 1)
      BY <1>1, <1>5
    <2>2. n \div CIRC_TIME \in Nat /\ n = CIRC_TIME * (n \div CIRC_TIME) + (n % CIRC_TIME)
          /\ n % CIRC_TIME \in 0 .. CIRC_TIME - 1
      BY <1>1, DivMod
    <2>3. n \div CIRC_TIME <= s
      <3>1. PICK q \in Nat, r \in Nat : q = n \div CIRC_TIME /\ r = n % CIRC_TIME
                                       /\ n = CIRC_TIME * q + r
        BY <2>2
      <3> SUFFICES ASSUME q >= s + 1 PROVE FALSE
        BY <3>1
      <3>2. PICK d \in Nat : q = (s + 1) + d
        <4>1. q - (s + 1) \in Nat
          OBVIOUS
        <4> QED BY <4>1
      <3>3. PICK x \in Nat, y \in Nat :
              /\ CIRC_TIME * ((s + 1) + d) = x + CIRC_TIME + y
              /\ x = CIRC_TIME * s /\ y = CIRC_TIME * d
        BY <1>1
      <3>4. n = x + CIRC_TIME + y + r
        BY <3>1, <3>2, <3>3
      <3>5. m.agtr = x + j
        BY <1>2, <3>3
      <3> QED BY <1>1, <2>1, <3>4, <3>5
    <2>4. n \div CIRC_TIME \in Agtr
      BY <1>1, <1>2, <2>2, <2>3, Constants DEF Agtr
    <2> QED BY <1>5, <2>1, <2>4 DEF AgtrIndex
  <1> QED BY <1>3, <1>4, <1>5

-----------------------------------------------------------------------------
(* One pass of a packet.                                                   *)

LEMMA PacketFields ==
  ASSUME NEW m \in Packet
  PROVE  /\ m.worker \in Worker /\ m.agtr \in Registers /\ m.round \in Nat /\ m.key \in Key
         /\ m.cmd \in PushCmd /\ m.norm \in Nat /\ m.packet_type \in {0, 1}
         /\ m.recirc_time \in 0 .. CIRC_TIME - 1
         /\ m.vector \in [1 .. CIRC_TIME -> Chunk]
         /\ 1 \in 1 .. CIRC_TIME /\ Entries(m) \in Chunk
  <1>1. 1 \in 1 .. CIRC_TIME
    BY PassAssumption
  <1> QED BY <1>1 DEF Packet, Entries

\* What the registers and the packet are after the pass.
LEMMA PassTypes ==
  ASSUME SwitchTypes, NEW m \in Packet, Placed(m)
  PROVE  /\ CountAfter(m) \in 1 .. NUM_WORKER /\ NormAfter(m) \in Nat
         /\ RegisterAfter(m) \in Chunk
         /\ Aggregated(m) \in Packet /\ Placed(Aggregated(m))
         /\ Aggregated(m).worker = m.worker /\ Aggregated(m).agtr = m.agtr
         /\ Aggregated(m).round = m.round /\ Aggregated(m).key = m.key
         /\ Aggregated(m).cmd = m.cmd /\ Aggregated(m).recirc_time = m.recirc_time
         /\ Entries(Aggregated(m)) = RegisterAfter(m)
  <1>1. /\ m.agtr \in Registers /\ m.norm \in Nat /\ Entries(m) \in Chunk
        /\ m.vector \in [1 .. CIRC_TIME -> Chunk] /\ 1 \in 1 .. CIRC_TIME
        /\ m.packet_type = 0
    BY PacketFields DEF Placed
  <1>2. /\ receive_count[m.agtr] \in 0 .. NUM_WORKER /\ norm_info[m.agtr] \in Nat
        /\ register[m.agtr] \in Chunk
    BY <1>1 DEF SwitchTypes, SwitchTypeOK
  <1>3. CountAfter(m) \in 1 .. NUM_WORKER
    BY <1>2, Constants DEF CountAfter
  <1>4. NormAfter(m) \in Nat
    BY <1>1, <1>2 DEF NormAfter
  <1>5. RegisterAfter(m) \in Chunk
    BY <1>1, <1>2 DEF RegisterAfter, Chunk
  <1>6. VectorAfter(m) \in [1 .. CIRC_TIME -> Chunk] /\ VectorAfter(m)[1] = RegisterAfter(m)
    BY <1>1, <1>5 DEF VectorAfter
  <1>7. PICK n \in Nat, v \in [1 .. CIRC_TIME -> Chunk] : n = NormAfter(m) /\ v = VectorAfter(m)
    BY <1>4, <1>6
  <1>8. Aggregated(m) = [m EXCEPT !.norm = n, !.vector = v]
    BY <1>7 DEF Aggregated
  <1>9. /\ Aggregated(m) \in Packet
        /\ Aggregated(m).worker = m.worker /\ Aggregated(m).agtr = m.agtr
        /\ Aggregated(m).round = m.round /\ Aggregated(m).key = m.key
        /\ Aggregated(m).cmd = m.cmd /\ Aggregated(m).recirc_time = m.recirc_time
        /\ Aggregated(m).packet_type = m.packet_type /\ Aggregated(m).vector = v
    BY <1>8 DEF Packet
  <1> QED BY <1>3, <1>4, <1>5, <1>6, <1>7, <1>9 DEF Placed, Entries

LEMMA NextPassTypes ==
  ASSUME SwitchTypes, NEW m \in Packet, Placed(m), ~LastPass(m)
  PROVE  /\ NextPass(m) \in Packet /\ Placed(NextPass(m))
         /\ NextPass(m).worker = m.worker /\ NextPass(m).agtr = m.agtr + 1
         /\ SlotOf(NextPass(m).agtr) = SlotOf(m.agtr)
         /\ NextPass(m).round = m.round /\ NextPass(m).key = m.key
         /\ NextPass(m).cmd = m.cmd /\ Entries(NextPass(m)) = RegisterAfter(m)
  <1>1. /\ Aggregated(m) \in Packet /\ Placed(Aggregated(m))
        /\ Aggregated(m).worker = m.worker /\ Aggregated(m).agtr = m.agtr
        /\ Aggregated(m).round = m.round /\ Aggregated(m).key = m.key
        /\ Aggregated(m).cmd = m.cmd /\ Aggregated(m).recirc_time = m.recirc_time
        /\ Entries(Aggregated(m)) = RegisterAfter(m)
    BY PassTypes
  <1>2. /\ m.agtr \in Registers /\ SlotOf(m.agtr) \in Agtr
        /\ m.recirc_time = m.agtr % CIRC_TIME
        /\ m.recirc_time \in 0 .. CIRC_TIME - 1
    BY PacketFields DEF Placed
  <1>3. m.agtr % CIRC_TIME # CIRC_TIME - 1
    BY <1>2 DEF LastPass
  <1>4. /\ m.agtr + 1 \in Registers /\ SlotOf(m.agtr + 1) = SlotOf(m.agtr)
        /\ (m.agtr + 1) % CIRC_TIME = m.recirc_time + 1
        /\ m.recirc_time + 1 \in 0 .. CIRC_TIME - 1
    BY <1>2, <1>3, NextRegister
  <1>5. PICK g \in Packet, a \in Registers, c \in 0 .. CIRC_TIME - 1 :
          g = Aggregated(m) /\ a = m.agtr + 1 /\ c = m.recirc_time + 1
    BY <1>1, <1>4
  <1>6. NextPass(m) = [g EXCEPT !.agtr = a, !.recirc_time = c]
    BY <1>1, <1>5 DEF NextPass
  <1>7. /\ NextPass(m) \in Packet /\ NextPass(m).worker = g.worker /\ NextPass(m).agtr = a
        /\ NextPass(m).round = g.round /\ NextPass(m).key = g.key /\ NextPass(m).cmd = g.cmd
        /\ NextPass(m).recirc_time = c /\ NextPass(m).vector = g.vector
        /\ NextPass(m).packet_type = g.packet_type
    BY <1>6 DEF Packet
  <1>8. Placed(NextPass(m))
    BY <1>1, <1>2, <1>4, <1>5, <1>7 DEF Placed
  <1> QED BY <1>1, <1>4, <1>5, <1>7, <1>8 DEF Entries

LEMMA ZeroedTypes ==
  ASSUME NEW m \in Packet, Placed(m)
  PROVE  /\ Zeroed(m) \in Packet /\ Placed(Zeroed(m))
         /\ Entries(Zeroed(m)) = Empty
  <1>1. Empty \in Chunk /\ m.vector \in [1 .. CIRC_TIME -> Chunk] /\ 1 \in 1 .. CIRC_TIME
    BY PacketFields DEF Empty, Chunk
  <1>2. PICK v : v = [m.vector EXCEPT ![1] = Empty]
    OBVIOUS
  <1>v. v \in [1 .. CIRC_TIME -> Chunk] /\ v[1] = Empty
    BY <1>1, <1>2
  <1>z. PICK z \in Nat : z = 0
    OBVIOUS
  <1>3. Zeroed(m) = [m EXCEPT !.round = z, !.vector = v]
    BY <1>z, <1>2 DEF Zeroed
  <1>4. /\ Zeroed(m) \in Packet /\ Zeroed(m).agtr = m.agtr /\ Zeroed(m).vector = v
        /\ Zeroed(m).recirc_time = m.recirc_time /\ Zeroed(m).packet_type = m.packet_type
    BY <1>v, <1>3 DEF Packet
  <1> QED BY <1>v, <1>4 DEF Placed, Entries

\* What a client puts on the wire.
LEMMA AssembledTypes ==
  ASSUME NEW p \in TxPacket, NEW h, h = assemble_dpdk_p4ml_hdrs(p)
  PROVE  /\ h \in Packet /\ Placed(h) /\ SlotOf(h.agtr) = p.agtr
         /\ h.worker = p.worker /\ h.round = p.round /\ h.key = p.key /\ h.cmd = p.cmd
         /\ Entries(h) = Gradient(p.worker, p.key)
  <1>1. /\ p.worker \in Worker /\ p.agtr \in Agtr /\ p.round \in Nat /\ p.key \in Key
        /\ p.cmd \in PushCmd /\ p.norm = 0
    BY DEF TxPacket
  <1>2. CIRC_TIME \in Nat \ {0} /\ 0 \in 0 .. CIRC_TIME - 1 /\ 1 \in 1 .. CIRC_TIME
    BY PassAssumption
  <1>3. PICK a \in Registers : /\ a = p.agtr * CIRC_TIME /\ SlotOf(a) = p.agtr
                               /\ a % CIRC_TIME = 0
    <2>1. p.agtr * CIRC_TIME + 0 = p.agtr * CIRC_TIME
      BY <1>1, <1>2 DEF Agtr
    <2> QED BY <1>1, <1>2, <2>1, RegisterOfSlot
  <1>4. Gradient(p.worker, p.key) \in Chunk
    BY <1>1 DEF Gradient, Chunk
  <1>v. PICK v : v = [c \in 1 .. CIRC_TIME |-> Gradient(p.worker, p.key)]
    OBVIOUS
  <1>5. v \in [1 .. CIRC_TIME -> Chunk] /\ v[1] = Gradient(p.worker, p.key)
    BY <1>v, <1>2, <1>4
  <1>6. h = [worker |-> p.worker, agtr |-> a, round |-> p.round, key |-> p.key,
             cmd |-> p.cmd, norm |-> p.norm, packet_type |-> 0, recirc_time |-> 0,
             vector |-> v]
    BY <1>3, <1>v DEF assemble_dpdk_p4ml_hdrs
  <1>7. h \in Packet
    BY <1>1, <1>2, <1>5, <1>6 DEF Packet
  <1> QED BY <1>1, <1>3, <1>5, <1>6, <1>7 DEF Placed, Entries

-----------------------------------------------------------------------------
(* The recirculation port.                                                 *)

LEMMA AppendElems ==
  ASSUME NEW S, NEW q \in Seq(S), NEW x \in S
  PROVE  /\ Append(q, x) \in Seq(S)
         /\ Len(q) \in Nat /\ DOMAIN q = 1 .. Len(q)
         /\ DOMAIN Append(q, x) = 1 .. Len(q) + 1
         /\ \A i \in 1 .. Len(q) : Append(q, x)[i] = q[i]
         /\ Append(q, x)[Len(q) + 1] = x
         /\ Elems(Append(q, x)) = Elems(q) \cup {x}
  <1>1. /\ Append(q, x) \in Seq(S)
        /\ Len(q) \in Nat /\ DOMAIN q = 1 .. Len(q)
        /\ DOMAIN Append(q, x) = 1 .. Len(q) + 1
        /\ \A i \in 1 .. Len(q) : Append(q, x)[i] = q[i]
        /\ Append(q, x)[Len(q) + 1] = x
    OBVIOUS
  <1>2. Elems(Append(q, x)) \subseteq Elems(q) \cup {x}
    <2> SUFFICES ASSUME NEW i \in 1 .. Len(q) + 1
                 PROVE  Append(q, x)[i] \in Elems(q) \cup {x}
      BY <1>1 DEF Elems
    <2>1. CASE i \in 1 .. Len(q)
      BY <1>1, <2>1 DEF Elems
    <2>2. CASE i = Len(q) + 1
      BY <1>1, <2>2
    <2> QED BY <1>1, <2>1, <2>2
  <1>3. ASSUME NEW i \in 1 .. Len(q) PROVE q[i] \in Elems(Append(q, x))
    <2>1. i \in 1 .. Len(q) + 1 /\ Append(q, x)[i] = q[i]
      BY <1>1
    <2> QED BY <1>1, <2>1 DEF Elems
  <1>4. x \in Elems(Append(q, x))
    <2>1. Len(q) + 1 \in 1 .. Len(q) + 1
      BY <1>1
    <2> QED BY <1>1, <2>1 DEF Elems
  <1>5. Elems(q) \subseteq Elems(Append(q, x))
    BY <1>1, <1>3 DEF Elems
  <1> QED BY <1>1, <1>2, <1>4, <1>5

LEMMA TailElems ==
  ASSUME NEW S, NEW q \in Seq(S), q # << >>
  PROVE  /\ Tail(q) \in Seq(S) /\ Len(q) \in Nat \ {0} /\ Head(q) = q[1]
         /\ DOMAIN q = 1 .. Len(q) /\ DOMAIN Tail(q) = 1 .. Len(q) - 1
         /\ \A i \in 1 .. Len(q) - 1 : Tail(q)[i] = q[i + 1] /\ i + 1 \in 1 .. Len(q)
         /\ Head(q) \in Elems(q) /\ Elems(Tail(q)) \subseteq Elems(q)
  <1>1. /\ Tail(q) \in Seq(S) /\ Len(q) \in Nat \ {0} /\ Head(q) = q[1]
        /\ DOMAIN q = 1 .. Len(q) /\ DOMAIN Tail(q) = 1 .. Len(q) - 1
        /\ \A i \in 1 .. Len(q) - 1 : Tail(q)[i] = q[i + 1] /\ i + 1 \in 1 .. Len(q)
    OBVIOUS
  <1>2. Head(q) \in Elems(q)
    <2>1. 1 \in 1 .. Len(q)
      BY <1>1
    <2> QED BY <1>1, <2>1 DEF Elems
  <1>3. Elems(Tail(q)) \subseteq Elems(q)
    BY <1>1 DEF Elems
  <1> QED BY <1>1, <1>2, <1>3

\* A packet enters the pipeline from the network or from the port, and rest
\* stays on the port.
Taken(m, rest) ==
  \/ m \in toSwitch /\ rest = recirculating /\ toSwitch' = toSwitch \ {m}
  \/ /\ recirculating # << >> /\ m = Head(recirculating) /\ rest = Tail(recirculating)
     /\ toSwitch' = toSwitch

LEMMA TakenTypes ==
  ASSUME SwitchTypes, NEW m, NEW rest, Taken(m, rest)
  PROVE  /\ m \in UnderWay /\ m \in Packet /\ Placed(m)
         /\ rest \in Seq(Packet) /\ Elems(rest) \subseteq OnPort
         /\ Elems(rest) \subseteq UnderWay /\ toSwitch' \subseteq toSwitch
  <1>1. /\ toSwitch \subseteq Packet /\ recirculating \in Seq(Packet)
        /\ \A x \in UnderWay : Placed(x)
    BY DEF SwitchTypes, SwitchTypeOK
  <1>2. CASE m \in toSwitch /\ rest = recirculating /\ toSwitch' = toSwitch \ {m}
    BY <1>1, <1>2 DEF UnderWay, OnPort
  <1>3. CASE /\ recirculating # << >> /\ m = Head(recirculating) /\ rest = Tail(recirculating)
             /\ toSwitch' = toSwitch
    <2>1. /\ rest \in Seq(Packet) /\ m \in OnPort /\ Elems(rest) \subseteq OnPort
      BY <1>1, <1>3, TailElems DEF OnPort
    <2>2. m \in Packet
      BY <1>1, <1>3
    <2> QED BY <1>1, <1>3, <2>1, <2>2 DEF UnderWay
  <1> QED BY <1>2, <1>3 DEF Taken

\* What is under way afterwards.
LEMMA PortAfter ==
  ASSUME SwitchTypes, NEW m, NEW rest, Taken(m, rest), Ingress(m, rest)
  PROVE  /\ recirculating' \in Seq(Packet)
         /\ OnPort' = Elems(rest) \cup (IF Recirculates(m) THEN {NextPass(m)} ELSE {})
         /\ UnderWay' = toSwitch' \cup Elems(rest)
                          \cup (IF Recirculates(m) THEN {NextPass(m)} ELSE {})
  <1>1. rest \in Seq(Packet) /\ m \in Packet /\ Placed(m)
    BY TakenTypes
  <1>2. recirculating' = IF Recirculates(m) THEN Append(rest, NextPass(m)) ELSE rest
    BY DEF Ingress, SwitchPass
  <1>3. CASE Recirculates(m)
    <2>1. NextPass(m) \in Packet
      BY <1>1, <1>3, NextPassTypes DEF Recirculates
    <2>2. /\ Append(rest, NextPass(m)) \in Seq(Packet)
          /\ Elems(Append(rest, NextPass(m))) = Elems(rest) \cup {NextPass(m)}
      BY <1>1, <2>1, AppendElems
    <2>3. recirculating' = Append(rest, NextPass(m))
      BY <1>2, <1>3
    <2>4. OnPort' = Elems(rest) \cup {NextPass(m)}
      BY <2>2, <2>3 DEF OnPort, Elems
    <2> QED BY <1>3, <2>2, <2>3, <2>4 DEF UnderWay
  <1>4. CASE ~Recirculates(m)
    <2>1. recirculating' = rest
      BY <1>2, <1>4
    <2>2. OnPort' = Elems(rest)
      BY <2>1 DEF OnPort, Elems
    <2> QED BY <1>1, <1>4, <2>1, <2>2 DEF UnderWay
  <1> QED BY <1>3, <1>4

-----------------------------------------------------------------------------
(* Types.                                                                  *)

LEMMA IngressTypes ==
  ASSUME SwitchTypes, NEW m, NEW rest, Taken(m, rest), Ingress(m, rest)
  PROVE  SwitchTypes'
  <1>1. /\ m \in Packet /\ Placed(m) /\ m \in UnderWay /\ Elems(rest) \subseteq UnderWay
        /\ toSwitch' \subseteq toSwitch /\ rest \in Seq(Packet)
    BY TakenTypes
  <1>2. /\ roundNumbers  \in [Registers -> Nat] /\ receive_count \in [Registers -> 0 .. NUM_WORKER]
        /\ bitmap \in [Registers -> SUBSET Worker] /\ norm_info \in [Registers -> Nat]
        /\ register \in [Registers -> Chunk] /\ toSwitch \subseteq Packet
        /\ toWorker \subseteq Worker \X Packet /\ answered \in [Registers -> Seq(Nat)]
        /\ \A x \in UnderWay : Placed(x)
        /\ \A p \in toWorker : Placed(p[2])
    BY DEF SwitchTypes, SwitchTypeOK
  <1>3. m.agtr \in Registers /\ m.round \in Nat /\ m.worker \in Worker
    BY <1>1, PacketFields
  <1>4. /\ CountAfter(m) \in 0 .. NUM_WORKER /\ NormAfter(m) \in Nat /\ RegisterAfter(m) \in Chunk
        /\ Aggregated(m) \in Packet /\ Placed(Aggregated(m))
    BY <1>1, PassTypes
  <1>5. /\ roundNumbers' \in [Registers -> Nat] /\ receive_count' \in [Registers -> 0 .. NUM_WORKER]
        /\ bitmap' \in [Registers -> SUBSET Worker] /\ norm_info' \in [Registers -> Nat]
        /\ register' \in [Registers -> Chunk]
    <2>1. CASE Stale(m)
      BY <1>2, <2>1 DEF Ingress, SwitchPass, registerVars
    <2>2. CASE ~Stale(m)
      <3>1. /\ roundNumbers'  = [roundNumbers  EXCEPT ![m.agtr] = m.round]
            /\ receive_count' = [receive_count EXCEPT ![m.agtr] = CountAfter(m)]
            /\ norm_info'     = [norm_info     EXCEPT ![m.agtr] = NormAfter(m)]
            /\ register'      = [register      EXCEPT ![m.agtr] = RegisterAfter(m)]
        BY <2>2 DEF Ingress, SwitchPass
      <3>2. PICK B \in SUBSET Worker : bitmap' = [bitmap EXCEPT ![m.agtr] = B]
        <4>1. PICK B : B = IF Completes(m) THEN {}
                           ELSE IF LastPass(m) THEN bitmap[m.agtr] \cup {m.worker}
                           ELSE bitmap[m.agtr]
          OBVIOUS
        <4>2. B \in SUBSET Worker
          BY <1>2, <1>3, <4>1
        <4>3. bitmap' = [bitmap EXCEPT ![m.agtr] = B]
          BY <2>2, <4>1 DEF Ingress, SwitchPass
        <4> QED BY <4>2, <4>3
      <3> QED BY <1>2, <1>3, <1>4, <3>1, <3>2
    <2> QED BY <2>1, <2>2
  <1>6. /\ recirculating' \in Seq(Packet)
        /\ UnderWay' \subseteq UnderWay \cup (IF Recirculates(m) THEN {NextPass(m)} ELSE {})
    BY <1>1, PortAfter DEF UnderWay
  <1>7. \A x \in UnderWay' : Placed(x)
    <2>1. Recirculates(m) => Placed(NextPass(m))
      BY <1>1, NextPassTypes DEF Recirculates
    <2> QED BY <1>2, <1>6, <2>1
  <1>8. /\ toWorker' \subseteq Worker \X Packet
        /\ \A p \in toWorker' : Placed(p[2])
    <2>1. Zeroed(m) \in Packet /\ Placed(Zeroed(m))
      BY <1>1, ZeroedTypes
    <2>2. toWorker' \subseteq toWorker \cup (Worker \X {Aggregated(m), Zeroed(m)})
      BY RouteAssumption DEF Ingress
    <2>3. \A p \in toWorker' : p \in toWorker \/ p[2] = Aggregated(m) \/ p[2] = Zeroed(m)
      BY <2>2
    <2>4. toWorker' \subseteq Worker \X Packet
      BY <1>2, <1>4, <2>1, <2>2
    <2> QED BY <1>2, <1>4, <2>1, <2>3, <2>4
  <1>9. answered' \in [Registers -> Seq(Nat)]
    <2>1. Append(answered[m.agtr], m.round) \in Seq(Nat)
      BY <1>2, <1>3
    <2> QED BY <1>2, <1>3, <2>1 DEF Ingress
  <1>10. ClientTypes' /\ UNCHANGED <<txpkt, slot_roundnum, slot_ready>>
    BY SameClientTypes DEF SwitchTypes, Ingress, clientVars, slotVars
  <1>11. \A i \in DOMAIN recirculating' : recirculating'[i] \in Packet
    BY <1>6
  <1>12. SwitchTypeOK'
    BY <1>1, <1>2, <1>5, <1>8, <1>10, <1>11 DEF SwitchTypeOK, SwitchTypes
  <1> QED BY <1>6, <1>7, <1>8, <1>9, <1>10, <1>12 DEF SwitchTypes, Placed, SlotOf


LEMMA InitTypes == Init => SwitchTypes
  <1> SUFFICES ASSUME Init PROVE SwitchTypes
    OBVIOUS
  <1>1. ClientTypes
    BY InitClientTypes DEF Init
  <1>2. NUM_WORKER \in Nat /\ Empty \in Chunk /\ total_aggregator_cnt \in Nat
    BY Constants, PassAssumption DEF Empty, Chunk
  <1>3. /\ roundNumbers  \in [Registers -> Nat] /\ receive_count \in [Registers -> 0 .. NUM_WORKER]
        /\ bitmap \in [Registers -> SUBSET Worker] /\ norm_info \in [Registers -> Nat]
        /\ register \in [Registers -> Chunk]
    BY <1>2 DEF Init, SwitchInit
  <1>4. /\ recirculating \in Seq(Packet) /\ UnderWay = {} /\ toWorker = {} /\ toSwitch = {}
        /\ \A i \in DOMAIN recirculating : recirculating[i] \in Packet
    BY DEF Init, SwitchInit, UnderWay, OnPort, Elems
  <1>5. txpkt \in [Worker -> TxPacket \cup {NoPacket}] /\ answered \in [Registers -> Seq(Nat)]
    BY DEF Init, ClientInit
  <1>6. SwitchTypeOK
    BY <1>1, <1>3, <1>4 DEF SwitchTypeOK, ClientTypes, SlotTypes
  <1> QED BY <1>1, <1>4, <1>5, <1>6 DEF SwitchTypes

\* What a step leaves alone keeps its types.
LEMMA SameSwitchTypes ==
  ASSUME SwitchTypes, ClientTypes', txpkt' \in [Worker -> TxPacket \cup {NoPacket}],
         UNCHANGED <<registerVars, answered>>, recirculating' \in Seq(Packet),
         UnderWay' \subseteq Packet, \A m \in UnderWay' : Placed(m),
         toWorker' \subseteq toWorker
  PROVE  SwitchTypes'
  <1>1. /\ roundNumbers'  \in [Registers -> Nat] /\ receive_count' \in [Registers -> 0 .. NUM_WORKER]
        /\ bitmap' \in [Registers -> SUBSET Worker] /\ norm_info' \in [Registers -> Nat]
        /\ register' \in [Registers -> Chunk] /\ answered' \in [Registers -> Seq(Nat)]
    BY DEF SwitchTypes, SwitchTypeOK, registerVars
  <1>2. /\ toWorker' \subseteq Worker \X Packet /\ \A p \in toWorker' : Placed(p[2])
    BY DEF SwitchTypes, SwitchTypeOK
  <1>3. /\ \A i \in DOMAIN recirculating' : recirculating'[i] \in Packet
        /\ toSwitch' \subseteq Packet
    BY DEF UnderWay
  <1>4. SwitchTypeOK'
    BY <1>1, <1>2, <1>3 DEF SwitchTypeOK, ClientTypes, SlotTypes
  <1> QED BY <1>1, <1>2, <1>4 DEF SwitchTypes, Placed, SlotOf

LEMMA TxAssembleTypes ==
  ASSUME SwitchTypes, NEW w \in Worker, TxAssemble(w)
  PROVE  \E p \in TxPacket :
           /\ txpkt' = [txpkt EXCEPT ![w] = p] /\ p.worker = w
           /\ p.round = slot_roundnum[w][p.agtr] /\ slot_ready[w][p.agtr]
           /\ slot_ready' = [slot_ready EXCEPT ![w][p.agtr] = FALSE]
           /\ slot_roundnum' = slot_roundnum
           /\ p.agtr = AgtrOf(Head(pushpulljobQueue[w]).key)
           /\ p.key = Head(pushpulljobQueue[w]).key /\ p.cmd = Head(pushpulljobQueue[w]).cmd
  <1>1. pushpulljobQueue[w] \in Seq(Job) /\ pushpulljobQueue[w] # << >>
    BY DEF SwitchTypes, ClientTypes, TxAssemble
  <1>2. PICK j \in Job : j = Head(pushpulljobQueue[w])
    BY <1>1
  <1>3. PICK k \in Key, c \in PushCmd : k = j.key /\ c = j.cmd
    BY DEF Job
  <1>4. PICK s \in Agtr : s = AgtrOf(k)
    <2>1. k \in Nat
      BY Constants DEF Key
    <2> QED BY <2>1, SlotOfKey
  <1>5. PICK n \in Nat : n = slot_roundnum[w][s]
    BY DEF SwitchTypes, ClientTypes, SlotTypes
  <1>6. PICK p : p = [worker |-> w, agtr |-> s, round |-> n, key |-> k, cmd |-> c, norm |-> 0]
    OBVIOUS
  <1>7. p \in TxPacket /\ p.worker = w /\ p.agtr = s /\ p.round = n /\ p.key = k /\ p.cmd = c
    BY <1>6 DEF TxPacket
  <1>8. /\ txpkt' = [txpkt EXCEPT ![w] = p] /\ slot_ready[w][s]
        /\ slot_ready' = [slot_ready EXCEPT ![w][s] = FALSE]
        /\ slot_roundnum' = slot_roundnum
    BY <1>2, <1>3, <1>4, <1>5, <1>6 DEF TxAssemble
  <1> QED BY <1>2, <1>3, <1>4, <1>5, <1>7, <1>8

LEMMA SendTypes ==
  ASSUME SwitchTypes, NEW w \in Worker, Send(w)
  PROVE  /\ \E p \in TxPacket, h \in Packet :
              /\ p = txpkt[w] /\ h = assemble_dpdk_p4ml_hdrs(p)
              /\ Placed(h) /\ UnderWay' = UnderWay \cup {h}
         /\ txpkt' = [txpkt EXCEPT ![w] = NoPacket]
         /\ OnPort' = OnPort
  <1>1. PICK p \in TxPacket : p = txpkt[w]
    BY DEF SwitchTypes, Send, TxBurst
  <1>2. PICK h : h = assemble_dpdk_p4ml_hdrs(p)
    OBVIOUS
  <1>3. h \in Packet /\ Placed(h)
    BY <1>2, AssembledTypes
  <1>4. toSwitch' = toSwitch \cup {h} /\ OnPort' = OnPort
    BY <1>1, <1>2 DEF Send, switchVars, OnPort, Elems
  <1>5. UnderWay' = UnderWay \cup {h}
    BY <1>4 DEF UnderWay
  <1>6. txpkt' = [txpkt EXCEPT ![w] = NoPacket]
    BY DEF Send, TxBurst
  <1> QED BY <1>1, <1>2, <1>3, <1>4, <1>5, <1>6

LEMMA NextTypes == SwitchTypes /\ [Next]_vars => SwitchTypes'
  <1> SUFFICES ASSUME SwitchTypes, [Next]_vars PROVE SwitchTypes'
    OBVIOUS
  <1>0. /\ ClientTypes /\ txpkt \in [Worker -> TxPacket \cup {NoPacket}]
        /\ recirculating \in Seq(Packet) /\ UnderWay \subseteq Packet
        /\ \A m \in UnderWay : Placed(m)
    <2>1. toSwitch \subseteq Packet /\ OnPort \subseteq Packet
      BY DEF SwitchTypes, SwitchTypeOK, OnPort, Elems
    <2> QED BY <2>1 DEF SwitchTypes, UnderWay
  <1>1. ASSUME NEW w \in Worker, Client(w) PROVE SwitchTypes'
    <2>1. ClientTypes'
      BY <1>0, <1>1, ClientStepTypes DEF Client
    <2>2. /\ UNCHANGED <<registerVars, answered, recirculating, toWorker>> /\ UnderWay' = UnderWay
      BY <1>1 DEF Client, switchVars, netVars, UnderWay, OnPort, Elems
    <2>3. txpkt' \in [Worker -> TxPacket \cup {NoPacket}]
      <3>1. CASE TxAssemble(w)
        BY <1>0, <3>1, TxAssembleTypes
      <3>2. CASE ~TxAssemble(w)
        <4>1. txpkt' = txpkt
          BY <1>1, <3>2 DEF Client, PushStart, DPDKPushPull, PushJob, ResetBegin, ResetSlot, PollFinishKey
        <4> QED BY <1>0, <4>1
      <3> QED BY <3>1, <3>2
    <2> QED BY <1>0, <2>1, <2>2, <2>3, SameSwitchTypes
  <1>2. ASSUME NEW w \in Worker, Send(w) PROVE SwitchTypes'
    <2>1. ClientTypes'
      BY <1>0, <1>2, ClientStepTypes DEF Send
    <2>2. UNCHANGED <<registerVars, answered, recirculating, toWorker>>
      BY <1>2 DEF Send, switchVars
    <2>3. PICK h \in Packet : Placed(h) /\ UnderWay' = UnderWay \cup {h}
      BY <1>2, SendTypes
    <2>4. txpkt' \in [Worker -> TxPacket \cup {NoPacket}]
      BY <1>0, <1>2, SendTypes
    <2>5. UnderWay' \subseteq Packet /\ \A m \in UnderWay' : Placed(m)
      BY <1>0, <2>3
    <2> QED BY <1>0, <2>1, <2>2, <2>4, <2>5, SameSwitchTypes
  <1>3. ASSUME NEW m \in toSwitch, Arrive(m) PROVE SwitchTypes'
    BY <1>3, IngressTypes DEF Arrive, Taken
  <1>4. CASE Recirculate
    BY <1>4, IngressTypes DEF Recirculate, Taken
  <1>5. CASE RecirculationDrop
    <2>1. ClientTypes' /\ txpkt' = txpkt
      BY <1>0, <1>5, SameClientTypes DEF RecirculationDrop, clientVars
    <2>2. recirculating' = Tail(recirculating)
      BY <1>5 DEF RecirculationDrop
    <2>3. recirculating' \in Seq(Packet) /\ OnPort' \subseteq OnPort
      <3>1. Tail(recirculating) \in Seq(Packet) /\ Elems(Tail(recirculating)) \subseteq Elems(recirculating)
        BY <1>0, <1>5, TailElems DEF RecirculationDrop
      <3> QED BY <2>2, <3>1 DEF OnPort, Elems
    <2>4. UnderWay' \subseteq UnderWay
      BY <1>5, <2>3 DEF RecirculationDrop, UnderWay, netVars
    <2>5. UNCHANGED <<registerVars, answered, toWorker>>
      BY <1>5 DEF RecirculationDrop, netVars
    <2> QED BY <1>0, <2>1, <2>3, <2>4, <2>5, SameSwitchTypes
  <1>6. ASSUME NEW p \in toWorker, WorkerReceive(p[1], p[2]) PROVE SwitchTypes'
    <2>1. p[1] \in Worker /\ p[2] \in Packet /\ Placed(p[2])
      BY DEF SwitchTypes, SwitchTypeOK
    <2>2. PICK s \in AgtrIndex(p[2]) : RxPacket(p[1], AsReply(p[2], s))
      BY <1>6 DEF WorkerReceive
    <2>3. s \in Agtr
      BY <2>1, IndexIsSlot
    <2>4. AsReply(p[2], s).agtr \in Agtr /\ AsReply(p[2], s).key \in Key
      BY <2>1, <2>3, PacketFields DEF AsReply
    <2>5. ClientTypes'
      BY <1>0, <2>1, <2>2, <2>4, RxPacketTypes
    <2>6. txpkt' = txpkt
      BY <2>2 DEF RxPacket
    <2>7. /\ UNCHANGED <<registerVars, answered, recirculating>> /\ UnderWay' = UnderWay
          /\ toWorker' \subseteq toWorker
      BY <1>6 DEF WorkerReceive, switchVars, UnderWay, OnPort, Elems
    <2> QED BY <1>0, <2>5, <2>6, <2>7, SameSwitchTypes
  <1>7. CASE UNCHANGED vars
    <2>1. ClientTypes' /\ txpkt' = txpkt
      BY <1>0, <1>7, SameClientTypes DEF vars, clientVars
    <2>2. /\ UNCHANGED <<registerVars, answered, recirculating>> /\ UnderWay' = UnderWay
          /\ toWorker' \subseteq toWorker
      BY <1>7 DEF vars, switchVars, netVars, UnderWay, OnPort, Elems
    <2> QED BY <1>0, <2>1, <2>2, SameSwitchTypes
  <1> QED BY <1>1, <1>2, <1>3, <1>4, <1>5, <1>6, <1>7 DEF Next

\* No pass of a packet leaves the registers and no packet goes around more
\* often than it has chunks, whatever the network loses, reorders or routes.
THEOREM SwitchTypeCorrect == Spec => []SwitchTypeOK
  <1>1. SwitchTypes => SwitchTypeOK
    BY DEF SwitchTypes
  <1> QED BY InitTypes, NextTypes, <1>1, PTL DEF Spec

-----------------------------------------------------------------------------
(* PassInv.                                                                *)

\* What a step does to the slots of the clients: nothing, one is freed, or
\* one is taken.
SlotStep ==
  \/ UNCHANGED <<slot_roundnum, slot_ready>>
  \/ \E w \in Worker, s \in Agtr : FreeSlot(w, s)
  \/ \E w \in Worker, s \in Agtr :
       slot_roundnum' = slot_roundnum /\ slot_ready' = [slot_ready EXCEPT ![w][s] = FALSE]

\* A packet that has left its worker has left it for good: rounds only grow.
LEMMA LeftStays ==
  ASSUME SwitchTypes, SlotStep
  PROVE  \A v \in Worker, t \in Agtr, r \in Nat : Left(v, t, r) => Left(v, t, r)'
  <1>1. slot_roundnum \in [Worker -> [Agtr -> Nat]] /\ slot_ready \in [Worker -> [Agtr -> BOOLEAN]]
    BY DEF SwitchTypes, ClientTypes, SlotTypes
  <1>2. CASE UNCHANGED <<slot_roundnum, slot_ready>>
    BY <1>2 DEF Left
  <1>3. ASSUME NEW w \in Worker, NEW s \in Agtr, FreeSlot(w, s),
               NEW v \in Worker, NEW t \in Agtr, NEW r \in Nat, Left(v, t, r)
        PROVE  Left(v, t, r)'
    <2>1. CASE v = w /\ t = s
      <3>1. slot_roundnum'[w][s] = slot_roundnum[w][s] + 1
        BY <1>1, <1>3 DEF FreeSlot
      <3>2. slot_roundnum[w][s] \in Nat
        BY <1>1
      <3>3. r <= slot_roundnum[w][s]
        BY <1>3, <2>1, <3>2 DEF Left
      <3> QED BY <2>1, <3>1, <3>2, <3>3 DEF Left
    <2>2. CASE ~(v = w /\ t = s)
      <3>1. slot_roundnum'[v][t] = slot_roundnum[v][t] /\ slot_ready'[v][t] = slot_ready[v][t]
        BY <1>1, <1>3, <2>2 DEF FreeSlot
      <3> QED BY <1>3, <3>1 DEF Left
    <2> QED BY <2>1, <2>2
  <1>4. ASSUME NEW w \in Worker, NEW s \in Agtr, slot_roundnum' = slot_roundnum,
               slot_ready' = [slot_ready EXCEPT ![w][s] = FALSE],
               NEW v \in Worker, NEW t \in Agtr, NEW r \in Nat, Left(v, t, r)
        PROVE  Left(v, t, r)'
    <2>1. ~slot_ready[v][t] => ~slot_ready'[v][t]
      BY <1>1, <1>4
    <2> QED BY <1>4, <2>1 DEF Left
  <1> QED BY <1>2, <1>3, <1>4 DEF SlotStep

LEMMA PassedNow ==
  ASSUME NEW w, NEW a, NEW s, NEW r, s = SlotOf(a), r = roundNumbers[a]
  PROVE  Passed(w, a) <=> /\ Left(w, s, r) /\ ~Unsent(w, s, r)
                          /\ \A m \in UnderWay : IsPacket(m, w, s, r) => a < m.agtr
  BY DEF Passed

LEMMA PassedNext ==
  ASSUME NEW w, NEW a, NEW s, NEW r, s = SlotOf(a), r = roundNumbers'[a]
  PROVE  Passed(w, a)' <=> /\ Left(w, s, r)' /\ ~(Unsent(w, s, r)')
                           /\ \A m \in UnderWay' : IsPacket(m, w, s, r) => a < m.agtr
  BY DEF Passed, IsPacket, Left, Unsent, SlotOf

\* A register that a step leaves alone, when the packets that have passed it
\* stay past it.
LEMMA CountedStays ==
  ASSUME SwitchTypes, NEW a \in Registers, SlotOf(a) \in Agtr, NEW W \in SUBSET Worker, Counted(W, a),
         roundNumbers'[a] = roundNumbers[a], receive_count'[a] = receive_count[a],
         register'[a] = register[a], SlotStep,
         \A w \in Worker, r \in Nat :
           Left(w, SlotOf(a), r) /\ Unsent(w, SlotOf(a), r)' => Unsent(w, SlotOf(a), r),
         \A w \in W, m \in UnderWay' :
           IsPacket(m, w, SlotOf(a), roundNumbers[a]) => a < m.agtr
  PROVE  Counted(W, a)'
  <1>1. PICK s \in Agtr, r \in Nat : s = SlotOf(a) /\ r = roundNumbers[a]
    BY DEF SwitchTypes, SwitchTypeOK
  <1>2. ASSUME NEW w \in W PROVE Passed(w, a)'
    <2>0. w \in Worker
      OBVIOUS
    <2>1. Left(w, s, r) /\ ~Unsent(w, s, r)
      BY <1>1, <1>2, PassedNow DEF Counted
    <2>2. Left(w, s, r)'
      BY <2>0, <2>1, LeftStays
    <2>3. ~(Unsent(w, s, r)')
      BY <1>1, <2>0, <2>1
    <2>4. \A m \in UnderWay' : IsPacket(m, w, s, r) => a < m.agtr
      BY <1>1
    <2> QED BY <1>1, <2>2, <2>3, <2>4, PassedNext
  <1>3. receive_count'[a] = Cardinality(W) /\ \A w \in W : register'[a][w] # << >>
    BY DEF Counted
  <1> QED BY <1>2, <1>3 DEF Counted

\* The worker, slot and round of a packet under way, as constants.
LEMMA UnderWayTypes ==
  ASSUME SwitchTypes
  PROVE  /\ UnderWay \subseteq Packet
         /\ \A m \in UnderWay :
              /\ Placed(m) /\ m.worker \in Worker /\ SlotOf(m.agtr) \in Agtr /\ m.round \in Nat
              /\ m.agtr \in Registers
  <1>1. UnderWay \subseteq Packet
    BY DEF SwitchTypes, SwitchTypeOK, UnderWay, OnPort, Elems
  <1> QED BY <1>1, PacketFields DEF SwitchTypes, Placed

\* The packets that stay on their way have left their workers.
LEMMA LeftInvStays ==
  ASSUME SwitchTypes, PassInv, SlotStep, UnderWay' \subseteq UnderWay, toWorker' \subseteq toWorker
  PROVE  PacketInv' /\ \A p \in Multicasts' : Multicast(p[2])'
  <1>1. \A w \in Worker, s \in Agtr, r \in Nat : Left(w, s, r) => Left(w, s, r)'
    BY LeftStays
  <1>2. ASSUME NEW m \in UnderWay'
        PROVE  Left(m.worker, SlotOf(m.agtr), m.round)' /\ Entries(m)[m.worker] # << >>
    <2>1. Left(m.worker, SlotOf(m.agtr), m.round) /\ Entries(m)[m.worker] # << >>
      BY DEF PassInv, PacketInv
    <2>2. PICK w \in Worker, s \in Agtr, r \in Nat :
            w = m.worker /\ s = SlotOf(m.agtr) /\ r = m.round
      BY UnderWayTypes
    <2>3. Left(w, s, r)'
      BY <1>1, <2>1, <2>2
    <2> QED BY <2>1, <2>2, <2>3 DEF Left, SlotOf
  <1>3. ASSUME NEW p \in Multicasts' PROVE Multicast(p[2])'
    <2>1. p \in Multicasts /\ p \in toWorker
      BY DEF Multicasts
    <2>2. PICK m \in Packet, s \in Agtr, r \in Nat :
            m = p[2] /\ s = SlotOf(m.agtr) /\ r = m.round
      BY <2>1, PacketFields DEF SwitchTypes, SwitchTypeOK, Placed
    <2>3. Multicast(m)
      BY <2>1, <2>2 DEF PassInv
    <2>4. \A w \in Worker : Left(w, s, r)'
      BY <1>1, <2>2, <2>3 DEF Multicast
    <2> QED BY <2>2, <2>3, <2>4 DEF Multicast, Left, Entries, SlotOf
  <1> QED BY <1>2, <1>3 DEF PacketInv, Left, Entries, SlotOf

\* Packets only disappear, and the registers stay.
LEMMA QuietPass ==
  ASSUME SwitchTypes, PassInv, SlotStep, UNCHANGED <<registerVars, txpkt, answered>>,
         toSwitch' \subseteq toSwitch, toWorker' \subseteq toWorker,
         \/ recirculating' = recirculating
         \/ recirculating # << >> /\ recirculating' = Tail(recirculating)
  PROVE  PassInv'
  <1>0. /\ recirculating \in Seq(Packet) /\ txpkt \in [Worker -> TxPacket \cup {NoPacket}]
        /\ toSwitch \subseteq Packet /\ toWorker \subseteq Worker \X Packet
        /\ \A m \in UnderWay : Placed(m)
        /\ \A p \in toWorker : Placed(p[2])
    BY DEF SwitchTypes, SwitchTypeOK
  <1>1. OnPort' \subseteq OnPort /\ Distinct(recirculating)'
    <2>1. CASE recirculating' = recirculating
      BY <2>1 DEF OnPort, Elems, PassInv, OneCopyInv, Distinct, SameId, IsPacket, SlotOf
    <2>2. CASE recirculating # << >> /\ recirculating' = Tail(recirculating)
      <3>1. PICK q \in Seq(Packet) : q = recirculating
        BY <1>0
      <3>2. /\ DOMAIN q = 1 .. Len(q) /\ DOMAIN Tail(q) = 1 .. Len(q) - 1 /\ Len(q) \in Nat \ {0}
            /\ \A i \in 1 .. Len(q) - 1 : Tail(q)[i] = q[i + 1] /\ i + 1 \in 1 .. Len(q)
            /\ Elems(Tail(q)) \subseteq Elems(q)
        BY <2>2, <3>1, TailElems
      <3>3. OnPort' \subseteq OnPort
        <4>1. Elems(Tail(recirculating)) \subseteq Elems(recirculating)
          BY <3>1, <3>2
        <4> QED BY <2>2, <4>1 DEF OnPort, Elems
      <3>4. Distinct(q)
        BY <3>1 DEF PassInv, OneCopyInv
      <3>5. Distinct(Tail(q))
        <4> SUFFICES ASSUME NEW i \in 1 .. Len(q) - 1, NEW j \in 1 .. Len(q) - 1,
                            SameId(Tail(q)[i], Tail(q)[j])
                     PROVE  i = j
          BY <3>2 DEF Distinct
        <4>1. SameId(q[i + 1], q[j + 1]) /\ i + 1 \in DOMAIN q /\ j + 1 \in DOMAIN q
          BY <3>2
        <4>2. i + 1 = j + 1
          BY <3>4, <4>1 DEF Distinct
        <4> QED BY <4>2
      <3>6. Distinct(recirculating)'
        BY <2>2, <3>1, <3>5 DEF Distinct, SameId, IsPacket, SlotOf
      <3> QED BY <3>3, <3>6
    <2> QED BY <2>1, <2>2
  <1>2. UnderWay' \subseteq UnderWay
    BY <1>1 DEF UnderWay
  <1>3. \A w \in Worker, s \in Agtr, r \in Nat : Left(w, s, r) => Left(w, s, r)'
    BY LeftStays
  <1>5. TxInv'
    <2> SUFFICES ASSUME NEW w \in Worker, txpkt[w] # NoPacket
                 PROVE  (/\ txpkt[w].worker = w
                         /\ Left(w, txpkt[w].agtr, txpkt[w].round)
                         /\ \A m \in UnderWay : ~IsPacket(m, w, txpkt[w].agtr, txpkt[w].round))'
      BY DEF TxInv
    <2>1. PICK p \in TxPacket : p = txpkt[w] /\ p = txpkt'[w]
      BY <1>0
    <2>2. /\ p.worker = w /\ Left(w, p.agtr, p.round)
          /\ \A m \in UnderWay : ~IsPacket(m, w, p.agtr, p.round)
      BY <2>1 DEF PassInv, TxInv
    <2>3. Left(w, p.agtr, p.round)'
      BY <1>3, <2>2 DEF TxPacket
    <2>4. \A m \in UnderWay' : ~IsPacket(m, w, p.agtr, p.round)
      BY <1>2, <2>2
    <2> QED BY <2>1, <2>2, <2>3, <2>4 DEF IsPacket, Left, SlotOf
  <1>6. OneCopyInv'
    <2>1. /\ \A m1, m2 \in toSwitch' : SameId(m1, m2) => m1 = m2
          /\ \A m1 \in toSwitch', m2 \in OnPort' : ~SameId(m1, m2)
      BY <1>1 DEF PassInv, OneCopyInv
    <2> QED BY <1>1, <2>1 DEF OneCopyInv, SameId, IsPacket, SlotOf
  <1>7. PacketInv' /\ \A p \in Multicasts' : Multicast(p[2])'
    BY <1>2, LeftInvStays
  <1>8. CountInv'
    <2>1. ASSUME NEW a \in Registers, SlotOf(a) \in Agtr
          PROVE  \E W \in SUBSET Worker : Counted(W, a)'
      <3>1. PICK W \in SUBSET Worker : Counted(W, a)
        BY <2>1 DEF PassInv, CountInv
      <3>2. \A w \in Worker, r \in Nat :
              Left(w, SlotOf(a), r) /\ Unsent(w, SlotOf(a), r)' => Unsent(w, SlotOf(a), r)
        BY DEF Unsent, SlotOf
      <3>3. \A w \in W, m \in UnderWay' :
              IsPacket(m, w, SlotOf(a), roundNumbers[a]) => a < m.agtr
        BY <1>2, <3>1 DEF Counted, Passed
      <3>4. /\ roundNumbers'[a] = roundNumbers[a] /\ receive_count'[a] = receive_count[a]
            /\ register'[a] = register[a]
        BY DEF registerVars
      <3> QED BY <2>1, <3>1, <3>2, <3>3, <3>4, CountedStays
    <2> QED BY <2>1 DEF CountInv, SlotOf
  <1>9. AnsweredInv'
    BY DEF PassInv, AnsweredInv, OneMulticastPerRound, registerVars
  <1> QED BY <1>5, <1>6, <1>7, <1>8, <1>9 DEF PassInv

\* A slot that is ready has not yet sent its round: no trace of the packet.
LEMMA TxAssemblePass ==
  ASSUME SwitchTypes, PassInv, NEW w \in Worker, TxAssemble(w), UNCHANGED <<switchVars, netVars>>
  PROVE  PassInv'
  <1>1. PICK p \in TxPacket :
           /\ txpkt' = [txpkt EXCEPT ![w] = p] /\ p.worker = w
           /\ p.round = slot_roundnum[w][p.agtr] /\ slot_ready[w][p.agtr]
           /\ slot_ready' = [slot_ready EXCEPT ![w][p.agtr] = FALSE]
           /\ slot_roundnum' = slot_roundnum
    BY TxAssembleTypes
  <1>2. PICK s \in Agtr, r \in Nat : s = p.agtr /\ r = p.round
    BY DEF TxPacket
  <1>3. /\ txpkt \in [Worker -> TxPacket \cup {NoPacket}]
        /\ slot_roundnum \in [Worker -> [Agtr -> Nat]] /\ slot_ready \in [Worker -> [Agtr -> BOOLEAN]]
        /\ \A q \in toWorker : Placed(q[2]) /\ q[2] \in Packet
    BY DEF SwitchTypes, ClientTypes, SlotTypes, SwitchTypeOK
  <1>4. txpkt[w] = NoPacket
    BY DEF TxAssemble
  <1>5. ~Left(w, s, r)
    BY <1>1, <1>2, <1>3 DEF Left
  <1>6. Left(w, s, r)'
    BY <1>1, <1>2, <1>3 DEF Left
  <1>7. SlotStep
    BY <1>1, <1>2 DEF SlotStep
  <1>8. \A v \in Worker, t \in Agtr, n \in Nat : Left(v, t, n) => Left(v, t, n)'
    BY <1>7, LeftStays
  <1>9. /\ UNCHANGED <<registerVars, recirculating, toSwitch, toWorker, answered>>
        /\ UnderWay' = UnderWay /\ OnPort' = OnPort
    BY DEF switchVars, netVars, UnderWay, OnPort, Elems
  <1>10. TxInv'
    <2> SUFFICES ASSUME NEW v \in Worker, txpkt'[v] # NoPacket
                 PROVE  (/\ txpkt[v].worker = v
                         /\ Left(v, txpkt[v].agtr, txpkt[v].round)
                         /\ \A m \in UnderWay : ~IsPacket(m, v, txpkt[v].agtr, txpkt[v].round))'
      BY DEF TxInv
    <2>1. PICK x \in TxPacket : x = txpkt'[v]
      BY <1>1, <1>3
    <2>2. /\ x.worker = v /\ Left(v, x.agtr, x.round)'
          /\ \A m \in UnderWay : ~IsPacket(m, v, x.agtr, x.round)
      <3>1. CASE v = w
        <4>1. x = p
          BY <1>1, <1>3, <2>1, <3>1
        <4>2. ASSUME NEW m \in UnderWay, IsPacket(m, w, s, r) PROVE FALSE
          BY <1>5, <4>2 DEF PassInv, PacketInv, IsPacket
        <4>3. Left(v, x.agtr, x.round)'
          BY <1>2, <1>6, <3>1, <4>1
        <4> QED BY <1>1, <1>2, <3>1, <4>1, <4>2, <4>3
      <3>2. CASE v # w
        <4>1. txpkt[v] = x
          BY <1>1, <1>3, <2>1, <3>2
        <4>2. x # NoPacket
          BY <2>1
        <4>3. /\ x.worker = v /\ Left(v, x.agtr, x.round)
              /\ \A m \in UnderWay : ~IsPacket(m, v, x.agtr, x.round)
          BY <4>1, <4>2 DEF PassInv, TxInv
        <4>4. Left(v, x.agtr, x.round)'
          BY <1>8, <4>3 DEF TxPacket
        <4> QED BY <4>3, <4>4
      <3> QED BY <3>1, <3>2
    <2> QED BY <1>9, <2>1, <2>2 DEF IsPacket, Left, SlotOf
  <1>11. OneCopyInv'
    BY <1>9 DEF PassInv, OneCopyInv, Distinct, SameId, IsPacket, SlotOf
  <1>12. PacketInv' /\ \A q \in Multicasts' : Multicast(q[2])'
    BY <1>7, <1>9, LeftInvStays
  <1>13. CountInv'
    <2>1. ASSUME NEW a \in Registers, SlotOf(a) \in Agtr
          PROVE  \E W \in SUBSET Worker : Counted(W, a)'
      <3>1. PICK W \in SUBSET Worker : Counted(W, a)
        BY <2>1 DEF PassInv, CountInv
      <3>2. ASSUME NEW v \in Worker, NEW n \in Nat, Left(v, SlotOf(a), n), Unsent(v, SlotOf(a), n)'
            PROVE  Unsent(v, SlotOf(a), n)
        <4>1. PICK t \in Agtr : t = SlotOf(a)
          BY <2>1
        <4>2. txpkt'[v] # NoPacket /\ txpkt'[v].agtr = t /\ txpkt'[v].round = n
          BY <3>2, <4>1 DEF Unsent, SlotOf
        <4>3. v # w
          <5>1. v = w => txpkt'[v] = p
            BY <1>1, <1>3
          <5>2. v = w => t = s /\ n = r
            BY <1>2, <4>2, <5>1
          <5> QED BY <1>5, <3>2, <4>1, <5>2
        <4>4. txpkt'[v] = txpkt[v]
          BY <1>1, <1>3, <4>3
        <4> QED BY <4>1, <4>2, <4>4 DEF Unsent
      <3>3. \A v \in W, m \in UnderWay' :
              IsPacket(m, v, SlotOf(a), roundNumbers[a]) => a < m.agtr
        BY <1>9, <3>1 DEF Counted, Passed
      <3>4. /\ roundNumbers'[a] = roundNumbers[a] /\ receive_count'[a] = receive_count[a]
            /\ register'[a] = register[a]
        BY <1>9 DEF registerVars
      <3> QED BY <1>7, <2>1, <3>1, <3>2, <3>3, <3>4, CountedStays
    <2> QED BY <2>1 DEF CountInv, SlotOf
  <1>14. AnsweredInv'
    BY <1>9 DEF PassInv, AnsweredInv, OneMulticastPerRound, registerVars
  <1> QED BY <1>10, <1>11, <1>12, <1>13, <1>14 DEF PassInv

\* The packet moves from the worker to the network.
LEMMA SendPass ==
  ASSUME SwitchTypes, PassInv, NEW w \in Worker, Send(w)
  PROVE  PassInv'
  <1>1. PICK p \in TxPacket, h \in Packet :
          /\ p = txpkt[w] /\ h = assemble_dpdk_p4ml_hdrs(p)
          /\ Placed(h) /\ UnderWay' = UnderWay \cup {h}
    BY SendTypes
  <1>2. txpkt' = [txpkt EXCEPT ![w] = NoPacket] /\ OnPort' = OnPort
    BY SendTypes
  <1>3. txpkt \in [Worker -> TxPacket \cup {NoPacket}]
    BY DEF SwitchTypes
  <1>4. PICK s \in Agtr, r \in Nat, k \in Key : s = p.agtr /\ r = p.round /\ k = p.key
    BY DEF TxPacket
  <1>5. p # NoPacket
    BY <1>1 DEF Send, TxBurst
  <1>6. /\ p.worker = w /\ Left(w, s, r)
        /\ \A m \in UnderWay : ~IsPacket(m, w, s, r)
    BY <1>1, <1>4, <1>5 DEF PassInv, TxInv
  <1>7. /\ IsPacket(h, w, s, r) /\ h.worker = w /\ SlotOf(h.agtr) = s /\ h.round = r
        /\ Entries(h) = Gradient(w, k)
    BY <1>1, <1>4, <1>6, AssembledTypes DEF IsPacket
  <1>8. /\ UNCHANGED <<registerVars, recirculating, toWorker, answered, slotVars>>
        /\ toSwitch' = toSwitch \cup {h}
    BY <1>1 DEF Send, TxBurst, switchVars
  <1>9. SlotStep /\ \A v, t, n : Left(v, t, n)' <=> Left(v, t, n)
    BY <1>8 DEF SlotStep, Left, slotVars
  <1>10. TxInv'
    <2> SUFFICES ASSUME NEW v \in Worker, txpkt'[v] # NoPacket
                 PROVE  (/\ txpkt[v].worker = v
                         /\ Left(v, txpkt[v].agtr, txpkt[v].round)
                         /\ \A m \in UnderWay : ~IsPacket(m, v, txpkt[v].agtr, txpkt[v].round))'
      BY DEF TxInv
    <2>1. v # w /\ txpkt'[v] = txpkt[v]
      BY <1>2, <1>3
    <2>2. PICK x : x = txpkt'[v] /\ x = txpkt[v]
      BY <2>1
    <2>3. /\ x.worker = v /\ Left(v, x.agtr, x.round)
          /\ \A m \in UnderWay : ~IsPacket(m, v, x.agtr, x.round)
      BY <2>2 DEF PassInv, TxInv
    <2>4. ~IsPacket(h, v, x.agtr, x.round)
      BY <1>7, <2>1 DEF IsPacket
    <2>5. \A m \in UnderWay' : ~IsPacket(m, v, x.agtr, x.round)
      BY <1>1, <2>3, <2>4
    <2>6. Left(v, x.agtr, x.round)'
      BY <1>9, <2>3
    <2> QED BY <2>2, <2>3, <2>5, <2>6 DEF IsPacket, Left, SlotOf
  <1>11. OneCopyInv'
    <2>1. \A m \in UnderWay : ~SameId(m, h) /\ ~SameId(h, m)
      BY <1>6, <1>7 DEF SameId, IsPacket
    <2>2. toSwitch \subseteq UnderWay /\ OnPort \subseteq UnderWay
      BY DEF UnderWay
    <2>3. \A m1, m2 \in toSwitch' : SameId(m1, m2) => m1 = m2
      BY <1>8, <2>1, <2>2 DEF PassInv, OneCopyInv
    <2>4. \A m1 \in toSwitch', m2 \in OnPort : ~SameId(m1, m2)
      BY <1>8, <2>1, <2>2 DEF PassInv, OneCopyInv
    <2>5. Distinct(recirculating)'
      BY <1>8 DEF PassInv, OneCopyInv, Distinct, SameId, IsPacket, SlotOf
    <2> QED BY <1>2, <2>3, <2>4, <2>5 DEF OneCopyInv, SameId, IsPacket, SlotOf
  <1>12. PacketInv'
    <2>1. Entries(h)[h.worker] # << >>
      BY <1>7 DEF Gradient
    <2>2. ASSUME NEW m \in UnderWay'
          PROVE  Left(m.worker, SlotOf(m.agtr), m.round) /\ Entries(m)[m.worker] # << >>
      <3>1. CASE m \in UnderWay
        BY <3>1 DEF PassInv, PacketInv
      <3>2. CASE m = h
        BY <1>6, <1>7, <2>1, <3>2
      <3> QED BY <1>1, <3>1, <3>2
    <2>3. \A m \in UnderWay' : Left(m.worker, SlotOf(m.agtr), m.round)'
                               /\ Entries(m)[m.worker] # << >>
      BY <1>8, <2>2 DEF Left, slotVars, SlotOf
    <2> QED BY <2>3 DEF PacketInv, Left, Entries, SlotOf
  <1>13. CountInv'
    <2>1. ASSUME NEW a \in Registers, SlotOf(a) \in Agtr
          PROVE  \E W \in SUBSET Worker : Counted(W, a)'
      <3>1. PICK W \in SUBSET Worker : Counted(W, a)
        BY <2>1 DEF PassInv, CountInv
      <3>2. ASSUME NEW v \in Worker, NEW n \in Nat, Left(v, SlotOf(a), n), Unsent(v, SlotOf(a), n)'
            PROVE  Unsent(v, SlotOf(a), n)
        <4>1. txpkt'[v] # NoPacket /\ txpkt'[v].agtr = SlotOf(a) /\ txpkt'[v].round = n
          BY <3>2 DEF Unsent, SlotOf
        <4>2. txpkt'[v] = txpkt[v]
          BY <1>2, <1>3, <4>1
        <4> QED BY <4>1, <4>2 DEF Unsent
      <3>3. ASSUME NEW v \in W, NEW m \in UnderWay',
                   IsPacket(m, v, SlotOf(a), roundNumbers[a])
            PROVE  a < m.agtr
        <4>1. Passed(v, a)
          BY <3>1 DEF Counted
        <4>2. m # h
          <5>1. m = h => v = w /\ SlotOf(a) = s /\ roundNumbers[a] = r
            BY <1>7, <3>3 DEF IsPacket
          <5>2. Unsent(w, s, r)
            BY <1>1, <1>4, <1>5 DEF Unsent
          <5> QED BY <4>1, <5>1, <5>2 DEF Passed
        <4> QED BY <1>1, <3>3, <4>1, <4>2 DEF Passed
      <3>4. /\ roundNumbers'[a] = roundNumbers[a] /\ receive_count'[a] = receive_count[a]
            /\ register'[a] = register[a]
        BY <1>8 DEF registerVars
      <3> QED BY <1>9, <2>1, <3>1, <3>2, <3>3, <3>4, CountedStays
    <2> QED BY <2>1 DEF CountInv, SlotOf
  <1>14. AnsweredInv'
    BY <1>8 DEF PassInv, AnsweredInv, OneMulticastPerRound, registerVars
  <1>15. \A q \in Multicasts' : Multicast(q[2])'
    BY <1>8 DEF PassInv, Multicasts, Multicast, Left, Entries, slotVars, SlotOf
  <1> QED BY <1>10, <1>11, <1>12, <1>13, <1>14, <1>15 DEF PassInv

\* The packet that enters the pipeline was in no other place.
LEMMA TakenOnce ==
  ASSUME SwitchTypes, PassInv, NEW m, NEW rest, Taken(m, rest)
  PROVE  /\ \A x \in toSwitch' \cup Elems(rest) : ~SameId(x, m) /\ ~SameId(m, x)
         /\ Distinct(rest)
         /\ \A m1, m2 \in toSwitch' : SameId(m1, m2) => m1 = m2
         /\ \A m1 \in toSwitch', m2 \in Elems(rest) : ~SameId(m1, m2)
  <1>1. /\ \A m1, m2 \in toSwitch : SameId(m1, m2) => m1 = m2
        /\ Distinct(recirculating)
        /\ \A m1 \in toSwitch, m2 \in OnPort : ~SameId(m1, m2)
    BY DEF PassInv, OneCopyInv
  <1>2. \A x, y : SameId(x, y) <=> SameId(y, x)
    BY DEF SameId, IsPacket
  <1>3. CASE m \in toSwitch /\ rest = recirculating /\ toSwitch' = toSwitch \ {m}
    BY <1>1, <1>2, <1>3 DEF OnPort
  <1>4. CASE /\ recirculating # << >> /\ m = Head(recirculating) /\ rest = Tail(recirculating)
             /\ toSwitch' = toSwitch
    <2>1. PICK q \in Seq(Packet) : q = recirculating
      BY DEF SwitchTypes
    <2>2. /\ DOMAIN q = 1 .. Len(q) /\ DOMAIN rest = 1 .. Len(q) - 1 /\ Len(q) \in Nat \ {0}
          /\ \A i \in 1 .. Len(q) - 1 : rest[i] = q[i + 1] /\ i + 1 \in 1 .. Len(q)
          /\ Elems(rest) \subseteq OnPort /\ m = q[1] /\ m \in OnPort
      BY <1>4, <2>1, TailElems DEF OnPort
    <2>3. Distinct(q)
      BY <1>1, <2>1
    <2>4. Distinct(rest)
      <3> SUFFICES ASSUME NEW i \in 1 .. Len(q) - 1, NEW j \in 1 .. Len(q) - 1,
                          SameId(rest[i], rest[j])
                   PROVE  i = j
        BY <2>2 DEF Distinct
      <3>1. SameId(q[i + 1], q[j + 1]) /\ i + 1 \in DOMAIN q /\ j + 1 \in DOMAIN q
        BY <2>2
      <3>2. i + 1 = j + 1
        BY <2>3, <3>1 DEF Distinct
      <3> QED BY <3>2
    <2>5. ASSUME NEW x \in Elems(rest) PROVE ~SameId(x, m)
      <3>1. PICK i \in 1 .. Len(q) - 1 : x = q[i + 1] /\ i + 1 \in DOMAIN q
        BY <2>2 DEF Elems
      <3>2. 1 \in DOMAIN q /\ i + 1 # 1
        BY <2>2
      <3> QED BY <2>2, <2>3, <3>1, <3>2 DEF Distinct
    <2> QED BY <1>1, <1>2, <1>4, <2>2, <2>4, <2>5
  <1> QED BY <1>3, <1>4 DEF Taken

\* The copy that goes on to the next register has the identity of m.
LEMMA IngressCopies ==
  ASSUME SwitchTypes, PassInv, NEW m, NEW rest, Taken(m, rest), Ingress(m, rest)
  PROVE  /\ OneCopyInv'
         /\ \A x \in UnderWay' :
              \/ x \in UnderWay /\ ~SameId(x, m)
              \/ Recirculates(m) /\ x = NextPass(m)
  <1>1. /\ m \in Packet /\ Placed(m) /\ rest \in Seq(Packet) /\ Elems(rest) \subseteq UnderWay
        /\ toSwitch' \subseteq toSwitch
    BY TakenTypes
  <1>2. /\ OnPort' = Elems(rest) \cup (IF Recirculates(m) THEN {NextPass(m)} ELSE {})
        /\ UnderWay' = toSwitch' \cup Elems(rest)
                          \cup (IF Recirculates(m) THEN {NextPass(m)} ELSE {})
    BY PortAfter
  <1>3. /\ \A x \in toSwitch' \cup Elems(rest) : ~SameId(x, m) /\ ~SameId(m, x)
        /\ Distinct(rest)
        /\ \A m1, m2 \in toSwitch' : SameId(m1, m2) => m1 = m2
        /\ \A m1 \in toSwitch', m2 \in Elems(rest) : ~SameId(m1, m2)
    BY TakenOnce
  <1>4. Recirculates(m) => \A x : (SameId(x, NextPass(m)) <=> SameId(x, m))
                               /\ (SameId(NextPass(m), x) <=> SameId(m, x))
    <2> SUFFICES ASSUME Recirculates(m)
                 PROVE  \A x : (SameId(x, NextPass(m)) <=> SameId(x, m))
                               /\ (SameId(NextPass(m), x) <=> SameId(m, x))
      OBVIOUS
    <2>1. /\ NextPass(m).worker = m.worker /\ SlotOf(NextPass(m).agtr) = SlotOf(m.agtr)
          /\ NextPass(m).round = m.round
      BY <1>1, NextPassTypes DEF Recirculates
    <2> QED BY <2>1 DEF SameId, IsPacket
  <1>5. recirculating' = IF Recirculates(m) THEN Append(rest, NextPass(m)) ELSE rest
    BY DEF Ingress, SwitchPass
  <1>6. Distinct(recirculating')
    <2>1. CASE Recirculates(m)
      <3>1. NextPass(m) \in Packet
        BY <1>1, <2>1, NextPassTypes DEF Recirculates
      <3>2. PICK x, q : x \in Packet /\ x = NextPass(m) /\ q = Append(rest, x)
        BY <3>1
      <3>3. /\ Len(rest) \in Nat /\ DOMAIN rest = 1 .. Len(rest)
            /\ DOMAIN q = 1 .. Len(rest) + 1
            /\ \A i \in 1 .. Len(rest) : q[i] = rest[i]
            /\ q[Len(rest) + 1] = x
        BY <1>1, <3>2, AppendElems
      <3>4. \A i \in 1 .. Len(rest) : ~SameId(rest[i], x) /\ ~SameId(x, rest[i])
        BY <1>3, <1>4, <2>1, <3>2, <3>3 DEF Elems
      <3>5. ASSUME NEW i \in DOMAIN q, NEW j \in DOMAIN q, SameId(q[i], q[j]) PROVE i = j
        <4>1. CASE i \in 1 .. Len(rest) /\ j \in 1 .. Len(rest)
          BY <1>3, <3>3, <3>5, <4>1 DEF Distinct
        <4>2. CASE i = Len(rest) + 1 /\ j \in 1 .. Len(rest)
          BY <3>3, <3>4, <3>5, <4>2
        <4>3. CASE i \in 1 .. Len(rest) /\ j = Len(rest) + 1
          BY <3>3, <3>4, <3>5, <4>3
        <4> QED BY <3>3, <4>1, <4>2, <4>3
      <3> QED BY <1>5, <2>1, <3>2, <3>5 DEF Distinct
    <2>2. CASE ~Recirculates(m)
      BY <1>3, <1>5, <2>2
    <2> QED BY <2>1, <2>2
  <1>7. \A m1 \in toSwitch', m2 \in OnPort' : ~SameId(m1, m2)
    BY <1>2, <1>3, <1>4
  <1>8. OneCopyInv'
    BY <1>3, <1>6, <1>7 DEF OneCopyInv, Distinct, SameId, IsPacket, SlotOf
  <1>9. ASSUME NEW x \in UnderWay'
        PROVE  \/ x \in UnderWay /\ ~SameId(x, m)
               \/ Recirculates(m) /\ x = NextPass(m)
    BY <1>1, <1>2, <1>3 DEF UnderWay
  <1> QED BY <1>8, <1>9

\* When m is counted, the register has not been multicast for its round, and
\* the set of the counted workers grows by m's.
LEMMA CountPass ==
  ASSUME SwitchTypes, PassInv, NEW m, NEW rest, Taken(m, rest), Ingress(m, rest), ~Stale(m)
  PROVE  /\ \E W \in SUBSET Worker : Counted(W, m.agtr)'
         /\ \A i \in DOMAIN answered[m.agtr] : answered[m.agtr][i] < m.round
         /\ RegisterAfter(m)[m.worker] # << >>
  <1>1. /\ m \in UnderWay /\ m \in Packet /\ Placed(m)
    BY TakenTypes
  <1>2. PICK a \in Registers, s \in Agtr, r \in Nat, w \in Worker :
          a = m.agtr /\ s = SlotOf(a) /\ r = m.round /\ w = m.worker
    BY <1>1, PacketFields DEF Placed
  <1>3. /\ roundNumbers \in [Registers -> Nat] /\ receive_count \in [Registers -> 0 .. NUM_WORKER]
        /\ register \in [Registers -> Chunk]
    BY DEF SwitchTypes, SwitchTypeOK
  <1>4. /\ roundNumbers' = [roundNumbers EXCEPT ![a] = r]
        /\ receive_count' = [receive_count EXCEPT ![a] = CountAfter(m)]
        /\ register' = [register EXCEPT ![a] = RegisterAfter(m)]
    BY <1>2 DEF Ingress, SwitchPass
  <1>5. UNCHANGED clientVars
    BY DEF Ingress
  <1>6. roundNumbers'[a] = r /\ receive_count'[a] = CountAfter(m) /\ register'[a] = RegisterAfter(m)
    BY <1>3, <1>4
  <1>7. Entries(m) \in Chunk /\ register[a] \in Chunk /\ m.packet_type = 0
    BY <1>1, <1>2, <1>3, PacketFields DEF Placed
  <1>8. Left(w, s, r) /\ Entries(m)[w] # << >>
    BY <1>1, <1>2 DEF PassInv, PacketInv
  <1>9. Passed(w, a)'
    <2>1. Left(w, s, r)'
      BY <1>5, <1>8 DEF Left, clientVars, slotVars
    <2>2. ~(Unsent(w, s, r)')
      <3>1. IsPacket(m, w, s, r)
        BY <1>2 DEF IsPacket
      <3>2. ~Unsent(w, s, r)
        BY <1>1, <3>1 DEF PassInv, TxInv, Unsent
      <3> QED BY <1>5, <3>2 DEF Unsent, clientVars
    <2>3. ASSUME NEW x \in UnderWay', IsPacket(x, w, s, r) PROVE a < x.agtr
      <3>1. SameId(x, m)
        BY <1>2, <2>3 DEF SameId, IsPacket
      <3>2. Recirculates(m) /\ x = NextPass(m)
        BY <3>1, IngressCopies
      <3>3. x.agtr = a + 1
        BY <1>1, <1>2, <3>2, NextPassTypes DEF Recirculates
      <3> QED BY <3>3 DEF Registers
    <2> QED BY <1>2, <1>6, <2>1, <2>2, <2>3, PassedNext
  <1>10. PICK W \in SUBSET Worker : Counted(W, a)
    BY <1>2 DEF PassInv, CountInv
  <1>11. IsFiniteSet(W) /\ Cardinality(W) \in Nat /\ receive_count[a] = Cardinality(W)
    BY <1>10, WorkerAssumption, FS_Subset, FS_CardinalityType DEF Counted
  <1>12. roundNumbers[a] = r => w \notin W
    <2> SUFFICES ASSUME roundNumbers[a] = r, w \in W PROVE FALSE
      OBVIOUS
    <2>1. Passed(w, a)
      BY <1>10 DEF Counted
    <2>2. IsPacket(m, w, s, r)
      BY <1>2 DEF IsPacket
    <2>3. a < a
      BY <1>1, <1>2, <2>1, <2>2 DEF Passed
    <2> QED BY <2>3 DEF Registers
  <1>13. roundNumbers[a] <= r /\ roundNumbers[a] \in Nat
    BY <1>2, <1>3 DEF Stale
  <1>14. roundNumbers[a] = r => receive_count[a] # NUM_WORKER
    <2> SUFFICES ASSUME receive_count[a] = NUM_WORKER, roundNumbers[a] = r PROVE FALSE
      OBVIOUS
    <2>1. W = Worker
      BY <1>11, WorkerAssumption, FS_Subset DEF NUM_WORKER
    <2> QED BY <1>12, <2>1
  <1>15. \A i \in DOMAIN answered[a] : answered[a][i] < r
    <2>1. \A i \in DOMAIN answered[a] :
            /\ answered[a][i] <= roundNumbers[a] /\ answered[a][i] \in Nat
            /\ answered[a][i] = roundNumbers[a] => receive_count[a] = NUM_WORKER
      BY DEF PassInv, AnsweredInv, SwitchTypes
    <2> QED BY <1>13, <1>14, <2>1
  <1>16. CASE CountAfter(m) = 1
    <2>1. RegisterAfter(m) = Entries(m)
      BY <1>7, <1>16 DEF RegisterAfter
    <2>2. Cardinality({w}) = 1
      BY FS_Singleton
    <2>3. Counted({w}, a)'
      BY <1>6, <1>8, <1>9, <1>16, <2>1, <2>2 DEF Counted
    <2> QED BY <1>2, <1>8, <1>15, <2>1, <2>3
  <1>17. CASE CountAfter(m) # 1
    <2>1. ~Newer(m) /\ CountAfter(m) = receive_count[a] + 1
      BY <1>2, <1>17 DEF CountAfter
    <2>2. roundNumbers[a] = r
      BY <1>2, <1>13, <2>1 DEF Newer
    <2>3. RegisterAfter(m) = [v \in Worker |-> register[a][v] \o Entries(m)[v]]
      BY <1>2, <1>7, <1>17 DEF RegisterAfter
    <2>4. \A v \in Worker : /\ register[a][v] # << >> => RegisterAfter(m)[v] # << >>
                            /\ Entries(m)[v] # << >> => RegisterAfter(m)[v] # << >>
      <3> SUFFICES ASSUME NEW v \in Worker
                   PROVE  /\ register[a][v] # << >> => RegisterAfter(m)[v] # << >>
                          /\ Entries(m)[v] # << >> => RegisterAfter(m)[v] # << >>
        OBVIOUS
      <3>1. PICK x \in Seq(Key), y \in Seq(Key) : x = register[a][v] /\ y = Entries(m)[v]
        BY <1>7 DEF Chunk
      <3>2. (x # << >> => x \o y # << >>) /\ (y # << >> => x \o y # << >>)
        OBVIOUS
      <3> QED BY <2>3, <3>1, <3>2
    <2>5. ASSUME NEW v \in W PROVE Passed(v, a)' /\ RegisterAfter(m)[v] # << >>
      <3>1. Passed(v, a) /\ register[a][v] # << >> /\ v \in Worker
        BY <1>10 DEF Counted
      <3>2. Left(v, s, r) /\ ~Unsent(v, s, r)
        BY <1>2, <2>2, <3>1, PassedNow
      <3>3. Left(v, s, r)' /\ ~(Unsent(v, s, r)')
        BY <1>5, <3>2 DEF Left, Unsent, clientVars, slotVars
      <3>4. ASSUME NEW x \in UnderWay', IsPacket(x, v, s, r) PROVE a < x.agtr
        <4>1. CASE x \in UnderWay
          BY <1>2, <2>2, <3>1, <3>4, <4>1 DEF Passed
        <4>2. CASE Recirculates(m) /\ x = NextPass(m)
          <5>1. x.agtr = a + 1
            BY <1>1, <1>2, <4>2, NextPassTypes DEF Recirculates
          <5> QED BY <5>1 DEF Registers
        <4> QED BY <4>1, <4>2, IngressCopies
      <3>5. Passed(v, a)'
        BY <1>2, <1>6, <3>3, <3>4, PassedNext
      <3> QED BY <2>4, <3>1, <3>5
    <2>6. PICK V \in SUBSET Worker : V = W \cup {w} /\ Cardinality(V) = Cardinality(W) + 1
      <3>1. Cardinality(W \cup {w}) = Cardinality(W) + 1
        BY <1>11, <1>12, <2>2, FS_AddElement
      <3>2. W \cup {w} \in SUBSET Worker
        OBVIOUS
      <3> QED BY <3>1, <3>2
    <2>7. Counted(V, a)'
      <3>1. \A v \in V : Passed(v, a)' /\ register'[a][v] # << >>
        BY <1>6, <1>8, <1>9, <2>4, <2>5, <2>6
      <3> QED BY <1>6, <1>11, <2>1, <2>6, <3>1 DEF Counted
    <2> QED BY <1>2, <1>8, <1>15, <2>4, <2>7
  <1> QED BY <1>16, <1>17

LEMMA IngressPass ==
  ASSUME SwitchTypes, PassInv, NEW m, NEW rest, Taken(m, rest), Ingress(m, rest)
  PROVE  PassInv'
  <1>1. /\ m \in UnderWay /\ m \in Packet /\ Placed(m)
    BY TakenTypes
  <1>2. PICK a \in Registers, s \in Agtr, r \in Nat, w \in Worker :
          a = m.agtr /\ s = SlotOf(a) /\ r = m.round /\ w = m.worker
    BY <1>1, PacketFields DEF Placed
  <1>3. UNCHANGED clientVars
    BY DEF Ingress
  <1>4. SlotStep /\ UNCHANGED <<txpkt, slot_roundnum, slot_ready>>
    BY <1>3 DEF SlotStep, clientVars, slotVars
  <1>5. ASSUME NEW x \in UnderWay'
        PROVE  \/ x \in UnderWay /\ ~SameId(x, m)
               \/ Recirculates(m) /\ x = NextPass(m)
    BY IngressCopies
  <1>6. Recirculates(m) =>
          /\ NextPass(m).worker = w /\ SlotOf(NextPass(m).agtr) = s /\ NextPass(m).round = r
          /\ NextPass(m).agtr = a + 1 /\ Entries(NextPass(m)) = RegisterAfter(m)
    BY <1>1, <1>2, NextPassTypes DEF Recirculates
  <1>7. /\ roundNumbers \in [Registers -> Nat] /\ receive_count \in [Registers -> 0 .. NUM_WORKER]
        /\ register \in [Registers -> Chunk] /\ answered \in [Registers -> Seq(Nat)]
        /\ \A p \in toWorker : p[2] \in Packet /\ Placed(p[2])
    BY DEF SwitchTypes, SwitchTypeOK
  <1>8. \A x \in UnderWay' : \E y \in UnderWay :
          y.worker = x.worker /\ SlotOf(y.agtr) = SlotOf(x.agtr) /\ y.round = x.round
    BY <1>1, <1>2, <1>5, <1>6
  <1>9. TxInv'
    <2> SUFFICES ASSUME NEW v \in Worker, txpkt[v] # NoPacket
                 PROVE  (/\ txpkt[v].worker = v
                         /\ Left(v, txpkt[v].agtr, txpkt[v].round)
                         /\ \A x \in UnderWay : ~IsPacket(x, v, txpkt[v].agtr, txpkt[v].round))'
      BY <1>4 DEF TxInv
    <2>1. PICK p : p = txpkt[v] /\ p = txpkt'[v]
      BY <1>4
    <2>2. /\ p.worker = v /\ Left(v, p.agtr, p.round)
          /\ \A x \in UnderWay : ~IsPacket(x, v, p.agtr, p.round)
      BY <2>1 DEF PassInv, TxInv
    <2>3. Left(v, p.agtr, p.round)'
      BY <1>4, <2>2 DEF Left
    <2>4. \A x \in UnderWay' : ~IsPacket(x, v, p.agtr, p.round)
      BY <1>8, <2>2 DEF IsPacket
    <2> QED BY <2>1, <2>2, <2>3, <2>4 DEF IsPacket, Left, SlotOf
  <1>10. OneCopyInv'
    BY IngressCopies
  <1>11. PacketInv'
    <2>1. ASSUME NEW x \in UnderWay'
          PROVE  Left(x.worker, SlotOf(x.agtr), x.round) /\ Entries(x)[x.worker] # << >>
      <3>1. CASE x \in UnderWay
        BY <3>1 DEF PassInv, PacketInv
      <3>2. CASE Recirculates(m) /\ x = NextPass(m)
        <4>1. Left(w, s, r)
          BY <1>1, <1>2 DEF PassInv, PacketInv
        <4>2. RegisterAfter(m)[w] # << >>
          BY <1>2, <3>2, CountPass DEF Recirculates
        <4> QED BY <1>6, <3>2, <4>1, <4>2
      <3> QED BY <1>5, <3>1, <3>2
    <2>2. \A x \in UnderWay' : Left(x.worker, SlotOf(x.agtr), x.round)'
                               /\ Entries(x)[x.worker] # << >>
      BY <1>4, <2>1 DEF Left, SlotOf
    <2> QED BY <2>2 DEF PacketInv, Left, Entries, SlotOf
  <1>12. ASSUME NEW b \in Registers, b # a \/ Stale(m)
         PROVE  /\ roundNumbers'[b] = roundNumbers[b] /\ receive_count'[b] = receive_count[b]
                /\ register'[b] = register[b]
    <2>1. CASE Stale(m)
      BY <2>1 DEF Ingress, SwitchPass, registerVars
    <2>2. CASE ~Stale(m) /\ b # a
      BY <1>2, <1>7, <2>2 DEF Ingress, SwitchPass
    <2> QED BY <1>12, <2>1, <2>2
  <1>13. CountInv'
    <2>1. ASSUME NEW b \in Registers, SlotOf(b) \in Agtr
          PROVE  \E W \in SUBSET Worker : Counted(W, b)'
      <3>1. CASE b = a /\ ~Stale(m)
        BY <1>2, <3>1, CountPass
      <3>2. CASE b # a \/ Stale(m)
        <4>1. PICK W \in SUBSET Worker : Counted(W, b)
          BY <2>1 DEF PassInv, CountInv
        <4>2. \A v \in Worker, n \in Nat :
                Left(v, SlotOf(b), n) /\ Unsent(v, SlotOf(b), n)' => Unsent(v, SlotOf(b), n)
          BY <1>4 DEF Unsent, SlotOf
        <4>3. ASSUME NEW v \in W, NEW x \in UnderWay',
                     IsPacket(x, v, SlotOf(b), roundNumbers[b])
              PROVE  b < x.agtr
          <5>1. Passed(v, b)
            BY <4>1 DEF Counted
          <5>2. CASE x \in UnderWay
            BY <4>3, <5>1, <5>2 DEF Passed
          <5>3. CASE Recirculates(m) /\ x = NextPass(m)
            <6>1. IsPacket(m, v, SlotOf(b), roundNumbers[b])
              BY <1>2, <1>6, <4>3, <5>3 DEF IsPacket
            <6>2. b < a
              BY <1>1, <1>2, <5>1, <6>1 DEF Passed
            <6> QED BY <1>6, <5>3, <6>2 DEF Registers
          <5> QED BY <1>5, <5>2, <5>3
        <4> QED BY <1>4, <1>12, <2>1, <3>2, <4>1, <4>2, <4>3, CountedStays
      <3> QED BY <3>1, <3>2
    <2> QED BY <2>1 DEF CountInv, SlotOf
  <1>14. ASSUME Completes(m)
         PROVE  /\ ~Stale(m) /\ LastPass(m) /\ receive_count'[a] = NUM_WORKER
                /\ roundNumbers'[a] = r /\ register'[a] = RegisterAfter(m)
    BY <1>2, <1>7, <1>14 DEF Completes, Ingress, SwitchPass
  <1>15. AnsweredInv'
    <2>1. ASSUME NEW b \in Registers
          PROVE  /\ \A i, j \in DOMAIN answered'[b] : i < j => answered'[b][i] < answered'[b][j]
                 /\ \A i \in DOMAIN answered'[b] :
                      /\ answered'[b][i] <= roundNumbers'[b]
                      /\ answered'[b][i] = roundNumbers'[b] => receive_count'[b] = NUM_WORKER
      <3>0. /\ \A i, j \in DOMAIN answered[b] : i < j => answered[b][i] < answered[b][j]
            /\ \A i \in DOMAIN answered[b] :
                 /\ answered[b][i] <= roundNumbers[b]
                 /\ answered[b][i] = roundNumbers[b] => receive_count[b] = NUM_WORKER
        BY DEF PassInv, AnsweredInv, OneMulticastPerRound
      <3>1. CASE b # a \/ Stale(m)
        <4>1. answered'[b] = answered[b]
          <5>1. CASE Completes(m)
            BY <1>2, <1>7, <1>14, <3>1, <5>1 DEF Ingress
          <5>2. CASE ~Completes(m)
            BY <5>2 DEF Ingress
          <5> QED BY <5>1, <5>2
        <4> QED BY <1>12, <3>0, <3>1, <4>1
      <3>2. CASE b = a /\ ~Stale(m) /\ ~Completes(m)
        <4>1. answered'[b] = answered[b] /\ roundNumbers'[b] = r
          BY <1>2, <1>7, <3>2 DEF Ingress, SwitchPass
        <4>2. \A i \in DOMAIN answered[b] : answered[b][i] < r /\ answered[b][i] \in Nat
          BY <1>2, <1>7, <3>2, CountPass
        <4> QED BY <3>0, <4>1, <4>2
      <3>3. CASE b = a /\ Completes(m)
        <4>1. PICK q \in Seq(Nat) : q = answered[a]
          BY <1>7
        <4>2. answered'[b] = Append(q, r)
          BY <1>2, <1>7, <3>3, <4>1 DEF Ingress
        <4>3. \A i \in DOMAIN q : q[i] < r
          BY <1>2, <1>14, <3>3, <4>1, CountPass
        <4>4. \A i, j \in DOMAIN q : i < j => q[i] < q[j]
          BY <3>0, <3>3, <4>1
        <4>5. /\ Len(q) \in Nat /\ DOMAIN q = 1 .. Len(q) /\ DOMAIN Append(q, r) = 1 .. Len(q) + 1
              /\ \A i \in 1 .. Len(q) : Append(q, r)[i] = q[i]
              /\ Append(q, r)[Len(q) + 1] = r
          BY AppendElems
        <4>6. \A i \in DOMAIN Append(q, r) : Append(q, r)[i] <= r
          BY <4>3, <4>5
        <4>7. \A i, j \in DOMAIN Append(q, r) : i < j => Append(q, r)[i] < Append(q, r)[j]
          <5> SUFFICES ASSUME NEW i \in 1 .. Len(q) + 1, NEW j \in 1 .. Len(q) + 1, i < j
                       PROVE  Append(q, r)[i] < Append(q, r)[j]
            BY <4>5
          <5>1. i \in 1 .. Len(q) /\ Append(q, r)[i] = q[i]
            BY <4>5
          <5>2. CASE j \in 1 .. Len(q)
            BY <4>4, <4>5, <5>1, <5>2
          <5>3. CASE j = Len(q) + 1
            BY <4>3, <4>5, <5>1, <5>3
          <5> QED BY <4>5, <5>2, <5>3
        <4> QED BY <1>14, <3>3, <4>2, <4>6, <4>7
      <3> QED BY <3>1, <3>2, <3>3
    <2> QED BY <2>1 DEF AnsweredInv, OneMulticastPerRound
  <1>16. ASSUME NEW p \in Multicasts' PROVE Multicast(p[2])'
    <2>0. p \in toWorker' /\ \E v \in Worker : Entries(p[2])[v] # << >>
      BY DEF Multicasts, Entries
    <2>1. CASE p \in toWorker
      <3>1. p \in Multicasts
        BY <2>0, <2>1 DEF Multicasts, Entries
      <3>2. PICK x : x = p[2] /\ Multicast(x)
        BY <3>1 DEF PassInv
      <3> QED BY <1>4, <3>2 DEF Multicast, Left, Entries, SlotOf
    <2>2. CASE Completes(m) /\ p[2] = Aggregated(m)
      <3>1. PICK x \in Packet :
              /\ x = Aggregated(m) /\ x.agtr = a /\ x.round = r /\ x.recirc_time = m.recirc_time
              /\ Entries(x) = RegisterAfter(m)
        BY <1>1, <1>2, PassTypes
      <3>2. PICK W \in SUBSET Worker : Counted(W, a)'
        BY <1>2, <1>14, <2>2, CountPass
      <3>3. W = Worker
        BY <1>14, <2>2, <3>2, WorkerAssumption, FS_Subset DEF NUM_WORKER, Counted
      <3>4. \A v \in Worker : Passed(v, a)' /\ RegisterAfter(m)[v] # << >>
        BY <1>14, <2>2, <3>2, <3>3 DEF Counted
      <3>5. \A v \in Worker : Left(v, s, r)'
        BY <1>2, <1>14, <2>2, <3>4, PassedNext
      <3>6. x.recirc_time = CIRC_TIME - 1
        BY <1>14, <2>2, <3>1 DEF LastPass
      <3> QED BY <1>2, <2>2, <3>1, <3>4, <3>5, <3>6 DEF Multicast, Left, Entries, SlotOf
    <2>3. CASE p[2] = Zeroed(m)
      <3>1. Entries(p[2]) = Empty
        BY <1>1, <2>3, ZeroedTypes
      <3> QED BY <2>0, <3>1 DEF Empty
    <2>4. p \in toWorker \/ (Completes(m) /\ p[2] = Aggregated(m)) \/ p[2] = Zeroed(m)
      BY <2>0 DEF Ingress
    <2> QED BY <2>1, <2>2, <2>3, <2>4
  <1> QED BY <1>9, <1>10, <1>11, <1>13, <1>15, <1>16 DEF PassInv

LEMMA InitPass == Init => PassInv
  <1> SUFFICES ASSUME Init PROVE PassInv
    OBVIOUS
  <1>1. UnderWay = {} /\ OnPort = {} /\ Multicasts = {}
    BY DEF Init, SwitchInit, UnderWay, OnPort, Elems, Multicasts
  <1>2. \A w \in Worker : txpkt[w] = NoPacket
    BY DEF Init, ClientInit
  <1>3. CountInv
    <2>1. ASSUME NEW a \in Registers PROVE Counted({}, a)
      BY FS_EmptySet DEF Init, SwitchInit, Counted
    <2> QED BY <2>1 DEF CountInv
  <1>4. OneCopyInv
    BY <1>1 DEF OneCopyInv, Distinct, Init, SwitchInit
  <1>5. AnsweredInv
    BY DEF AnsweredInv, OneMulticastPerRound, Init
  <1> QED BY <1>1, <1>2, <1>3, <1>4, <1>5 DEF PassInv, TxInv, PacketInv

\* What the steps that are neither TxAssemble, Send nor a pass do to the slots.
LEMMA QuietSlots ==
  ASSUME SwitchTypes
  PROVE  /\ \A w \in Worker : ResetSlot(w) => SlotStep
         /\ \A p \in toWorker : WorkerReceive(p[1], p[2]) => SlotStep
  <1>1. ASSUME NEW w \in Worker, ResetSlot(w) PROVE SlotStep
    <2>1. resetting[w] \in Agtr
      BY <1>1 DEF SwitchTypes, ClientTypes, ResetSlot, QueueUnlocked
    <2>2. UNCHANGED slotVars \/ FreeSlot(w, resetting[w])
      BY <1>1 DEF ResetSlot
    <2> QED BY <2>1, <2>2 DEF SlotStep, slotVars
  <1>2. ASSUME NEW p \in toWorker, WorkerReceive(p[1], p[2]) PROVE SlotStep
    <2>1. p[1] \in Worker /\ p[2] \in Packet /\ Placed(p[2])
      BY DEF SwitchTypes, SwitchTypeOK
    <2>2. PICK s \in AgtrIndex(p[2]) : RxPacket(p[1], AsReply(p[2], s))
      BY <1>2 DEF WorkerReceive
    <2>3. s \in Agtr /\ AsReply(p[2], s).agtr = s
      BY <2>1, IndexIsSlot DEF AsReply
    <2>4. UNCHANGED slotVars \/ FreeSlot(p[1], s)
      BY <2>2, <2>3 DEF RxPacket
    <2> QED BY <2>1, <2>3, <2>4 DEF SlotStep, slotVars
  <1> QED BY <1>1, <1>2

LEMMA NextPassInv == SwitchTypes /\ PassInv /\ [Next]_vars => PassInv'
  <1> SUFFICES ASSUME SwitchTypes, PassInv, [Next]_vars PROVE PassInv'
    OBVIOUS
  <1>1. ASSUME NEW w \in Worker, Client(w) PROVE PassInv'
    <2>1. UNCHANGED <<switchVars, netVars>>
      BY <1>1 DEF Client
    <2>2. CASE TxAssemble(w)
      BY <2>1, <2>2, TxAssemblePass
    <2>3. CASE PushStart(w) \/ PushJob(w) \/ ResetBegin(w) \/ ResetSlot(w) \/ PollFinishKey(w)
      <3>1. SlotStep
        <4>1. CASE ResetSlot(w)
          BY <4>1, QuietSlots
        <4>2. CASE PushStart(w) \/ PushJob(w) \/ ResetBegin(w) \/ PollFinishKey(w)
          BY <4>2 DEF PushStart, DPDKPushPull, PushJob, ResetBegin, PollFinishKey, slotVars, SlotStep
        <4> QED BY <2>3, <4>1, <4>2
      <3>2. txpkt' = txpkt
        BY <2>3 DEF PushStart, DPDKPushPull, PushJob, ResetBegin, ResetSlot, PollFinishKey
      <3> QED BY <2>1, <3>1, <3>2, QuietPass DEF switchVars, netVars
    <2> QED BY <1>1, <2>2, <2>3 DEF Client
  <1>2. ASSUME NEW w \in Worker, Send(w) PROVE PassInv'
    BY <1>2, SendPass
  <1>3. ASSUME NEW m \in toSwitch, Arrive(m) PROVE PassInv'
    BY <1>3, IngressPass DEF Arrive, Taken
  <1>4. CASE Recirculate
    BY <1>4, IngressPass DEF Recirculate, Taken
  <1>5. CASE RecirculationDrop
    <2>1. SlotStep /\ txpkt' = txpkt
      BY <1>5 DEF RecirculationDrop, clientVars, slotVars, SlotStep
    <2> QED BY <1>5, <2>1, QuietPass DEF RecirculationDrop, netVars
  <1>6. ASSUME NEW p \in toWorker, WorkerReceive(p[1], p[2]) PROVE PassInv'
    <2>1. SlotStep
      BY <1>6, QuietSlots
    <2>2. txpkt' = txpkt
      BY <1>6 DEF WorkerReceive, RxPacket
    <2> QED BY <1>6, <2>1, <2>2, QuietPass DEF WorkerReceive, switchVars
  <1>7. CASE UNCHANGED vars
    <2>1. SlotStep /\ txpkt' = txpkt
      BY <1>7 DEF vars, clientVars, slotVars, SlotStep
    <2> QED BY <1>7, <2>1, QuietPass DEF vars, switchVars, netVars
  <1> QED BY <1>1, <1>2, <1>3, <1>4, <1>5, <1>6, <1>7 DEF Next

\* The count of a register is that of a set of workers whose packets of the
\* round are past it.  normal_incr_check_count looks at no bitmap, and yet it
\* counts no packet twice, because no client sends a slot's round twice.
THEOREM PassInvariance == Spec => [](SwitchTypes /\ PassInv)
  BY InitTypes, InitPass, NextTypes, NextPassInv, PTL DEF Spec

\* A register is multicast at most once per round and in the order of the
\* rounds, whatever is lost, reordered, dropped at the recirculation port or
\* given up by a Reset in between.
THEOREM OneMulticast == Spec => []OneMulticastPerRound
  <1>1. SwitchTypes /\ PassInv => OneMulticastPerRound
    BY DEF PassInv, AnsweredInv
  <1> QED BY PassInvariance, <1>1, PTL

-----------------------------------------------------------------------------
(* KeyInv.                                                                 *)

LEMMA KeyInvNext ==
  ASSUME ClientInv', JobKeys', RegisterKeys', \A m \in UnderWay' : Keyed(m),
         \A p \in toWorker' : Keyed(p[2]) /\ \E w \in Worker : Entries(p[2])[w] # << >>
  PROVE  KeyInv'
  BY DEF KeyInv, Keyed, KeyAt, Position, Entries, SlotOf

LEMMA JobKeysSame ==
  ASSUME JobKeys, UNCHANGED <<pushpulljobQueue, txpkt>>
  PROVE  JobKeys'
  BY DEF JobKeys, KeyAt, Position

LEMMA RegisterKeysSame ==
  ASSUME RegisterKeys, UNCHANGED registerVars
  PROVE  RegisterKeys'
  BY DEF RegisterKeys, registerVars, KeyAt, Position, SlotOf

\* Every packet on its way to a worker is a multicast.
LEMMA ReplyIsMulticast ==
  ASSUME SwitchTypes, PassInv, KeyInv, NEW p \in toWorker
  PROVE  /\ p \in Multicasts /\ Keyed(p[2]) /\ Multicast(p[2]) /\ p[1] \in Worker
         /\ SlotOf(p[2].agtr) \in Agtr /\ AgtrIndex(p[2]) = {SlotOf(p[2].agtr)}
  <1>1. p \in Multicasts /\ Keyed(p[2])
    BY DEF KeyInv, Multicasts, Entries
  <1>2. PICK m \in Packet : m = p[2] /\ Placed(m) /\ Multicast(m) /\ Keyed(m) /\ p[1] \in Worker
    BY <1>1 DEF SwitchTypes, SwitchTypeOK, PassInv
  <1>3. PICK s \in Agtr : s = SlotOf(m.agtr)
    BY <1>2 DEF Placed
  <1>4. m.agtr \in Nat /\ CIRC_TIME \in Nat \ {0} /\ s \in Nat
    BY <1>2, PacketFields, PassAssumption DEF Registers, Agtr
  <1>5. m.agtr = s * CIRC_TIME + (CIRC_TIME - 1)
    <2>1. m.agtr % CIRC_TIME = CIRC_TIME - 1
      BY <1>2 DEF Placed, Multicast
    <2>2. m.agtr = CIRC_TIME * s + (m.agtr % CIRC_TIME)
      BY <1>3, <1>4, DivMod DEF SlotOf
    <2>3. CIRC_TIME * s = s * CIRC_TIME
      BY <1>4
    <2> QED BY <2>1, <2>2, <2>3
  <1>6. AgtrIndex(m) = {s}
    BY <1>2, <1>5, SlotRecovered DEF Keyed
  <1> QED BY <1>1, <1>2, <1>3, <1>6

\* A multicast the client accepts finds its slot occupied, by its key.
LEMMA ReplyIsAwaited ==
  ASSUME SwitchTypes, PassInv, KeyInv, NEW p \in toWorker, NEW s \in AgtrIndex(p[2]),
         Expected(p[1], AsReply(p[2], s))
  PROVE  s \in Agtr /\ ~slot_ready[p[1]][s] /\ slot_dpdk_key[p[1]][s] = p[2].key
  <1>1. /\ Keyed(p[2]) /\ Multicast(p[2]) /\ p[1] \in Worker /\ s \in Agtr /\ s = SlotOf(p[2].agtr)
    BY ReplyIsMulticast
  <1>2. p[2].round = slot_roundnum[p[1]][s] /\ slot_roundnum[p[1]][s] \in Nat
    BY <1>1 DEF Expected, AsReply, SwitchTypes, ClientTypes, SlotTypes
  <1>3. ~slot_ready[p[1]][s]
    BY <1>1, <1>2 DEF Multicast, Left
  <1>4. slot_dpdk_key[p[1]][s] = KeyAt(s, slot_roundnum[p[1]][s])
    BY <1>1, <1>3 DEF KeyInv, ClientInv, SlotInv
  <1> QED BY <1>1, <1>2, <1>3, <1>4 DEF Keyed

\* The sum a pass writes and sends on is of gradients of one key.
LEMMA SumKeyed ==
  ASSUME SwitchTypes, RegisterKeys, NEW m \in Packet, Placed(m), Keyed(m), ~Stale(m)
  PROVE  \A w \in Worker : \A i \in DOMAIN RegisterAfter(m)[w] : RegisterAfter(m)[w][i] = m.key
  <1> SUFFICES ASSUME NEW w \in Worker, NEW i \in DOMAIN RegisterAfter(m)[w]
               PROVE  RegisterAfter(m)[w][i] = m.key
    OBVIOUS
  <1>1. PICK a \in Registers, r \in Nat : a = m.agtr /\ r = m.round
    BY PacketFields
  <1>2. /\ roundNumbers[a] \in Nat /\ register[a] \in Chunk /\ Entries(m) \in Chunk
        /\ m.packet_type = 0
    BY PacketFields DEF SwitchTypes, SwitchTypeOK, Placed
  <1>3. CASE CountAfter(m) = 1
    BY <1>2, <1>3 DEF RegisterAfter, Keyed
  <1>4. CASE CountAfter(m) # 1
    <2>1. roundNumbers[a] = r
      BY <1>1, <1>2, <1>4 DEF CountAfter, Newer, Stale
    <2>2. PICK x \in Seq(Key), y \in Seq(Key) : x = register[a][w] /\ y = Entries(m)[w]
      BY <1>2 DEF Chunk
    <2>3. RegisterAfter(m)[w] = x \o y
      BY <1>1, <1>2, <1>4, <2>2 DEF RegisterAfter
    <2>4. \A j \in DOMAIN x : x[j] = m.key
      BY <1>1, <2>1, <2>2 DEF RegisterKeys, Keyed
    <2>5. \A j \in DOMAIN y : y[j] = m.key
      BY <2>2 DEF Keyed
    <2>6. i \in 1 .. Len(x) + Len(y)
      BY <2>3
    <2>7. CASE i \in 1 .. Len(x)
      BY <2>3, <2>4, <2>7
    <2>8. CASE i \in Len(x) + 1 .. Len(x) + Len(y)
      <3>1. (x \o y)[i] = y[i - Len(x)] /\ i - Len(x) \in DOMAIN y
        BY <2>8
      <3> QED BY <2>3, <2>5, <3>1
    <2> QED BY <2>6, <2>7, <2>8
  <1> QED BY <1>3, <1>4

LEMMA IngressKeys ==
  ASSUME RouteTo = {}, SwitchTypes, PassInv, KeyInv,
         NEW m, NEW rest, Taken(m, rest), Ingress(m, rest)
  PROVE  KeyInv'
  <1>1. /\ m \in UnderWay /\ m \in Packet /\ Placed(m)
    BY TakenTypes
  <1>2. Keyed(m) /\ RegisterKeys /\ ClientInv /\ JobKeys
    BY <1>1 DEF KeyInv
  <1>3. PICK a \in Registers, r \in Nat : a = m.agtr /\ r = m.round
    BY <1>1, PacketFields
  <1>4. UNCHANGED clientVars
    BY DEF Ingress
  <1>5. ClientInv' /\ JobKeys'
    BY <1>2, <1>4, SameClientInv, JobKeysSame DEF clientVars, pushVars
  <1>6. ~Stale(m) => \A w \in Worker : \A i \in DOMAIN RegisterAfter(m)[w] :
                       RegisterAfter(m)[w][i] = m.key
    BY <1>1, <1>2, SumKeyed
  <1>7. RegisterKeys'
    <2>1. CASE Stale(m)
      <3>1. UNCHANGED registerVars
        BY <2>1 DEF Ingress, SwitchPass
      <3> QED BY <1>2, <3>1, RegisterKeysSame
    <2>2. CASE ~Stale(m)
      <3>1. /\ roundNumbers \in [Registers -> Nat] /\ register \in [Registers -> Chunk]
            /\ roundNumbers' = [roundNumbers EXCEPT ![a] = r]
            /\ register' = [register EXCEPT ![a] = RegisterAfter(m)]
        BY <1>3, <2>2 DEF SwitchTypes, SwitchTypeOK, Ingress, SwitchPass
      <3>2. ASSUME NEW b \in Registers, NEW w \in Worker, NEW i \in DOMAIN register'[b][w]
            PROVE  register'[b][w][i] = KeyAt(SlotOf(b), roundNumbers'[b])
        <4>1. CASE b = a
          <5>1. register'[b] = RegisterAfter(m) /\ roundNumbers'[b] = r
            BY <3>1, <4>1
          <5>2. m.key = KeyAt(SlotOf(a), r)
            BY <1>2, <1>3 DEF Keyed
          <5> QED BY <1>6, <2>2, <3>2, <4>1, <5>1, <5>2
        <4>2. CASE b # a
          <5>1. register'[b] = register[b] /\ roundNumbers'[b] = roundNumbers[b]
            BY <3>1, <4>2
          <5> QED BY <1>2, <3>2, <5>1 DEF RegisterKeys
        <4> QED BY <4>1, <4>2
      <3> QED BY <3>2 DEF RegisterKeys, KeyAt, Position, SlotOf
    <2> QED BY <2>1, <2>2
  <1>8. \A x \in UnderWay' : Keyed(x)
    <2> SUFFICES ASSUME NEW x \in UnderWay' PROVE Keyed(x)
      OBVIOUS
    <2>1. CASE x \in UnderWay
      BY <2>1 DEF KeyInv
    <2>2. CASE Recirculates(m) /\ x = NextPass(m)
      <3>1. /\ x.cmd = m.cmd /\ x.key = m.key /\ x.round = m.round
            /\ SlotOf(x.agtr) = SlotOf(m.agtr) /\ Entries(x) = RegisterAfter(m)
        BY <1>1, <2>2, NextPassTypes DEF Recirculates
      <3> QED BY <1>2, <1>6, <2>2, <3>1 DEF Keyed, Recirculates
    <2> QED BY <2>1, <2>2, IngressCopies
  <1>9. ASSUME NEW p \in toWorker'
        PROVE  Keyed(p[2]) /\ \E w \in Worker : Entries(p[2])[w] # << >>
    <2>1. CASE p \in toWorker
      BY <2>1 DEF KeyInv
    <2>2. CASE Completes(m) /\ p[2] = Aggregated(m)
      <3>1. ~Stale(m)
        BY <2>2 DEF Completes
      <3>2. PICK x : /\ x = Aggregated(m)
                     /\ x.cmd = m.cmd /\ x.key = m.key /\ x.round = m.round /\ x.agtr = m.agtr
                     /\ Entries(x) = RegisterAfter(m)
        BY <1>1, PassTypes
      <3>3. RegisterAfter(m)[m.worker] # << >> /\ m.worker \in Worker
        BY <1>1, <3>1, CountPass, PacketFields
      <3> QED BY <1>2, <1>6, <2>2, <3>1, <3>2, <3>3 DEF Keyed
    <2>3. p \in toWorker \/ (Completes(m) /\ p[2] = Aggregated(m))
      BY DEF Ingress
    <2> QED BY <2>1, <2>2, <2>3
  <1> QED BY <1>5, <1>7, <1>8, <1>9, KeyInvNext

\* Steps of a client that leave the packets and the switch alone.
LEMMA ClientKeys ==
  ASSUME KeyInv, ClientInv', JobKeys', UNCHANGED <<switchVars, netVars>>
  PROVE  KeyInv'
  <1>1. RegisterKeys'
    BY RegisterKeysSame DEF KeyInv, switchVars
  <1>2. UnderWay' = UnderWay /\ toWorker' = toWorker
    BY DEF switchVars, netVars, UnderWay, OnPort, Elems
  <1>3. /\ \A m \in UnderWay' : Keyed(m)
        /\ \A p \in toWorker' : Keyed(p[2]) /\ \E w \in Worker : Entries(p[2])[w] # << >>
    BY <1>2 DEF KeyInv
  <1> QED BY <1>1, <1>3, KeyInvNext

LEMMA PushJobKeys ==
  ASSUME GradientsOnly, SwitchTypes, KeyInv, NEW w \in Worker, PushJob(w)
  PROVE  JobKeys'
  <1>1. /\ pushpulljobQueue \in [Worker -> Seq(Job)] /\ pushed[w] \in 0 .. Len(Program)
        /\ dpdkKey[w] \in Nat
    BY DEF SwitchTypes, ClientTypes, PushTypes
  <1>2. pushing[w].cmd = TENSOR_COMM
    <2>1. pushed[w] # 0 /\ pushing[w].cmd = Program[pushed[w]].cmd
      BY DEF KeyInv, ClientInv, PushInv, PushJob
    <2>2. pushed[w] \in Task
      BY <1>1, <2>1, ProgramAssumption DEF Task
    <2> QED BY <2>1, <2>2 DEF GradientsOnly
  <1>3. PICK j : j = [key |-> dpdkKey[w] % DPDK_KEY_TOTAL, cmd |-> pushing[w].cmd]
    OBVIOUS
  <1>4. j \in Job /\ j.cmd = TENSOR_COMM
    BY <1>1, <1>2, <1>3, WrappedKey DEF Job, PushCmd
  <1>5. pushpulljobQueue' = [pushpulljobQueue EXCEPT ![w] = Append(@, j)] /\ txpkt' = txpkt
    BY <1>3 DEF PushJob
  <1>6. ASSUME NEW v \in Worker, NEW i \in DOMAIN pushpulljobQueue'[v]
        PROVE  pushpulljobQueue'[v][i].cmd = TENSOR_COMM
    <2>1. CASE v # w
      <3>1. pushpulljobQueue'[v] = pushpulljobQueue[v]
        BY <1>1, <1>5, <2>1
      <3> QED BY <1>6, <3>1 DEF KeyInv, JobKeys
    <2>2. CASE v = w
      <3>1. PICK q \in Seq(Job) : q = pushpulljobQueue[w] /\ pushpulljobQueue'[v] = Append(q, j)
        BY <1>1, <1>5, <2>2
      <3>2. \A n \in DOMAIN q : q[n].cmd = TENSOR_COMM
        BY <3>1 DEF KeyInv, JobKeys
      <3>3. \/ i \in DOMAIN q /\ Append(q, j)[i] = q[i]
            \/ Append(q, j)[i] = j
        BY <1>4, <1>6, <3>1, AppendElems
      <3> QED BY <1>4, <3>1, <3>2, <3>3
    <2> QED BY <2>1, <2>2
  <1> QED BY <1>5, <1>6 DEF KeyInv, JobKeys, KeyAt, Position

LEMMA TxAssembleKeys ==
  ASSUME SwitchTypes, KeyInv, NEW w \in Worker, TxAssemble(w)
  PROVE  ClientInv' /\ JobKeys'
  <1>1. PICK p \in TxPacket :
           /\ txpkt' = [txpkt EXCEPT ![w] = p]
           /\ p.round = slot_roundnum[w][p.agtr]
           /\ p.agtr = AgtrOf(Head(pushpulljobQueue[w]).key)
           /\ p.key = Head(pushpulljobQueue[w]).key /\ p.cmd = Head(pushpulljobQueue[w]).cmd
    BY TxAssembleTypes
  <1>2. PICK j, s, n : /\ j = Head(pushpulljobQueue[w]) /\ s = AgtrOf(j.key)
                       /\ n = slot_roundnum[w][s]
    OBVIOUS
  <1>3. ClientInv' /\ j.key = KeyAt(s, n)
    BY <1>2, TxAssembleClient DEF SwitchTypes, KeyInv
  <1>4. PICK q \in Seq(Job) : q = pushpulljobQueue[w] /\ q # << >>
    BY DEF SwitchTypes, ClientTypes, TxAssemble
  <1>5. \A i \in DOMAIN q : q[i].cmd = TENSOR_COMM
    BY <1>4 DEF KeyInv, JobKeys
  <1>6. /\ DOMAIN q = 1 .. Len(q) /\ DOMAIN Tail(q) = 1 .. Len(q) - 1 /\ Len(q) \in Nat \ {0}
        /\ \A i \in 1 .. Len(q) - 1 : Tail(q)[i] = q[i + 1] /\ i + 1 \in 1 .. Len(q)
        /\ Head(q) = q[1]
    BY <1>4, TailElems
  <1>7. /\ pushpulljobQueue' = [pushpulljobQueue EXCEPT ![w] = Tail(@)]
        /\ pushpulljobQueue \in [Worker -> Seq(Job)]
        /\ txpkt \in [Worker -> TxPacket \cup {NoPacket}]
    BY DEF TxAssemble, SwitchTypes, ClientTypes
  <1>8. ASSUME NEW v \in Worker, NEW i \in DOMAIN pushpulljobQueue'[v]
        PROVE  pushpulljobQueue'[v][i].cmd = TENSOR_COMM
    <2>1. CASE v # w
      <3>1. pushpulljobQueue'[v] = pushpulljobQueue[v]
        BY <1>7, <2>1
      <3> QED BY <1>8, <3>1 DEF KeyInv, JobKeys
    <2>2. CASE v = w
      <3>1. pushpulljobQueue'[v] = Tail(q)
        BY <1>4, <1>7, <2>2
      <3> QED BY <1>5, <1>6, <1>8, <3>1
    <2> QED BY <2>1, <2>2
  <1>9. p.cmd = TENSOR_COMM /\ p.key = KeyAt(p.agtr, p.round)
    <2>1. Head(q).cmd = TENSOR_COMM
      BY <1>5, <1>6
    <2> QED BY <1>1, <1>2, <1>3, <1>4, <2>1
  <1>10. ASSUME NEW v \in Worker, txpkt'[v] # NoPacket
         PROVE  txpkt'[v].cmd = TENSOR_COMM /\ txpkt'[v].key = KeyAt(txpkt'[v].agtr, txpkt'[v].round)
    <2>1. CASE v # w
      <3>1. txpkt'[v] = txpkt[v]
        BY <1>1, <1>7, <2>1
      <3> QED BY <1>10, <3>1 DEF KeyInv, JobKeys
    <2>2. CASE v = w
      <3>1. txpkt'[v] = p
        BY <1>1, <1>7, <2>2
      <3> QED BY <1>9, <3>1
    <2> QED BY <2>1, <2>2
  <1>11. JobKeys'
    BY <1>8, <1>10 DEF JobKeys, KeyAt, Position
  <1> QED BY <1>3, <1>11

LEMMA SendKeys ==
  ASSUME SwitchTypes, PassInv, KeyInv, NEW w \in Worker, Send(w)
  PROVE  KeyInv'
  <1>1. PICK p \in TxPacket, h \in Packet :
          /\ p = txpkt[w] /\ h = assemble_dpdk_p4ml_hdrs(p) /\ UnderWay' = UnderWay \cup {h}
    BY SendTypes
  <1>2. p # NoPacket
    BY <1>1 DEF Send, TxBurst
  <1>3. p.cmd = TENSOR_COMM /\ p.key = KeyAt(p.agtr, p.round) /\ p.worker \in Worker
    BY <1>1, <1>2 DEF KeyInv, JobKeys, TxPacket
  <1>4. /\ SlotOf(h.agtr) = p.agtr /\ h.round = p.round /\ h.key = p.key /\ h.cmd = p.cmd
        /\ Entries(h) = Gradient(p.worker, p.key)
    BY <1>1, AssembledTypes
  <1>5. ASSUME NEW v \in Worker, NEW i \in DOMAIN Entries(h)[v] PROVE Entries(h)[v][i] = h.key
    BY <1>4, <1>5 DEF Gradient
  <1>6. Keyed(h)
    BY <1>3, <1>4, <1>5 DEF Keyed
  <1>7. ClientInv'
    BY SameClientInv DEF KeyInv, Send, TxBurst, pushVars
  <1>8. JobKeys'
    <2>1. /\ txpkt' = [txpkt EXCEPT ![w] = NoPacket] /\ pushpulljobQueue' = pushpulljobQueue
          /\ txpkt \in [Worker -> TxPacket \cup {NoPacket}]
      BY DEF Send, TxBurst, SwitchTypes
    <2>2. \A v \in Worker : txpkt'[v] # NoPacket => txpkt'[v] = txpkt[v]
      BY <2>1
    <2> QED BY <2>1, <2>2 DEF KeyInv, JobKeys, KeyAt, Position
  <1>9. RegisterKeys' /\ toWorker' = toWorker
    BY RegisterKeysSame DEF KeyInv, Send, switchVars
  <1>10. /\ \A m \in UnderWay' : Keyed(m)
         /\ \A q \in toWorker' : Keyed(q[2]) /\ \E v \in Worker : Entries(q[2])[v] # << >>
    BY <1>1, <1>6, <1>9 DEF KeyInv
  <1> QED BY <1>7, <1>8, <1>9, <1>10, KeyInvNext

\* The client accepts a multicast only in an occupied slot, which it frees.
LEMMA ReceiveKeys ==
  ASSUME SwitchTypes, PassInv, KeyInv, NEW p \in toWorker, WorkerReceive(p[1], p[2])
  PROVE  KeyInv'
  <1>1. PICK s \in AgtrIndex(p[2]) : RxPacket(p[1], AsReply(p[2], s))
    BY DEF WorkerReceive
  <1>2. PICK w \in Worker : w = p[1]
    BY ReplyIsMulticast
  <1>3. UNCHANGED <<pushVars, pushpulljobQueue, txpkt>>
    BY <1>1 DEF RxPacket
  <1>4. ClientInv'
    <2>0. ClientTypes /\ ClientInv
      BY DEF SwitchTypes, KeyInv
    <2>1. CASE Expected(p[1], AsReply(p[2], s))
      <3>1. s \in Agtr /\ ~slot_ready[w][s]
        BY <1>2, <2>1, ReplyIsAwaited
      <3>2. FreeSlot(w, s)
        BY <1>1, <1>2, <2>1 DEF RxPacket, AsReply
      <3>3. SlotInv'
        BY <1>3, <2>0, <3>1, <3>2, FreeSlotInv DEF ClientTypes, ClientInv, pushVars
      <3>4. QueueInv' /\ PushInv'
        BY <1>3, <2>0, FrontSame DEF ClientInv, PushInv, pushVars
      <3> QED BY <3>3, <3>4 DEF ClientInv
    <2>2. CASE ~Expected(p[1], AsReply(p[2], s))
      BY <1>1, <1>3, <2>0, <2>2, SameClientInv DEF RxPacket, pushVars
    <2> QED BY <2>1, <2>2
  <1>5. JobKeys' /\ RegisterKeys'
    BY <1>3, JobKeysSame, RegisterKeysSame DEF KeyInv, WorkerReceive, switchVars
  <1>6. UnderWay' = UnderWay /\ toWorker' \subseteq toWorker
    BY DEF WorkerReceive, switchVars, UnderWay, OnPort, Elems
  <1>7. /\ \A m \in UnderWay' : Keyed(m)
        /\ \A q \in toWorker' : Keyed(q[2]) /\ \E v \in Worker : Entries(q[2])[v] # << >>
    BY <1>6 DEF KeyInv
  <1> QED BY <1>4, <1>5, <1>7, KeyInvNext

LEMMA InitKeys == Init => KeyInv
  <1> SUFFICES ASSUME Init PROVE KeyInv
    OBVIOUS
  <1>1. ClientInv
    BY InitClientInv DEF Init
  <1>2. UnderWay = {} /\ toWorker = {}
    BY DEF Init, SwitchInit, UnderWay, OnPort, Elems
  <1>3. JobKeys
    BY DEF Init, ClientInit, JobKeys
  <1>4. RegisterKeys
    BY DEF Init, SwitchInit, RegisterKeys, Empty
  <1> QED BY <1>1, <1>2, <1>3, <1>4 DEF KeyInv

LEMMA NextKeys ==
  ASSUME GradientsOnly, RouteTo = {}
  PROVE  SwitchTypes /\ PassInv /\ KeyInv /\ [Next]_vars => KeyInv'
  <1> SUFFICES ASSUME SwitchTypes, PassInv, KeyInv, [Next]_vars PROVE KeyInv'
    OBVIOUS
  <1>0. ClientTypes /\ ClientInv /\ JobKeys
    BY DEF SwitchTypes, KeyInv
  <1>1. ASSUME NEW w \in Worker, Client(w) PROVE KeyInv'
    <2>0. UNCHANGED <<switchVars, netVars>>
      BY <1>1 DEF Client
    <2>1. CASE PushStart(w)
      <3>1. ClientInv' /\ JobKeys'
        BY <1>0, <2>1, PushStartClient, JobKeysSame DEF PushStart, DPDKPushPull
      <3> QED BY <2>0, <3>1, ClientKeys
    <2>2. CASE PushJob(w)
      <3>1. ClientInv' /\ JobKeys'
        BY <1>0, <2>2, PushJobClient, PushJobKeys
      <3> QED BY <2>0, <3>1, ClientKeys
    <2>3. CASE TxAssemble(w)
      <3>1. ClientInv' /\ JobKeys'
        BY <2>3, TxAssembleKeys
      <3> QED BY <2>0, <3>1, ClientKeys
    <2>4. CASE ResetSlot(w)
      <3>1. ClientInv' /\ JobKeys'
        BY <1>0, <2>4, ResetSlotClient, JobKeysSame DEF ResetSlot
      <3> QED BY <2>0, <3>1, ClientKeys
    <2>5. CASE ResetBegin(w) \/ PollFinishKey(w)
      <3>1. ClientInv' /\ JobKeys'
        BY <1>0, <2>5, SameClientInv, JobKeysSame DEF ResetBegin, PollFinishKey, pushVars
      <3> QED BY <2>0, <3>1, ClientKeys
    <2> QED BY <1>1, <2>1, <2>2, <2>3, <2>4, <2>5 DEF Client
  <1>2. ASSUME NEW w \in Worker, Send(w) PROVE KeyInv'
    BY <1>2, SendKeys
  <1>3. ASSUME NEW m \in toSwitch, Arrive(m) PROVE KeyInv'
    BY <1>3, IngressKeys DEF Arrive, Taken
  <1>4. CASE Recirculate
    BY <1>4, IngressKeys DEF Recirculate, Taken
  <1>5. CASE RecirculationDrop
    <2>1. ClientInv' /\ JobKeys' /\ RegisterKeys' /\ toWorker' = toWorker
      BY <1>0, <1>5, SameClientInv, JobKeysSame, RegisterKeysSame
         DEF RecirculationDrop, KeyInv, clientVars, pushVars, netVars
    <2>2. UnderWay' \subseteq UnderWay
      <3>1. recirculating \in Seq(Packet)
        BY DEF SwitchTypes
      <3>2. /\ recirculating' = Tail(recirculating) /\ toSwitch' = toSwitch
            /\ Elems(Tail(recirculating)) \subseteq Elems(recirculating)
        BY <1>5, <3>1, TailElems DEF RecirculationDrop, netVars
      <3>3. OnPort' \subseteq OnPort
        BY <3>2 DEF OnPort, Elems
      <3> QED BY <3>2, <3>3 DEF UnderWay
    <2>3. /\ \A m \in UnderWay' : Keyed(m)
          /\ \A q \in toWorker' : Keyed(q[2]) /\ \E v \in Worker : Entries(q[2])[v] # << >>
      BY <2>1, <2>2 DEF KeyInv
    <2> QED BY <2>1, <2>3, KeyInvNext
  <1>6. ASSUME NEW p \in toWorker, WorkerReceive(p[1], p[2]) PROVE KeyInv'
    BY <1>6, ReceiveKeys
  <1>7. CASE UNCHANGED vars
    <2>1. ClientInv' /\ JobKeys' /\ UNCHANGED <<switchVars, netVars>>
      BY <1>0, <1>7, SameClientInv, JobKeysSame DEF vars, clientVars, pushVars
    <2> QED BY <2>1, ClientKeys
  <1> QED BY <1>1, <1>2, <1>3, <1>4, <1>5, <1>6, <1>7 DEF Next

\* Packets, registers and multicasts hold gradients of the one key that their
\* slot and round determine, as long as only gradients are pushed and no
\* late packet is routed to a worker.
THEOREM KeyInvariance ==
  ASSUME GradientsOnly, RouteTo = {}
  PROVE  Spec => []KeyInv
  BY InitKeys, NextKeys, PassInvariance, PTL DEF Spec

\* What the switch multicasts has a gradient of every worker and of no other
\* key than the packet's: in ProcessData no gradient of another round or of
\* another key reaches a sum.
THEOREM MulticastIsComplete ==
  ASSUME GradientsOnly, RouteTo = {}
  PROVE  Spec => []MulticastHasEveryWorker
  <1>1. SwitchTypes /\ PassInv /\ KeyInv => MulticastHasEveryWorker
    <2> SUFFICES ASSUME SwitchTypes, PassInv, KeyInv, NEW p \in Multicasts, NEW w \in Worker
                 PROVE  LET part == p[2].vector[1][w]
                        IN  part # << >> /\ \A i \in DOMAIN part : part[i] = p[2].key
      BY DEF MulticastHasEveryWorker
    <2>1. p \in toWorker
      BY DEF Multicasts
    <2>2. Keyed(p[2]) /\ Multicast(p[2])
      BY <2>1, ReplyIsMulticast
    <2> QED BY <2>2 DEF Keyed, Multicast, Entries
  <1> QED BY PassInvariance, KeyInvariance, <1>1, PTL

\* The slot RxThread recovers from a multicast it accepts is occupied, by the
\* packet's key: a late or overtaken multicast never frees a slot that waits
\* for another packet, and a reply never counts for another task.
THEOREM MulticastAwaited ==
  ASSUME GradientsOnly, RouteTo = {}
  PROVE  Spec => []MulticastIsAwaited
  <1>1. SwitchTypes /\ PassInv /\ KeyInv => MulticastIsAwaited
    <2> SUFFICES ASSUME SwitchTypes, PassInv, KeyInv, NEW p \in Multicasts,
                        NEW s \in AgtrIndex(p[2]), Expected(p[1], AsReply(p[2], s))
                 PROVE  ~slot_ready[p[1]][s] /\ slot_dpdk_key[p[1]][s] = p[2].key
      BY DEF MulticastIsAwaited
    <2>1. p \in toWorker
      BY DEF Multicasts
    <2> QED BY <2>1, ReplyIsAwaited
  <1> QED BY PassInvariance, KeyInvariance, <1>1, PTL
=============================================================================
