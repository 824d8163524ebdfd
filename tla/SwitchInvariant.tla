--------------------------- MODULE SwitchInvariant ---------------------------
(***************************************************************************)
(* The inductive invariants behind the safety properties of SwitchSystem.  *)
(*                                                                         *)
(* The switch keeps no record of the packets a register has counted: it    *)
(* has a count and a round.  PassInv says that the count is that of a set  *)
(* of workers whose packet of the round is past the register.  It holds    *)
(* whatever the packets carry.  KeyInv says what they carry, when all      *)
(* tasks are gradients and no late packet is routed to a worker.           *)
(***************************************************************************)
EXTENDS SwitchSystem, ClientInvariant

\* The slot whose packets pass register a.
SlotOf(a) == a \div CIRC_TIME

Elems(q) == {q[i] : i \in DOMAIN q}

OnPort == Elems(recirculating)
UnderWay == toSwitch \cup OnPort

\* A packet is in the register of its slot and pass.
Placed(m) ==
  /\ SlotOf(m.agtr) \in Agtr
  /\ m.recirc_time = m.agtr % CIRC_TIME
  /\ m.packet_type = 0

TxPacket == [worker : Worker, agtr : Agtr, round : Nat, key : Key,
             cmd : PushCmd, norm : {0}]

SwitchTypes ==
  /\ ClientTypes
  /\ SwitchTypeOK
  /\ txpkt \in [Worker -> TxPacket \cup {NoPacket}]
  /\ recirculating \in Seq(Packet)
  /\ answered \in [Registers -> Seq(Nat)]
  /\ \A m \in UnderWay : Placed(m)
  /\ \A p \in toWorker : Placed(p[2])

\* Worker w has assembled its packet of round r of slot s.
Left(w, s, r) ==
  r < slot_roundnum[w][s] \/ (r = slot_roundnum[w][s] /\ ~slot_ready[w][s])

IsPacket(m, w, s, r) == m.worker = w /\ SlotOf(m.agtr) = s /\ m.round = r

Unsent(w, s, r) == txpkt[w] # NoPacket /\ txpkt[w].agtr = s /\ txpkt[w].round = r

\* A worker sends one packet per slot and round, and it is in one place.
TxInv ==
  \A w \in Worker : txpkt[w] # NoPacket =>
    /\ txpkt[w].worker = w
    /\ Left(w, txpkt[w].agtr, txpkt[w].round)
    /\ \A m \in UnderWay : ~IsPacket(m, w, txpkt[w].agtr, txpkt[w].round)

SameId(m1, m2) == IsPacket(m1, m2.worker, SlotOf(m2.agtr), m2.round)
Distinct(q) == \A i, j \in DOMAIN q : SameId(q[i], q[j]) => i = j

OneCopyInv ==
  /\ \A m1, m2 \in toSwitch : SameId(m1, m2) => m1 = m2
  /\ Distinct(recirculating)
  /\ \A m1 \in toSwitch, m2 \in OnPort : ~SameId(m1, m2)

\* A packet has left its worker and brings the worker's gradient along.
PacketInv ==
  \A m \in UnderWay :
    /\ Left(m.worker, SlotOf(m.agtr), m.round)
    /\ Entries(m)[m.worker] # << >>

\* The packet of w of the round of register a is past it.
Passed(w, a) ==
  /\ Left(w, SlotOf(a), roundNumbers[a])
  /\ ~Unsent(w, SlotOf(a), roundNumbers[a])
  /\ \A m \in UnderWay : IsPacket(m, w, SlotOf(a), roundNumbers[a]) => a < m.agtr

\* The workers in W are counted in register a, and their gradients are in it.
Counted(W, a) ==
  /\ receive_count[a] = Cardinality(W)
  /\ \A w \in W : Passed(w, a) /\ register[a][w] # << >>

CountInv ==
  \A a \in Registers : SlotOf(a) \in Agtr => \E W \in SUBSET Worker : Counted(W, a)

\* What was multicast from a register is over, or it is the full round there.
AnsweredInv ==
  /\ OneMulticastPerRound
  /\ \A a \in Registers : \A i \in DOMAIN answered[a] :
       /\ answered[a][i] <= roundNumbers[a]
       /\ answered[a][i] = roundNumbers[a] => receive_count[a] = NUM_WORKER

\* A multicast comes out of the last pass, and all workers have sent.
Multicast(m) ==
  /\ m.recirc_time = CIRC_TIME - 1
  /\ \A w \in Worker : Left(w, SlotOf(m.agtr), m.round) /\ Entries(m)[w] # << >>

PassInv ==
  /\ TxInv
  /\ OneCopyInv
  /\ PacketInv
  /\ CountInv
  /\ AnsweredInv
  /\ \A p \in Multicasts : Multicast(p[2])

-----------------------------------------------------------------------------
GradientsOnly == \A t \in Task : Program[t].cmd = TENSOR_COMM

\* m is a gradient packet of the key its slot and round determine, and so are
\* the gradients in its entries.
Keyed(m) ==
  /\ m.cmd = TENSOR_COMM
  /\ m.key = KeyAt(SlotOf(m.agtr), m.round)
  /\ \A w \in Worker : \A i \in DOMAIN Entries(m)[w] : Entries(m)[w][i] = m.key

\* All jobs are gradients, and so is the packet TxThread has assembled, with
\* the key of its slot and round.
JobKeys ==
  /\ \A w \in Worker : \A i \in DOMAIN pushpulljobQueue[w] :
       pushpulljobQueue[w][i].cmd = TENSOR_COMM
  /\ \A w \in Worker : txpkt[w] # NoPacket =>
       /\ txpkt[w].cmd = TENSOR_COMM
       /\ txpkt[w].key = KeyAt(txpkt[w].agtr, txpkt[w].round)

\* A register holds gradients of the key of its slot and round.
RegisterKeys ==
  \A a \in Registers, w \in Worker : \A i \in DOMAIN register[a][w] :
    register[a][w][i] = KeyAt(SlotOf(a), roundNumbers[a])

KeyInv ==
  /\ ClientInv
  /\ JobKeys
  /\ RegisterKeys
  /\ \A m \in UnderWay : Keyed(m)
  /\ \A p \in toWorker : Keyed(p[2]) /\ \E w \in Worker : Entries(p[2])[w] # << >>

=============================================================================
