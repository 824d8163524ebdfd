---------------------------- MODULE SwitchSystem -----------------------------
(***************************************************************************)
(* In-network aggregation on the switch: the clients of DPDKManager, built *)
(* without SW_PS, the registers of P4Switch and the network between them.  *)
(* Networks delay, reorder and lose; the recirculation port keeps packets  *)
(* in order and may drop one when it is congested.                         *)
(***************************************************************************)
EXTENDS DPDKManager, P4Switch

CONSTANT RouteTo    \* workers that a packet routed by its address reaches

\* The route table is filled outside the program; with the entries the
\* repository installs, none, a late packet leaves by a port of no worker.
ASSUME RouteAssumption == RouteTo \subseteq Worker

ASSUME RegisterAssumption == MAX_AGTR_COUNT * CIRC_TIME <= total_aggregator_cnt

VARIABLES
  toSwitch,   \* packets on their way to the switch
  toWorker,   \* <<worker, packet>> pairs on their way back
  answered    \* history: register -> rounds multicast from it, in order

netVars == <<toSwitch, toWorker, answered>>
vars == <<clientVars, switchVars, netVars>>

Init ==
  /\ ClientInit /\ SwitchInit
  /\ toSwitch = {} /\ toWorker = {}
  /\ answered = [a \in Registers |-> << >>]

-----------------------------------------------------------------------------
(* What differs in the client: the index of the first of CIRC_TIME         *)
(* aggregators goes out, the index of the last comes back.                 *)

assemble_dpdk_p4ml_hdrs(p) ==
  [worker |-> p.worker, agtr |-> p.agtr * CIRC_TIME, round |-> p.round,
   key |-> p.key, cmd |-> p.cmd, norm |-> p.norm, packet_type |-> 0,
   recirc_time |-> 0,
   vector |-> [c \in 1 .. CIRC_TIME |-> Gradient(p.worker, p.key)]]

\* RxThread's agtr_index.  The division truncates towards zero.  For a
\* command that is neither a norm nor a gradient the variable is not set.
AgtrIndex(m) ==
  IF m.cmd # TENSOR_COMM THEN Agtr
  ELSE IF m.agtr < CIRC_TIME THEN {0}
  ELSE {(m.agtr - (CIRC_TIME - 1)) \div CIRC_TIME}

AsReply(m, s) ==
  [agtr |-> s, round |-> m.round, key |-> m.key, cmd |-> m.cmd,
   norm |-> m.norm, data |-> m.vector]

-----------------------------------------------------------------------------
Client(w) ==
  /\ \/ PushStart(w) \/ PushJob(w) \/ TxAssemble(w)
     \/ ResetBegin(w) \/ ResetSlot(w) \/ PollFinishKey(w)
  /\ UNCHANGED <<switchVars, netVars>>

Send(w) ==
  /\ TxBurst(w)
  /\ toSwitch' = toSwitch \cup {assemble_dpdk_p4ml_hdrs(txpkt[w])}
  /\ UNCHANGED <<switchVars, toWorker, answered>>

\* SwitchIngress on packet m: multicast, routed, dropped or recirculated.
Ingress(m, rest) ==
  /\ SwitchPass(m, rest)
  /\ toWorker' = toWorker \cup
       (IF Completes(m) THEN Worker \X {Aggregated(m)}
        ELSE IF Stale(m) THEN RouteTo \X {Zeroed(m)}
        ELSE {})
  /\ answered' = IF Completes(m)
                   THEN [answered EXCEPT ![m.agtr] = Append(@, m.round)]
                   ELSE answered
  /\ UNCHANGED clientVars

Arrive(m) ==
  /\ Ingress(m, recirculating)
  /\ toSwitch' = toSwitch \ {m}

Recirculate ==
  /\ recirculating # << >>
  /\ Ingress(Head(recirculating), Tail(recirculating))
  /\ UNCHANGED toSwitch

\* The traffic manager drops the packet at the head of the port.
RecirculationDrop ==
  /\ recirculating # << >>
  /\ recirculating' = Tail(recirculating)
  /\ UNCHANGED <<clientVars, registerVars, netVars>>

WorkerReceive(w, m) ==
  /\ \E s \in AgtrIndex(m) : RxPacket(w, AsReply(m, s))
  /\ toWorker' = toWorker \ {<<w, m>>}
  /\ UNCHANGED <<switchVars, toSwitch, answered>>

Next ==
  \/ \E w \in Worker : Client(w) \/ Send(w)
  \/ \E m \in toSwitch : Arrive(m)
  \/ Recirculate
  \/ RecirculationDrop
  \/ \E p \in toWorker : WorkerReceive(p[1], p[2])

Spec == Init /\ [][Next]_vars

-----------------------------------------------------------------------------
(* Properties.                                                             *)

Chunk == [Worker -> Seq(Key)]

Packet == [worker : Worker, agtr : Registers, round : Nat, key : Key,
           cmd : PushCmd, norm : Nat, packet_type : {0, 1},
           recirc_time : 0 .. CIRC_TIME - 1, vector : [1 .. CIRC_TIME -> Chunk]]

\* Registers and packets keep their types: no pass of a packet leaves the
\* registers, and no packet goes around more often than it has chunks.
SwitchTypeOK ==
  /\ roundNumbers  \in [Registers -> Nat]
  /\ receive_count \in [Registers -> 0 .. NUM_WORKER]
  /\ bitmap        \in [Registers -> SUBSET Worker]
  /\ norm_info     \in [Registers -> Nat]
  /\ register      \in [Registers -> Chunk]
  /\ \A i \in DOMAIN recirculating : recirculating[i] \in Packet
  /\ toSwitch \subseteq Packet
  /\ toWorker \subseteq Worker \X Packet
  /\ slot_roundnum \in [Worker -> [Agtr -> Nat]]
  /\ slot_ready    \in [Worker -> [Agtr -> BOOLEAN]]

\* What the switch multicasts; it never multicasts a packet it zeroed.
Multicasts == {p \in toWorker : \E w \in Worker : p[2].vector[1][w] # << >>}

\* A multicast packet holds, in the entries the switch processes, a gradient
\* of every worker and of no other key than its own.  Only the count of the
\* final pass is compared, and the entries are what the packet carried away
\* from each pass: every register restarts its count and its sum on its own,
\* also when a packet was dropped between two passes.
MulticastHasEveryWorker ==
  \A p \in Multicasts : \A w \in Worker :
    LET part == p[2].vector[1][w]
    IN  part # << >> /\ \A i \in DOMAIN part : part[i] = p[2].key

\* A register is multicast at most once per round and in the order of the
\* rounds, although each of the CIRC_TIME registers of a packet counts on its
\* own and packets of several rounds are on their way around.
OneMulticastPerRound ==
  \A a \in Registers : \A i, j \in DOMAIN answered[a] :
    i < j => answered[a][i] < answered[a][j]

\* The client recovers from the register index of a multicast the slot that
\* waits for its key, whenever it accepts the packet at all.
MulticastIsAwaited ==
  \A p \in Multicasts : \A s \in AgtrIndex(p[2]) :
    Expected(p[1], AsReply(p[2], s)) =>
      /\ ~slot_ready[p[1]][s]
      /\ slot_dpdk_key[p[1]][s] = p[2].key

\* Every chunk of a multicast packet is the sum of all workers' gradients,
\* each added once: CIRC_TIME passes exist to aggregate CIRC_TIME chunks.
EveryChunkIsSummed ==
  \A p \in Multicasts : \A c \in 1 .. CIRC_TIME, w \in Worker :
    p[2].vector[c][w] = <<p[2].key>>
=============================================================================
