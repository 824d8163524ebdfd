----------------------------- MODULE IncaSystem ------------------------------
(***************************************************************************)
(* In-network aggregation end to end: the DPDK clients of all workers, the *)
(* software parameter server and the network between them.  The switch     *)
(* forwards packets to the server and multicasts its reply to every worker *)
(* (P4/main.p4); each copy travels on its own.                             *)
(*                                                                         *)
(* The network delays and reorders without bound and loses packets: no     *)
(* fairness is assumed of a delivery, so a packet that is never taken from *)
(* toPS or toWorker is a lost one.  It does not duplicate.                 *)
(***************************************************************************)
EXTENDS DPDKManager, ParameterServer

\* 2500 gradient slots, 3000 slots in the server.
ASSUME ServerAssumption == TOTAL_AGTR_CNT \in Nat /\ MAX_AGTR_COUNT <= TOTAL_AGTR_CNT

VARIABLES
  toPS,       \* packets on their way to the server
  toWorker,   \* <<worker, reply>> pairs on their way back
  counted     \* history: slot -> workers counted in its round

vars == <<clientVars, toPS, toWorker, psVars, counted>>

Init ==
  /\ ClientInit /\ PsInit
  /\ toPS = {} /\ toWorker = {}
  /\ counted = [s \in Slots |-> {}]

Client(w) ==
  /\ \/ PushStart(w) \/ PushJob(w) \/ TxAssemble(w)
     \/ ResetBegin(w) \/ ResetSlot(w) \/ PollFinishKey(w)
  /\ UNCHANGED <<toPS, toWorker, psVars, counted>>

Send(w) ==
  /\ TxBurst(w)
  /\ toPS' = toPS \cup {txpkt[w]}
  /\ UNCHANGED <<toWorker, psVars, counted>>

ServerReceive(m) ==
  /\ PsReceive(m)
  /\ toPS' = toPS \ {m}
  /\ toWorker' = IF Completes(m) THEN toWorker \cup (Worker \X {Reply(m)})
                                 ELSE toWorker
  /\ counted' =
       IF Stale(m) THEN counted
       ELSE [counted EXCEPT ![m.agtr] =
               IF CountAfter(m) = 1 THEN {m.worker} ELSE @ \cup {m.worker}]
  /\ UNCHANGED clientVars

WorkerReceive(w, r) ==
  /\ RxPacket(w, r)
  /\ toWorker' = toWorker \ {<<w, r>>}
  /\ UNCHANGED <<toPS, psVars, counted>>

Next ==
  \/ \E w \in Worker : Client(w) \/ Send(w)
  \/ \E m \in toPS : ServerReceive(m)
  \/ \E p \in toWorker : WorkerReceive(p[1], p[2])

Spec == Init /\ [][Next]_vars

-----------------------------------------------------------------------------
(* Properties.                                                             *)

Vector == [Worker -> Seq(Key)]

Packet == [worker : Worker, agtr : Agtr, round : Nat, key : Key,
           cmd : PushCmd, norm : {0}]

ReplyPacket == [agtr : Agtr, round : Nat, key : Key, cmd : PushCmd,
                norm : {0}, data : Vector]

ThreadTypes ==
  /\ cpubuff_table    \in [Worker -> [Key -> Vector]]
  /\ pushpulljobQueue \in [Worker -> Seq(Job)]
  /\ txpkt     \in [Worker -> Packet \cup {NoPacket}]
  /\ resetting \in [Worker -> {-1} \cup Agtr]

NetworkTypes ==
  /\ toPS \subseteq Packet
  /\ toWorker \subseteq Worker \X ReplyPacket

ServerTypes ==
  /\ roundNumbers  \in [Slots -> Nat]
  /\ receive_count \in [Slots -> 0 .. NUM_WORKER]
  /\ bitmap        \in [Slots -> SUBSET Worker]
  /\ norm_info     \in [Slots -> {0}]
  /\ data_slots    \in [Slots -> Vector]
  /\ counted       \in [Slots -> SUBSET Worker]

\* Every variable keeps its type: in particular the tables of the client are
\* only ever indexed with keys below DPDK_KEY_TOTAL.
TypeOK ==
  /\ PushTypes
  /\ SlotTypes
  /\ PartTypes
  /\ ThreadTypes
  /\ NetworkTypes
  /\ ServerTypes

InFlight == toPS \cup {txpkt[w] : w \in {v \in Worker : txpkt[v] # NoPacket}}

\* Packets of one slot and one round carry the same key and command, whoever
\* sent them: the server adds vectors by slot and round and never looks at the
\* key, so this is what keeps gradients of different tensors out of one sum,
\* through any pattern of replies and timeouts on the individual workers.
SameRoundSameKey ==
  \A m1, m2 \in InFlight :
    m1.agtr = m2.agtr /\ m1.round = m2.round =>
      m1.key = m2.key /\ m1.cmd = m2.cmd

\* The sum of the gradients that all workers have for key k.
FullSum(k) == [w \in Worker |-> <<k>>]

\* Every gradient reply carries each worker's gradient of the reply's key
\* exactly once: no worker is missing, none is counted twice, and nothing is
\* left in the slot from an abandoned round or from a round whose packets
\* were not aggregated.
ReplyIsFullSum ==
  \A p \in toWorker : p[2].cmd = TENSOR_COMM => p[2].data = FullSum(p[2].key)

\* RxThread accepts a reply by its round alone.  Whenever it would accept
\* one, the slot is occupied and waits for the key the reply carries.
AcceptedReplyIsAwaited ==
  \A p \in toWorker :
    LET w == p[1]
        r == p[2]
    IN  Expected(w, r) =>
          /\ ~slot_ready[w][r.agtr]
          /\ slot_dpdk_key[w][r.agtr] = r.key

\* Parts of task t of worker w that are still to be queued, sent or answered.
OpenParts(w, t) ==
  Cardinality({k \in OutstandingKeys(w) : dpdk_key_to_tensor_key[w][k] = t})
    + (IF t = pushed[w] THEN pushing[w].left ELSE 0)

\* A task has a table entry exactly until its finish has been polled, it is
\* in finishKeys only when none of its parts is open and then only once, and
\* a task with an entry and no finish pending still has an open part.
FinishedExactlyOnce ==
  \A w \in Worker :
    /\ \A i, j \in DOMAIN finishKeys[w] :
         finishKeys[w][i] = finishKeys[w][j] => i = j
    /\ \A t \in Task :
         LET reported == \E i \in DOMAIN finishKeys[w] : finishKeys[w][i] = t
         IN  /\ reported => t \in DPDKTask[w] /\ OpenParts(w, t) = 0
             /\ t \in DPDKTask[w] /\ ~reported => OpenParts(w, t) > 0
             /\ OpenParts(w, t) > 0 => t \in DPDKTask[w]

\* A worker's buffer holds its own gradient of the key, or the full sum:
\* a timeout may leave a gradient unaggregated, never partly aggregated.
BufferLocalOrFullSum ==
  \A w \in Worker, k \in Key :
    cpubuff_table[w][k] \in {NoVector, Gradient(w, k), FullSum(k)}

\* The round of a slot advances by one, and only when a packet was
\* outstanding in it; RxThread does not test slot_ready.
RoundAdvancesWithSlot ==
  [][\A w \in Worker, s \in Agtr :
       slot_roundnum'[w][s] # slot_roundnum[w][s] =>
         /\ slot_roundnum'[w][s] = slot_roundnum[w][s] + 1
         /\ ~slot_ready[w][s] /\ slot_ready'[w][s]]_vars

-----------------------------------------------------------------------------
(* Progress.  The threads of a worker run forever; the timer of            *)
(* DPDKResetLoop expires when no task completes.  Nothing is assumed of    *)
(* the network.                                                            *)

Fairness ==
  \A w \in Worker :
    /\ WF_vars(PushStart(w)  /\ UNCHANGED <<toPS, toWorker, psVars, counted>>)
    /\ WF_vars(PushJob(w)    /\ UNCHANGED <<toPS, toWorker, psVars, counted>>)
    /\ WF_vars(TxAssemble(w) /\ UNCHANGED <<toPS, toWorker, psVars, counted>>)
    /\ WF_vars(Send(w))
    /\ WF_vars(ResetBegin(w) /\ UNCHANGED <<toPS, toWorker, psVars, counted>>)
    /\ WF_vars(ResetSlot(w)  /\ UNCHANGED <<toPS, toWorker, psVars, counted>>)
    /\ WF_vars(PollFinishKey(w) /\ UNCHANGED <<toPS, toWorker, psVars, counted>>)

FairSpec == Spec /\ Fairness

\* Every task is eventually finished and polled on every worker, whatever the
\* network does with the packets.
EveryTaskFinishes ==
  \A w \in Worker, t \in Task : <>(pushed[w] >= t /\ t \notin DPDKTask[w])

=============================================================================
