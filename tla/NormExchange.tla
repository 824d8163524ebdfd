---------------------------- MODULE NormExchange -----------------------------
(***************************************************************************)
(* The norm exchange of the training step: CommunicateNorm and the norm    *)
(* branch of RxThread in the DPDK client (dpdk/client/dpdk_manager.cc),    *)
(* the software parameter server, and the network.  The training loop      *)
(* calls it from one thread and blocks until the answer is there           *)
(* (torch/ops.cc SendNorm, torch/__init__.py).                             *)
(*                                                                         *)
(* Norms are non-negative floats sent as their bit patterns, which compare *)
(* like the floats: a small set of naturals.                               *)
(***************************************************************************)
EXTENDS ParameterServer

CONSTANTS
  NormProgram,     \* the keys of the calls, in the order all workers make them
  Norm,            \* the norms a worker may have
  MAX_AGTR_COUNT,  \* the norm slots follow the gradient slots
  NORM_SLOT        \* number of norm slots

ASSUME NormAssumption ==
  /\ NormProgram \in Seq(Nat) /\ Norm \subseteq Nat
  /\ NORM_SLOT \in Nat \ {0} /\ MAX_AGTR_COUNT \in Nat
  /\ TOTAL_AGTR_CNT \in Nat /\ MAX_AGTR_COUNT + NORM_SLOT <= TOTAL_AGTR_CNT

NormKey  == {NormProgram[c] : c \in DOMAIN NormProgram}
NormAgtr == MAX_AGTR_COUNT .. MAX_AGTR_COUNT + NORM_SLOT - 1

NoPacket == [worker |-> "none"]

VARIABLES
  given,          \* worker -> norms it called CommunicateNorm with
  returned,       \* worker -> results of its calls
  txpkt,          \* worker -> packet assembled and not yet sent
  slot_roundnum,  \* worker -> norm slot -> round of its next packet
  slot_ready,     \* worker -> norm slot -> not marked as used
  norm_ready,     \* worker -> key -> the answer is there
  norm_value,     \* worker -> key -> the answer
  toPS,           \* packets on their way to the server
  toWorker        \* <<worker, reply>> pairs on their way back

normVars == <<given, returned, txpkt, slot_roundnum, slot_ready, norm_ready, norm_value>>
vars == <<normVars, toPS, toWorker, psVars>>

Init ==
  /\ PsInit
  /\ given         = [w \in Worker |-> << >>]
  /\ returned      = [w \in Worker |-> << >>]
  /\ txpkt         = [w \in Worker |-> NoPacket]
  /\ slot_roundnum = [w \in Worker |-> [s \in NormAgtr |-> 0]]
  /\ slot_ready    = [w \in Worker |-> [s \in NormAgtr |-> TRUE]]
  /\ norm_ready    = [w \in Worker |-> [k \in NormKey |-> FALSE]]
  /\ norm_value    = [w \in Worker |-> [k \in NormKey |-> 0]]
  /\ toPS = {} /\ toWorker = {}

NormAgtrOf(k) == MAX_AGTR_COUNT + (k % NORM_SLOT)

\* The call the worker is in: it has given a norm and has no result yet.
InCall(w) == Len(returned[w]) < Len(given[w])
CallKey(w) == NormProgram[Len(given[w])]

-----------------------------------------------------------------------------
(* CommunicateNorm.                                                        *)

\* The packet is assembled and norm_ready cleared before anything is sent.
\* The slot is not marked as used.
NormAssemble(w, n) ==
  LET k == NormProgram[Len(given[w]) + 1]
      s == NormAgtrOf(k)
  IN  /\ ~InCall(w)
      /\ Len(given[w]) < Len(NormProgram)
      /\ given' = [given EXCEPT ![w] = Append(@, n)]
      /\ txpkt' = [txpkt EXCEPT ![w] =
                     [worker |-> w, agtr |-> s, round |-> slot_roundnum[w][s],
                      key |-> k, cmd |-> TENSOR_NORM, norm |-> n]]
      /\ norm_ready' = [norm_ready EXCEPT ![w][k] = FALSE]
      /\ UNCHANGED <<returned, slot_roundnum, slot_ready, norm_value,
                     toPS, toWorker, psVars>>

NormBurst(w) ==
  /\ txpkt[w] # NoPacket
  /\ toPS'  = toPS \cup {txpkt[w]}
  /\ txpkt' = [txpkt EXCEPT ![w] = NoPacket]
  /\ UNCHANGED <<given, returned, slot_roundnum, slot_ready, norm_ready,
                 norm_value, toWorker, psVars>>

\* The end of the busy wait.
NormReturn(w) ==
  /\ InCall(w)
  /\ txpkt[w] = NoPacket
  /\ norm_ready[w][CallKey(w)]
  /\ returned' = [returned EXCEPT ![w] = Append(@, norm_value[w][CallKey(w)])]
  /\ UNCHANGED <<given, txpkt, slot_roundnum, slot_ready, norm_ready,
                 norm_value, toPS, toWorker, psVars>>

-----------------------------------------------------------------------------
\* Faulty variant: the waiting call is not told.
NormReceiveUnready(w, r) ==
  /\ toWorker' = toWorker \ {<<w, r>>}
  /\ IF r.round = slot_roundnum[w][r.agtr]
       THEN /\ slot_roundnum' = [slot_roundnum EXCEPT ![w][r.agtr] = @ + 1]
            /\ norm_value'    = [norm_value    EXCEPT ![w][r.key] = r.norm]
       ELSE UNCHANGED <<slot_roundnum, norm_value>>
  /\ UNCHANGED <<given, returned, txpkt, slot_ready, norm_ready, toPS, psVars>>

\* RxThread of the client on a norm reply.
NormReceive(w, r) ==
  /\ toWorker' = toWorker \ {<<w, r>>}
  /\ IF r.round = slot_roundnum[w][r.agtr]
       THEN /\ slot_roundnum' = [slot_roundnum EXCEPT ![w][r.agtr] = @ + 1]
            /\ norm_value'    = [norm_value    EXCEPT ![w][r.key] = r.norm]
            /\ norm_ready'    = [norm_ready    EXCEPT ![w][r.key] = TRUE]
       ELSE UNCHANGED <<slot_roundnum, norm_value, norm_ready>>
  /\ UNCHANGED <<given, returned, txpkt, slot_ready, toPS, psVars>>

\* What Reset does to the norm slots, ten seconds after the last completed
\* task: its loop runs over them too and frees the ones marked as used.
NormReset(w) ==
  /\ slot_roundnum' = [slot_roundnum EXCEPT ![w] =
                         [s \in NormAgtr |-> IF slot_ready[w][s] THEN @[s] ELSE @[s] + 1]]
  /\ slot_ready' = [slot_ready EXCEPT ![w] = [s \in NormAgtr |-> TRUE]]
  /\ UNCHANGED <<given, returned, txpkt, norm_ready, norm_value, toPS, toWorker, psVars>>

ServerReceive(m) ==
  /\ PsReceive(m)
  /\ toPS' = toPS \ {m}
  /\ toWorker' = IF Completes(m) THEN toWorker \cup (Worker \X {Reply(m)})
                                 ELSE toWorker
  /\ UNCHANGED normVars

ServerStep == \E m \in toPS : ServerReceive(m)
ReceiveStep == \E p \in toWorker : NormReceive(p[1], p[2])

Next ==
  \/ \E w \in Worker :
       (\E n \in Norm : NormAssemble(w, n)) \/ NormBurst(w) \/ NormReturn(w) \/ NormReset(w)
  \/ ServerStep
  \/ ReceiveStep

Spec == Init /\ [][Next]_vars

-----------------------------------------------------------------------------
(* Properties.                                                             *)

\* Every variable keeps its type; no gradient ever gets into a norm slot.
NormTypeOK ==
  /\ given    \in [Worker -> Seq(Norm)]
  /\ returned \in [Worker -> Seq(Norm)]
  /\ slot_roundnum \in [Worker -> [NormAgtr -> Nat]]
  /\ slot_ready    \in [Worker -> [NormAgtr -> BOOLEAN]]
  /\ norm_ready    \in [Worker -> [NormKey -> BOOLEAN]]
  /\ norm_value    \in [Worker -> [NormKey -> Nat]]
  /\ receive_count \in [Slots -> 0 .. NUM_WORKER]
  /\ \A m \in toPS : m.agtr \in NormAgtr /\ m.norm \in Norm
  /\ \A s \in Slots : data_slots[s] = [w \in Worker |-> << >>]

\* The exchange is an all-reduce: CommunicateNorm returns the largest norm of
\* all workers for this very call, and no earlier than all have made it.
AllReduce == INSTANCE MaxAllReduce
ImplementsAllReduce == AllReduce!Spec

\* A worker that is in a call and sees no answer has a packet to send or to be
\* handled, or its packet is counted in the slot, or its reply is on the way:
\* nothing but the network loses a norm.  The server has counted it when the
\* slot is in the round of the packet and the bitmap has the worker.
NormNotForgotten ==
  \A w \in Worker :
    LET s == NormAgtrOf(CallKey(w))
    IN  InCall(w) /\ ~norm_ready[w][CallKey(w)] =>
          \/ txpkt[w] # NoPacket
          \/ \E m \in toPS : m.worker = w
          \/ roundNumbers[s] = slot_roundnum[w][s] /\ w \in bitmap[s]
          \/ \E r \in {p[2] : p \in {q \in toWorker : q[1] = w}} :
               r.round = slot_roundnum[w][s]

-----------------------------------------------------------------------------
(* Progress.                                                               *)

ThreadFairness ==
  \A w \in Worker :
    /\ WF_vars(\E n \in Norm : NormAssemble(w, n))
    /\ WF_vars(NormBurst(w))
    /\ WF_vars(NormReturn(w))
    /\ WF_vars(NormReset(w))

\* Every packet is delivered, to the server and to each worker.
LosslessSpec == Spec /\ ThreadFairness /\ WF_vars(ServerStep) /\ WF_vars(ReceiveStep)

\* Every call of CommunicateNorm returns.
EveryNormCallReturns ==
  \A w \in Worker : <>(Len(returned[w]) = Len(NormProgram))

=============================================================================
