------------------------------ MODULE NormProofs -----------------------------
(***************************************************************************)
(* NormExchange keeps its types, forgets no norm and implements the        *)
(* all-reduce of MaxAllReduce, for every set of workers, every sequence of *)
(* calls, every set of norms and every number of slots.                    *)
(***************************************************************************)
EXTENDS NormInvariant, FiniteSetTheorems, TLAPS

LEMMA Workers == NUM_WORKER \in Nat \ {0} /\ IsFiniteSet(Worker) /\ Worker # {}
  BY WorkerAssumption, FS_CardinalityType, FS_EmptySet DEF NUM_WORKER

LEMMA NormSlots == NormAgtr \subseteq Slots
  BY NormAssumption DEF NormAgtr, Slots

LEMMA CallTypes ==
  ASSUME NEW c \in Call
  PROVE  c \in Nat \ {0} /\ NormProgram[c] \in NormKey /\ NormProgram[c] \in Nat
         /\ SlotOf(c) \in NormAgtr
  <1>1. NormProgram \in Seq(Nat) /\ NORM_SLOT \in Nat \ {0} /\ MAX_AGTR_COUNT \in Nat
    BY NormAssumption
  <1>2. c \in DOMAIN NormProgram /\ NormProgram[c] \in Nat /\ c \in Nat \ {0}
    BY <1>1 DEF Call
  <1>3. NormProgram[c] % NORM_SLOT \in 0 .. NORM_SLOT - 1
    BY <1>1, <1>2
  <1> QED BY <1>1, <1>2, <1>3 DEF NormKey, SlotOf, NormAgtrOf, NormAgtr

-----------------------------------------------------------------------------
(* Rounds count the calls of a slot.                                       *)

LEMMA ThroughType ==
  ASSUME NEW s, NEW n \in Nat
  PROVE  IsFiniteSet({b \in 1 .. n : SlotOf(b) = s}) /\ Through(s, n) \in Nat
  <1>1. IsFiniteSet(1 .. n)
    BY FS_Interval
  <1>2. {b \in 1 .. n : SlotOf(b) = s} \in SUBSET (1 .. n)
    OBVIOUS
  <1>3. IsFiniteSet({b \in 1 .. n : SlotOf(b) = s})
    BY <1>1, <1>2, FS_Subset
  <1> QED BY <1>3, FS_CardinalityType DEF Through

\* A call advances the round of its own slot and of no other.
LEMMA ThroughStep ==
  ASSUME NEW s, NEW n \in Nat \ {0}
  PROVE  Through(s, n) = Through(s, n - 1) + (IF SlotOf(n) = s THEN 1 ELSE 0)
  <1> DEFINE S(k) == {b \in 1 .. k : SlotOf(b) = s}
  <1>1. n - 1 \in Nat /\ n \notin S(n - 1)
    OBVIOUS
  <1>2. IsFiniteSet(S(n - 1))
    BY <1>1, ThroughType
  <1>3. CASE SlotOf(n) = s
    <2>1. S(n) = S(n - 1) \cup {n}
      BY <1>3
    <2>2. Cardinality(S(n)) = Cardinality(S(n - 1)) + 1
      BY <1>1, <1>2, <2>1, FS_AddElement
    <2> QED BY <1>3, <2>2 DEF Through
  <1>4. CASE SlotOf(n) # s
    <2>1. S(n) = S(n - 1)
      BY <1>4
    <2>2. Through(s, n - 1) \in Nat
      BY <1>1, ThroughType
    <2> QED BY <1>4, <2>1, <2>2 DEF Through
  <1> QED BY <1>3, <1>4

LEMMA ThroughMonotone ==
  ASSUME NEW s, NEW m \in Nat, NEW n \in Nat, m <= n
  PROVE  Through(s, m) <= Through(s, n)
  <1>1. {b \in 1 .. m : SlotOf(b) = s} \in SUBSET {b \in 1 .. n : SlotOf(b) = s}
    OBVIOUS
  <1> QED BY <1>1, ThroughType, FS_Subset DEF Through

\* Two calls of one slot are of the same round only if they are one call.
LEMMA RoundOfCall ==
  ASSUME NEW c \in Nat \ {0}, NEW n \in Nat, Through(SlotOf(c), c - 1) = Through(SlotOf(c), n)
  PROVE  n < c
  <1>0. c - 1 \in Nat
    OBVIOUS
  <1>1. Through(SlotOf(c), c - 1) \in Nat
    BY <1>0, ThroughType
  <1>2. Through(SlotOf(c), c) = Through(SlotOf(c), c - 1) + 1
    BY ThroughStep
  <1>3. c <= n => Through(SlotOf(c), c) <= Through(SlotOf(c), n)
    BY ThroughMonotone
  <1> QED BY <1>1, <1>2, <1>3

-----------------------------------------------------------------------------
(* Type correctness.                                                       *)

LEMMA InitTypes == Init => NormTypes
  <1> SUFFICES ASSUME Init PROVE NormTypes
    OBVIOUS
  <1>1. ServerTypes
    BY Workers DEF Init, PsInit, ServerTypes
  <1>2. ClientTypes
    BY DEF Init, ClientTypes
  <1>3. NetworkTypes
    BY DEF Init, NetworkTypes
  <1> QED BY <1>1, <1>2, <1>3 DEF NormTypes

\* The worker between two calls, and the call it makes next.
LEMMA NextCall ==
  ASSUME NormTypes, NEW w \in Worker, Len(given[w]) < Len(NormProgram)
  PROVE  /\ Len(given[w]) \in Nat /\ Len(given[w]) + 1 \in Call
         /\ NormProgram[Len(given[w]) + 1] \in NormKey
         /\ SlotOf(Len(given[w]) + 1) \in NormAgtr
  <1>1. Len(given[w]) \in Nat /\ Len(NormProgram) \in Nat
    BY NormAssumption DEF NormTypes, ClientTypes
  <1>2. Len(given[w]) + 1 \in Call
    BY <1>1 DEF Call
  <1> QED BY <1>1, <1>2, CallTypes

LEMMA PacketTypes ==
  ASSUME NormTypes, NEW m \in toPS
  PROVE  /\ m \in NormPacket /\ m.worker \in Worker /\ m.agtr \in NormAgtr /\ m.agtr \in Slots
         /\ m.round \in Nat /\ m.key \in NormKey /\ m.cmd = TENSOR_NORM
         /\ m.norm \in Norm /\ m.norm \in Nat
         /\ NormAfter(m) \in Norm /\ CountAfter(m) \in 1 .. NUM_WORKER
         /\ DataAfter(m) = [w \in Worker |-> << >>]
  <1>1. m \in NormPacket
    BY DEF NormTypes, NetworkTypes
  <1>2. /\ m.worker \in Worker /\ m.agtr \in NormAgtr /\ m.agtr \in Slots /\ m.round \in Nat
        /\ m.key \in NormKey /\ m.cmd = TENSOR_NORM /\ m.norm \in Norm /\ m.norm \in Nat
    BY <1>1, NormSlots, NormAssumption DEF NormPacket
  <1>3. /\ norm_info[m.agtr] \in Norm \cup {0} /\ receive_count[m.agtr] \in 0 .. NUM_WORKER
        /\ data_slots[m.agtr] = [w \in Worker |-> << >>]
    BY <1>2 DEF NormTypes, ServerTypes
  <1>4. NormAfter(m) \in Norm
    BY <1>2, <1>3, NormAssumption DEF NormAfter
  <1>5. CountAfter(m) \in 1 .. NUM_WORKER
    BY <1>3, Workers DEF CountAfter
  <1>6. DataAfter(m) = [w \in Worker |-> << >>]
    BY <1>2, <1>3 DEF DataAfter, TENSOR_NORM, TENSOR_COMM
  <1> QED BY <1>1, <1>2, <1>4, <1>5, <1>6

LEMMA NextTypes == NormTypes /\ [Next]_vars => NormTypes'
  <1> SUFFICES ASSUME NormTypes, [Next]_vars PROVE NormTypes'
    OBVIOUS
  <1>0. ServerTypes /\ ClientTypes /\ NetworkTypes
    BY DEF NormTypes
  <1> USE DEF vars, normVars, psVars
  <1>1. ASSUME NEW w \in Worker, NEW n \in Norm, NormAssemble(w, n) PROVE NormTypes'
    <2> DEFINE k == NormProgram[Len(given[w]) + 1]
               s == NormAgtrOf(k)
               m == [worker |-> w, agtr |-> s, round |-> slot_roundnum[w][s],
                     key |-> k, cmd |-> TENSOR_NORM, norm |-> n]
    <2>1. k \in NormKey /\ s \in NormAgtr
      BY <1>1, NextCall DEF NormAssemble, SlotOf
    <2>2. m \in NormPacket
      BY <1>0, <2>1 DEF NormPacket, ClientTypes
    <2>3. /\ given' = [given EXCEPT ![w] = Append(@, n)]
          /\ txpkt' = [txpkt EXCEPT ![w] = m]
          /\ norm_ready' = [norm_ready EXCEPT ![w][k] = FALSE]
          /\ UNCHANGED <<returned, slot_roundnum, slot_ready, norm_value, toPS, toWorker, psVars>>
      BY <1>1 DEF NormAssemble
    <2> HIDE DEF m, k
    <2>4. Len(given[w]) < Len(NormProgram) /\ Len(NormProgram) \in Nat
      BY <1>1, NormAssumption DEF NormAssemble
    <2>5. \A v \in Worker : Len(given'[v]) <= Len(NormProgram)
      BY <1>0, <2>3, <2>4 DEF ClientTypes
    <2>6. ClientTypes'
      BY <1>0, <2>1, <2>2, <2>3, <2>5 DEF ClientTypes
    <2> QED BY <1>0, <2>3, <2>6 DEF NormTypes, ServerTypes, NetworkTypes
  <1>2. ASSUME NEW w \in Worker, NormBurst(w) PROVE NormTypes'
    <2>1. txpkt[w] \in NormPacket
      BY <1>0, <1>2 DEF ClientTypes, NormBurst
    <2>2. ClientTypes' /\ NetworkTypes'
      BY <1>0, <1>2, <2>1 DEF NormBurst, ClientTypes, NetworkTypes
    <2> QED BY <1>0, <1>2, <2>2 DEF NormTypes, ServerTypes, NormBurst
  <1>3. ASSUME NEW w \in Worker, NormReturn(w) PROVE NormTypes'
    <2> DEFINE x == norm_value[w][CallKey(w)]
    <2>0. Len(given[w]) \in Nat /\ Len(returned[w]) \in Nat /\ Len(given[w]) <= Len(NormProgram)
      BY <1>0 DEF ClientTypes
    <2>1. Len(given[w]) \in Call
      BY <1>3, <2>0, NormAssumption DEF NormReturn, InCall, Call
    <2>2. CallKey(w) \in NormKey
      BY <2>1, CallTypes DEF CallKey
    <2>3. x \in Norm
      BY <1>0, <1>3, <2>2 DEF ClientTypes, NormReturn
    <2>4. /\ returned' = [returned EXCEPT ![w] = Append(@, x)]
          /\ UNCHANGED <<given, txpkt, slot_roundnum, slot_ready, norm_ready, norm_value,
                         toPS, toWorker, psVars>>
      BY <1>3 DEF NormReturn
    <2> HIDE DEF x
    <2>5. ClientTypes'
      BY <1>0, <2>3, <2>4 DEF ClientTypes
    <2> QED BY <1>0, <2>4, <2>5 DEF NormTypes, ServerTypes, NetworkTypes
  <1>4. ASSUME NEW w \in Worker, NormReset(w) PROVE NormTypes'
    <2>1. ClientTypes'
      BY <1>0, <1>4 DEF ClientTypes, NormReset
    <2> QED BY <1>0, <1>4, <2>1 DEF NormTypes, ServerTypes, NetworkTypes, NormReset
  <1>5. ASSUME NEW m \in toPS, ServerReceive(m) PROVE NormTypes'
    <2>1. ServerTypes'
      <3>1. CASE Stale(m)
        BY <1>0, <1>5, <3>1 DEF ServerTypes, ServerReceive, PsReceive
      <3>2. CASE ~Stale(m)
        <4>1. /\ m.worker \in Worker /\ m.agtr \in Slots /\ m.round \in Nat
              /\ NormAfter(m) \in Norm /\ CountAfter(m) \in 0 .. NUM_WORKER
              /\ DataAfter(m) = [w \in Worker |-> << >>]
          BY PacketTypes, Workers
        <4>2. /\ roundNumbers'  = [roundNumbers  EXCEPT ![m.agtr] = m.round]
              /\ receive_count' = [receive_count EXCEPT ![m.agtr] = CountAfter(m)]
              /\ norm_info'     = [norm_info     EXCEPT ![m.agtr] = NormAfter(m)]
              /\ data_slots'    = [data_slots    EXCEPT ![m.agtr] = DataAfter(m)]
              /\ bitmap' = [bitmap EXCEPT ![m.agtr] =
                              IF Completes(m) THEN {} ELSE @ \cup {m.worker}]
          BY <1>5, <3>2 DEF ServerReceive, PsReceive
        <4> QED BY <1>0, <4>1, <4>2 DEF ServerTypes
      <3> QED BY <3>1, <3>2
    <2>2. Reply(m) \in NormReply
      BY PacketTypes DEF Reply, NormReply
    <2>3. NetworkTypes'
      BY <1>0, <1>5, <2>2 DEF NetworkTypes, ServerReceive
    <2>4. ClientTypes'
      BY <1>0, <1>5 DEF ClientTypes, ServerReceive
    <2> QED BY <2>1, <2>3, <2>4 DEF NormTypes
  <1>6. ASSUME NEW p \in toWorker, NormReceive(p[1], p[2]) PROVE NormTypes'
    <2> DEFINE w == p[1]
               r == p[2]
    <2>1. w \in Worker /\ r \in NormReply
      BY <1>0 DEF NetworkTypes
    <2>2. r.agtr \in NormAgtr /\ r.key \in NormKey /\ r.norm \in Norm
      BY <2>1 DEF NormReply
    <2>3. ClientTypes'
      <3>1. CASE r.round = slot_roundnum[w][r.agtr]
        <4>1. /\ slot_roundnum' = [slot_roundnum EXCEPT ![w][r.agtr] = @ + 1]
              /\ norm_value'    = [norm_value    EXCEPT ![w][r.key] = r.norm]
              /\ norm_ready'    = [norm_ready    EXCEPT ![w][r.key] = TRUE]
              /\ UNCHANGED <<given, returned, txpkt, slot_ready>>
          BY <1>6, <3>1 DEF NormReceive
        <4>2. /\ slot_roundnum' \in [Worker -> [NormAgtr -> Nat]]
              /\ norm_ready' \in [Worker -> [NormKey -> BOOLEAN]]
              /\ norm_value' \in [Worker -> [NormKey -> Norm \cup {0}]]
          BY <1>0, <2>1, <2>2, <4>1 DEF ClientTypes
        <4>3. \A v \in Worker, k \in NormKey : norm_ready'[v][k] => norm_value'[v][k] \in Norm
          BY <1>0, <2>1, <2>2, <4>1 DEF ClientTypes
        <4> QED BY <1>0, <4>1, <4>2, <4>3 DEF ClientTypes
      <3>2. CASE r.round # slot_roundnum[w][r.agtr]
        BY <1>0, <1>6, <3>2 DEF ClientTypes, NormReceive
      <3> QED BY <3>1, <3>2
    <2>4. NetworkTypes'
      BY <1>0, <1>6 DEF NetworkTypes, NormReceive
    <2> QED BY <1>0, <1>6, <2>3, <2>4 DEF NormTypes, ServerTypes, NormReceive
  <1>7. CASE UNCHANGED vars
    BY <1>0, <1>7 DEF NormTypes, ServerTypes, ClientTypes, NetworkTypes
  <1> QED BY <1>1, <1>2, <1>3, <1>4, <1>5, <1>6, <1>7 DEF Next, ServerStep, ReceiveStep

\* The types of the specification are those of the inductive invariant.
LEMMA TypesGiveTypeOK == NormTypes => NormTypeOK
  <1> SUFFICES ASSUME NormTypes PROVE NormTypeOK
    OBVIOUS
  <1>1. norm_value \in [Worker -> [NormKey -> Nat]]
    <2>1. norm_value \in [Worker -> [NormKey -> Norm \cup {0}]]
      BY DEF NormTypes, ClientTypes
    <2>2. Norm \cup {0} \subseteq Nat
      BY NormAssumption
    <2>3. PICK X : X = Norm \cup {0}
      OBVIOUS
    <2> QED BY <2>1, <2>2, <2>3
  <1>2. \A m \in toPS : m.agtr \in NormAgtr /\ m.norm \in Norm
    BY PacketTypes
  <1>3. \A s \in Slots : data_slots[s] = [w \in Worker |-> << >>]
    BY DEF NormTypes, ServerTypes
  <1> QED BY <1>1, <1>2, <1>3 DEF NormTypes, ServerTypes, ClientTypes, NormTypeOK

\* Every behaviour keeps the types; in particular a call returns one of the
\* norms, and the gradient slots of the server stay untouched.
THEOREM NormTypeCorrect == Spec => []NormTypeOK
  <1>1. Spec => []NormTypes
    BY InitTypes, NextTypes, PTL DEF Spec
  <1> QED BY <1>1, TypesGiveTypeOK, PTL

-----------------------------------------------------------------------------
(* What the invariant says of a waiting worker, a packet and a reply.      *)

LEMMA InCallTypes ==
  ASSUME NormTypes, NEW w \in Worker, InCall(w)
  PROVE  /\ Len(given[w]) \in Call /\ Len(given[w]) \in Nat \ {0} /\ Len(given[w]) - 1 \in Nat
         /\ CallKey(w) = NormProgram[Len(given[w])] /\ CallKey(w) \in NormKey
         /\ SlotOf(Len(given[w])) \in NormAgtr
         /\ given[w][Len(given[w])] \in Norm /\ given[w][Len(given[w])] \in Nat
  <1>1. /\ given[w] \in Seq(Norm) /\ Len(given[w]) \in Nat /\ Len(returned[w]) \in Nat
        /\ Len(given[w]) <= Len(NormProgram) /\ Len(NormProgram) \in Nat
    BY NormAssumption DEF NormTypes, ClientTypes
  <1>2. Len(given[w]) \in Call /\ Len(given[w]) \in Nat \ {0} /\ Len(given[w]) - 1 \in Nat
    BY <1>1 DEF Call, InCall
  <1>3. given[w][Len(given[w])] \in Norm
    BY <1>1, <1>2
  <1> QED BY <1>2, <1>3, CallTypes, NormAssumption DEF CallKey

LEMMA CompletedType ==
  ASSUME NormTypes, NEW s \in NormAgtr
  PROVE  /\ Completed(s) \in Nat /\ roundNumbers[s] \in Nat
         /\ receive_count[s] \in 0 .. NUM_WORKER
  BY NormSlots DEF NormTypes, ServerTypes, Completed

LEMMA AnsweredCases ==
  ASSUME NEW w, Len(given[w]) \in Nat
  PROVE  /\ Waiting(w) => Answered(w) = Len(given[w]) - 1
         /\ ~Waiting(w) => Answered(w) = Len(given[w])
  <1>1. ASSUME Waiting(w) PROVE Answered(w) = Len(given[w]) - 1
    BY <1>1 DEF Answered
  <1>2. ASSUME ~Waiting(w) PROVE Answered(w) = Len(given[w])
    BY <1>2 DEF Answered
  <1> QED BY <1>1, <1>2

\* The round a waiting worker is in, and the calls answered to it.
LEMMA WaitingRound ==
  ASSUME NormTypes, RoundInv, NEW w \in Worker, Waiting(w)
  PROVE  /\ InCall(w) /\ Answered(w) = Len(given[w]) - 1
         /\ slot_roundnum[w][SlotOf(Len(given[w]))]
              = Through(SlotOf(Len(given[w])), Len(given[w]) - 1)
         /\ slot_roundnum[w][SlotOf(Len(given[w]))] \in Nat
  <1>1. InCall(w) /\ Answered(w) = Len(given[w]) - 1
    BY DEF Waiting, Answered
  <1>2. SlotOf(Len(given[w])) \in NormAgtr /\ Len(given[w]) - 1 \in Nat
    BY <1>1, InCallTypes
  <1> QED BY <1>1, <1>2, ThroughType DEF RoundInv

\* Workers that wait at one slot in one round are in one call.
LEMMA SameCall ==
  ASSUME NormTypes, RoundInv, NEW v \in Worker, NEW w \in Worker, Waiting(v), Waiting(w),
         SlotOf(Len(given[v])) = SlotOf(Len(given[w])),
         slot_roundnum[v][SlotOf(Len(given[w]))] = slot_roundnum[w][SlotOf(Len(given[w]))]
  PROVE  Len(given[v]) = Len(given[w])
  <1> DEFINE a == Len(given[v])
             b == Len(given[w])
  <1>1. a \in Nat \ {0} /\ b \in Nat \ {0} /\ a - 1 \in Nat /\ b - 1 \in Nat
    BY WaitingRound, InCallTypes
  <1>2. Through(SlotOf(a), a - 1) = Through(SlotOf(b), b - 1)
    BY WaitingRound
  <1>3. b - 1 < a
    BY <1>1, <1>2, RoundOfCall
  <1>4. a - 1 < b
    BY <1>1, <1>2, RoundOfCall
  <1> QED BY <1>1, <1>3, <1>4

\* A packet on its way is of the round that its slot works on next.
LEMMA PacketRound ==
  ASSUME NormTypes, RoundInv, PacketInv, NEW m \in toPS
  PROVE  /\ m.worker \in Worker /\ Waiting(m.worker)
         /\ m = CallPacket(m.worker)
         /\ m.agtr = SlotOf(Len(given[m.worker])) /\ m.agtr \in NormAgtr
         /\ m.key = NormProgram[Len(given[m.worker])]
         /\ m.norm = given[m.worker][Len(given[m.worker])]
         /\ m.round = slot_roundnum[m.worker][m.agtr]
         /\ m.round = Completed(m.agtr)
  <1> DEFINE w == m.worker
  <1>1. w \in Worker /\ Waiting(w) /\ m = CallPacket(w) /\ m.round >= Completed(m.agtr)
    BY DEF PacketInv
  <1>2. /\ m.agtr = SlotOf(Len(given[w])) /\ m.key = CallKey(w)
        /\ m.norm = given[w][Len(given[w])]
        /\ m.round = Through(SlotOf(Len(given[w])), Len(given[w]) - 1)
    BY <1>1 DEF CallPacket
  <1>3. m.round = slot_roundnum[w][m.agtr] /\ m.round \in Nat
    BY <1>1, <1>2, WaitingRound
  <1>4. m.agtr \in NormAgtr
    BY PacketTypes
  <1>5. m.round <= Completed(m.agtr) /\ Completed(m.agtr) \in Nat
    BY <1>1, <1>3, <1>4, CompletedType DEF RoundInv
  <1> QED BY <1>1, <1>2, <1>3, <1>4, <1>5 DEF CallKey

\* A reply is accepted only by a worker that waits for it.
LEMMA AcceptedReply ==
  ASSUME NormTypes, RoundInv, ReplyInv, NEW p \in toWorker,
         p[2].round = slot_roundnum[p[1]][p[2].agtr]
  PROVE  /\ p[1] \in Worker /\ Waiting(p[1])
         /\ Answers(p[2], Len(given[p[1]]))
         /\ p[2].round < Completed(p[2].agtr)
  <1> DEFINE w == p[1]
             r == p[2]
  <1>1. PICK c \in Call : w \in Worker /\ Answers(r, c) /\ r.round < Completed(r.agtr)
    BY DEF ReplyInv
  <1>2. c \in Nat \ {0} /\ SlotOf(c) \in NormAgtr
    BY CallTypes
  <1>3. Len(given[w]) \in Nat /\ Len(given[w]) >= c
    BY <1>1 DEF Answers, Outcome, NormTypes, ClientTypes
  <1>4. Answered(w) \in {Len(given[w]), Len(given[w]) - 1} /\ Answered(w) \in Nat
    BY <1>2, <1>3, AnsweredCases
  <1>5. Through(SlotOf(c), c - 1) = Through(SlotOf(c), Answered(w))
    BY <1>1, <1>2 DEF Answers, RoundInv
  <1>6. Answered(w) < c
    BY <1>2, <1>4, <1>5, RoundOfCall
  <1>7. Answered(w) = Len(given[w]) - 1 /\ c = Len(given[w])
    BY <1>2, <1>3, <1>4, <1>6
  <1>8. Waiting(w)
    BY <1>3, <1>7, AnsweredCases
  <1> QED BY <1>1, <1>7, <1>8

-----------------------------------------------------------------------------
(* What a step leaves alone.                                               *)

LEMMA PacketIsThere ==
  ASSUME NEW m \in NormPacket
  PROVE  m # NoPacket
  <1>1. "agtr" \in DOMAIN m
    BY DEF NormPacket
  <1>2. "agtr" \notin DOMAIN NoPacket
    BY DEF NoPacket
  <1> QED BY <1>1, <1>2

\* A worker whose calls and answers stay as they are.
LEMMA SameWorker ==
  ASSUME NEW w, UNCHANGED <<given[w], returned[w], norm_ready[w]>>
  PROVE  /\ InCall(w)' <=> InCall(w)
         /\ Waiting(w)' <=> Waiting(w)
         /\ Answered(w)' = Answered(w)
         /\ CallKey(w)' = CallKey(w)
         /\ CallPacket(w)' = CallPacket(w)
         /\ SlotOf(Len(given[w]))' = SlotOf(Len(given[w]))
  <1>1. given'[w] = given[w] /\ returned'[w] = returned[w] /\ norm_ready'[w] = norm_ready[w]
    OBVIOUS
  <1>2. CallKey(w)' = CallKey(w)
    BY <1>1 DEF CallKey
  <1>3. InCall(w)' <=> InCall(w)
    BY <1>1 DEF InCall
  <1>4. Waiting(w)' <=> Waiting(w)
    BY <1>1, <1>2, <1>3 DEF Waiting
  <1>5. Answered(w)' = Answered(w)
    BY <1>1, <1>4 DEF Answered
  <1>6. CallPacket(w)' = CallPacket(w)
    BY <1>1, <1>2 DEF CallPacket, SlotOf, Through
  <1> QED BY <1>1, <1>2, <1>3, <1>4, <1>5, <1>6 DEF SlotOf

\* The calls made so far are never changed.
OnlyAppended ==
  \A v \in Worker :
    /\ Len(given[v]) \in Nat /\ Len(given'[v]) \in Nat /\ Len(given'[v]) >= Len(given[v])
    /\ \A b \in 1 .. Len(given[v]) : given'[v][b] = given[v][b]

LEMMA OutcomeStable ==
  ASSUME OnlyAppended, NEW c \in Nat \ {0}, NEW x, Outcome(c, x)
  PROVE  Outcome(c, x)'
  <1>1. \A v \in Worker : Len(given'[v]) >= c /\ given'[v][c] = given[v][c]
    BY DEF Outcome, OnlyAppended
  <1>2. Largest(x, Worker, c)'
    BY <1>1 DEF Outcome, Largest
  <1> QED BY <1>1, <1>2 DEF Outcome

LEMMA AnswersStable ==
  ASSUME OnlyAppended, NEW c \in Nat \ {0}, NEW r, Answers(r, c)
  PROVE  Answers(r, c)'
  <1>1. Outcome(c, r.norm)'
    BY OutcomeStable DEF Answers
  <1> QED BY <1>1 DEF Answers, SlotOf, Through

LEMMA SameGiven ==
  ASSUME NormTypes, UNCHANGED given
  PROVE  OnlyAppended
  BY DEF OnlyAppended, NormTypes, ClientTypes

\* A server that does nothing.
LEMMA SameServer ==
  ASSUME UNCHANGED <<roundNumbers, receive_count>>, NEW s
  PROVE  Completed(s)' = Completed(s)
  BY DEF Completed

\* Replies stay answers of completed rounds when the server only moves on.
LEMMA RepliesStable ==
  ASSUME NormTypes, ReplyInv, OnlyAppended, toWorker' \subseteq toWorker,
         UNCHANGED <<roundNumbers, receive_count>>
  PROVE  ReplyInv'
  <1> SUFFICES ASSUME NEW p \in toWorker'
               PROVE  /\ p[1] \in Worker
                      /\ \E c \in Call : Answers(p[2], c)'
                      /\ p[2].round < Completed(p[2].agtr)'
    BY DEF ReplyInv
  <1>1. p \in toWorker
    OBVIOUS
  <1>2. PICK c \in Call : Answers(p[2], c)
    BY <1>1 DEF ReplyInv
  <1>3. Answers(p[2], c)'
    BY <1>2, CallTypes, AnswersStable
  <1>4. p[1] \in Worker /\ p[2].round < Completed(p[2].agtr)
    BY <1>1 DEF ReplyInv
  <1> QED BY <1>3, <1>4, SameServer

-----------------------------------------------------------------------------
(* Each step keeps the invariant.                                          *)

LEMMA InitInv == Init => NormInv
  <1> SUFFICES ASSUME Init PROVE NormInv
    OBVIOUS
  <1>1. NormTypes
    BY InitTypes
  <1>2. \A w \in Worker : /\ given[w] = << >> /\ returned[w] = << >> /\ txpkt[w] = NoPacket
                          /\ Len(given[w]) = 0 /\ ~InCall(w) /\ ~Waiting(w)
                          /\ Answered(w) = 0
    <2> SUFFICES ASSUME NEW w \in Worker
                 PROVE  /\ given[w] = << >> /\ returned[w] = << >> /\ txpkt[w] = NoPacket
                        /\ Len(given[w]) = 0 /\ ~InCall(w) /\ ~Waiting(w)
                        /\ Answered(w) = 0
      OBVIOUS
    <2>1. given[w] = << >> /\ returned[w] = << >> /\ txpkt[w] = NoPacket
      BY DEF Init
    <2>2. Len(given[w]) = 0 /\ ~InCall(w)
      BY <2>1 DEF InCall
    <2>3. ~Waiting(w)
      BY <2>2 DEF Waiting
    <2> QED BY <2>1, <2>2, <2>3, AnsweredCases
  <1>3. \A s \in NormAgtr : /\ Through(s, 0) = 0
                            /\ s \in Slots /\ roundNumbers[s] = 0 /\ receive_count[s] = 0
                            /\ bitmap[s] = {} /\ norm_info[s] = 0 /\ Completed(s) = 0
    <2> SUFFICES ASSUME NEW s \in NormAgtr
                 PROVE  /\ Through(s, 0) = 0
                        /\ s \in Slots /\ roundNumbers[s] = 0 /\ receive_count[s] = 0
                        /\ bitmap[s] = {} /\ norm_info[s] = 0 /\ Completed(s) = 0
      OBVIOUS
    <2>1. {b \in 1 .. 0 : SlotOf(b) = s} = {}
      OBVIOUS
    <2>2. Through(s, 0) = 0
      BY <2>1, FS_EmptySet DEF Through
    <2>3. s \in Slots
      BY NormSlots
    <2> QED BY <2>2, <2>3, Workers DEF Init, PsInit, Completed
  <1>4. CallInv
    BY <1>2 DEF CallInv
  <1>5. RoundInv
    BY <1>2, <1>3 DEF RoundInv, Init
  <1>6. PacketInv
    BY <1>2 DEF PacketInv, Init
  <1>7. ServerInv
    BY <1>3, FS_EmptySet, Workers DEF ServerInv
  <1>8. ReplyInv
    BY DEF ReplyInv, Init
  <1>9. NotForgotten
    BY <1>2 DEF NotForgotten
  <1> QED BY <1>4, <1>5, <1>6, <1>7, <1>8, <1>9 DEF NormInv

LEMMA AssembleInv ==
  ASSUME NormTypes, NormInv, NEW w \in Worker, NEW n \in Norm, NormAssemble(w, n)
  PROVE  NormInv'
  <1> DEFINE c == Len(given[w]) + 1
             s == SlotOf(c)
  <1>0. CallInv /\ RoundInv /\ PacketInv /\ ServerInv /\ ReplyInv /\ NotForgotten
    BY DEF NormInv
  <1>1. /\ ~InCall(w) /\ ~Waiting(w)
        /\ given' = [given EXCEPT ![w] = Append(@, n)]
        /\ txpkt' = [txpkt EXCEPT ![w] =
                       [worker |-> w, agtr |-> s, round |-> slot_roundnum[w][s],
                        key |-> NormProgram[c], cmd |-> TENSOR_NORM, norm |-> n]]
        /\ norm_ready' = [norm_ready EXCEPT ![w][NormProgram[c]] = FALSE]
        /\ UNCHANGED <<returned, slot_roundnum, slot_ready, norm_value, toPS, toWorker, psVars>>
    BY DEF NormAssemble, SlotOf, Waiting
  <1>2. /\ Len(given[w]) \in Nat /\ c \in Call /\ NormProgram[c] \in NormKey
        /\ s \in NormAgtr /\ c \in Nat \ {0}
    BY NextCall, CallTypes DEF NormAssemble
  <1>3. /\ given[w] \in Seq(Norm) /\ given \in [Worker -> Seq(Norm)]
        /\ norm_ready \in [Worker -> [NormKey -> BOOLEAN]]
        /\ txpkt \in [Worker -> {NoPacket} \cup NormPacket]
    BY DEF NormTypes, ClientTypes
  <1>4. UNCHANGED <<roundNumbers, receive_count, bitmap, norm_info>>
    BY <1>1 DEF psVars
  <1>5. given'[w] = Append(given[w], n) /\ Len(given'[w]) = c /\ given'[w][c] = n
    BY <1>1, <1>2, <1>3
  <1>6. OnlyAppended
    BY <1>1, <1>3 DEF OnlyAppended
  <1>7. \A v \in Worker \ {w} :
          /\ UNCHANGED <<given[v], returned[v], norm_ready[v]>> /\ txpkt'[v] = txpkt[v]
    BY <1>1, <1>3
  <1>8. Len(returned[w]) = Len(given[w]) /\ Len(given[w]) # Len(given[w]) - 1
    <2>1. Len(returned[w]) \in {Len(given[w]), Len(given[w]) - 1}
      BY <1>0 DEF CallInv
    <2> QED BY <1>1, <1>2, <2>1 DEF InCall
  <1>9. Waiting(w)' /\ InCall(w)'
    <2>1. InCall(w)'
      BY <1>1, <1>2, <1>5, <1>8 DEF InCall
    <2>2. CallKey(w)' = NormProgram[c]
      BY <1>5 DEF CallKey
    <2>3. ~norm_ready'[w][NormProgram[c]]
      BY <1>1, <1>2, <1>3
    <2> QED BY <2>1, <2>2, <2>3 DEF Waiting
  <1>10. Answered(w)' = Answered(w) /\ Answered(w) = c - 1 /\ Answered(w) \in Nat
    <2>1. Answered(w) = Len(given[w])
      BY <1>1, <1>2, AnsweredCases
    <2>2. Answered(w)' = Len(given'[w]) - 1
      BY <1>9 DEF Answered
    <2> QED BY <1>2, <1>5, <2>1, <2>2
  <1>11. slot_roundnum[w][s] = Through(s, c - 1)
    BY <1>0, <1>2, <1>10 DEF RoundInv
  <1>12. txpkt'[w] = CallPacket(w)'
    <2>1. CallPacket(w)' =
            [worker |-> w, agtr |-> s, round |-> Through(s, c - 1),
             key |-> NormProgram[c], cmd |-> TENSOR_NORM, norm |-> n]
      BY <1>5 DEF CallPacket, SlotOf, CallKey, Through
    <2>2. txpkt'[w] = [worker |-> w, agtr |-> s, round |-> slot_roundnum[w][s],
                        key |-> NormProgram[c], cmd |-> TENSOR_NORM, norm |-> n]
      BY <1>1, <1>3
    <2> QED BY <1>11, <2>1, <2>2
  <1>13. \A m \in toPS : m.worker \in Worker \ {w}
    BY <1>0, <1>1, PacketRound
  <1> HIDE DEF c, s
  <1>14. CallInv'
    <2> SUFFICES ASSUME NEW v \in Worker
                 PROVE  /\ Len(returned'[v]) \in {Len(given'[v]), Len(given'[v]) - 1}
                        /\ InCall(v)' /\ ~Waiting(v)' =>
                             Outcome(Len(given[v]), norm_value[v][CallKey(v)])'
      BY DEF CallInv
    <2>1. CASE v = w
      BY <1>1, <1>2, <1>5, <1>8, <1>9, <2>1 DEF c
    <2>2. CASE v # w
      <3>1. /\ InCall(v)' <=> InCall(v)
            /\ Waiting(v)' <=> Waiting(v)
            /\ CallKey(v)' = CallKey(v)
        BY <1>7, <2>2, SameWorker
      <3>2. ASSUME InCall(v), ~Waiting(v)
            PROVE  Outcome(Len(given[v]), norm_value[v][CallKey(v)])'
        <4>1. Outcome(Len(given[v]), norm_value[v][CallKey(v)])
          BY <1>0, <3>2 DEF CallInv
        <4>2. Len(given[v]) \in Nat \ {0}
          BY <3>2, InCallTypes
        <4>3. PICK k, x : k = Len(given[v]) /\ x = norm_value[v][CallKey(v)]
          OBVIOUS
        <4>4. Outcome(k, x)'
          BY <1>6, <4>1, <4>2, <4>3, OutcomeStable
        <4> QED BY <1>1, <1>7, <2>2, <3>1, <4>3, <4>4
      <3>3. Len(returned'[v]) \in {Len(given'[v]), Len(given'[v]) - 1}
        BY <1>0, <1>1, <1>7, <2>2 DEF CallInv
      <3> QED BY <3>1, <3>2, <3>3
    <2> QED BY <2>1, <2>2
  <1>15. RoundInv'
    <2> SUFFICES ASSUME NEW v \in Worker, NEW t \in NormAgtr
                 PROVE  /\ slot_ready'[v][t]
                        /\ slot_roundnum'[v][t] = Through(t, Answered(v))'
                        /\ slot_roundnum'[v][t] <= Completed(t)'
                        /\ Completed(t)' <= Through(t, Len(given[v]))'
      BY DEF RoundInv
    <2>1. Answered(v)' = Answered(v)
      BY <1>7, <1>10, SameWorker
    <2>2. Completed(t)' = Completed(t)
      BY <1>4, SameServer
    <2>3. /\ slot_ready[v][t] /\ slot_roundnum[v][t] = Through(t, Answered(v))
          /\ slot_roundnum[v][t] <= Completed(t) /\ Completed(t) <= Through(t, Len(given[v]))
      BY <1>0 DEF RoundInv
    <2>4. Len(given[v]) \in Nat /\ Len(given'[v]) \in Nat /\ Len(given[v]) <= Len(given'[v])
      BY <1>6 DEF OnlyAppended
    <2>5. /\ Through(t, Len(given[v])) <= Through(t, Len(given'[v]))
          /\ Through(t, Len(given[v])) \in Nat /\ Through(t, Len(given'[v])) \in Nat
          /\ Completed(t) \in Nat
      BY <2>4, ThroughMonotone, ThroughType, CompletedType
    <2>6. /\ Through(t, Answered(v))' = Through(t, Answered(v)')
          /\ Through(t, Len(given[v]))' = Through(t, Len(given'[v]))
      BY DEF Through, SlotOf
    <2> QED BY <1>1, <2>1, <2>2, <2>3, <2>5, <2>6
  <1>16. PacketInv'
    <2>1. ASSUME NEW m \in toPS'
          PROVE  /\ m.worker \in Worker /\ Waiting(m.worker)' /\ m = CallPacket(m.worker)'
                 /\ m.round >= Completed(m.agtr)'
      <3>1. m \in toPS /\ m.worker \in Worker \ {w}
        BY <1>1, <1>13, <2>1
      <3>2. Waiting(m.worker) /\ m = CallPacket(m.worker) /\ m.round >= Completed(m.agtr)
        BY <1>0, <3>1 DEF PacketInv
      <3> QED BY <1>4, <1>7, <3>1, <3>2, SameWorker, SameServer
    <2>2. ASSUME NEW v \in Worker, txpkt'[v] # NoPacket
          PROVE  /\ Waiting(v)' /\ txpkt'[v] = CallPacket(v)'
                 /\ txpkt'[v].round >= Completed(txpkt[v].agtr)'
                 /\ \A m \in toPS' : m.worker # v
      <3>1. CASE v = w
        <4>1. txpkt'[w].round = slot_roundnum[w][s] /\ txpkt'[w].agtr = s
          BY <1>1, <1>3 DEF s
        <4>2. slot_roundnum[w][s] >= Completed(s)
          BY <1>0, <1>2, <1>11 DEF RoundInv, c
        <4> QED BY <1>1, <1>4, <1>9, <1>12, <1>13, <3>1, <4>1, <4>2 DEF Completed
      <3>2. CASE v # w
        <4>1. txpkt'[v] = txpkt[v]
          BY <1>7, <3>2
        <4>2. /\ Waiting(v) /\ txpkt[v] = CallPacket(v)
              /\ txpkt[v].round >= Completed(txpkt[v].agtr)
              /\ \A m \in toPS : m.worker # v
          BY <1>0, <2>2, <4>1 DEF PacketInv
        <4>3. Waiting(v)' /\ CallPacket(v)' = CallPacket(v)
          BY <1>7, <3>2, <4>2, SameWorker
        <4> QED BY <1>1, <1>4, <4>1, <4>2, <4>3 DEF Completed
      <3> QED BY <3>1, <3>2
    <2> QED BY <2>1, <2>2 DEF PacketInv
  <1>17. ServerInv'
    <2> SUFFICES ASSUME NEW t \in NormAgtr
                 PROVE  /\ bitmap'[t] \subseteq Worker
                        /\ Cardinality(bitmap'[t]) =
                             (IF receive_count'[t] = NUM_WORKER THEN 0 ELSE receive_count'[t])
                        /\ receive_count'[t] = 0 => norm_info'[t] = 0
                        /\ \A v \in bitmap'[t] :
                             /\ Waiting(v)' /\ SlotOf(Len(given[v]))' = t
                             /\ roundNumbers'[t] = slot_roundnum'[v][t]
                             /\ txpkt'[v] = NoPacket /\ \A m \in toPS' : m.worker # v
                             /\ given'[v][Len(given'[v])] <= norm_info'[t]
                        /\ bitmap'[t] # {} =>
                             \E v \in bitmap'[t] : given'[v][Len(given'[v])] = norm_info'[t]
      BY DEF ServerInv, NUM_WORKER
    <2>1. bitmap[t] \subseteq Worker \ {w}
      BY <1>0, <1>1 DEF ServerInv
    <2>2. \A v \in bitmap[t] : given'[v] = given[v] /\ txpkt'[v] = txpkt[v]
      BY <1>7, <2>1
    <2>3. \A v \in bitmap[t] :
            /\ Waiting(v)' <=> Waiting(v)
            /\ SlotOf(Len(given[v]))' = SlotOf(Len(given[v]))
      BY <1>7, <2>1, SameWorker
    <2> QED BY <1>0, <1>1, <1>4, <2>1, <2>2, <2>3 DEF ServerInv
  <1>18. ReplyInv'
    BY <1>0, <1>1, <1>4, <1>6, RepliesStable
  <1>19. NotForgotten'
    <2> SUFFICES ASSUME NEW v \in Worker, Waiting(v)'
                 PROVE  LET t == SlotOf(Len(given'[v]))
                        IN  \/ txpkt'[v] # NoPacket
                            \/ \E m \in toPS' : m.worker = v
                            \/ roundNumbers'[t] = slot_roundnum'[v][t] /\ v \in bitmap'[t]
                            \/ \E p \in toWorker' :
                                 /\ p[1] = v /\ p[2].agtr = t
                                 /\ p[2].round = slot_roundnum'[v][t]
      BY DEF NotForgotten, SlotOf
    <2>1. CASE v = w
      <3>1. NormTypes'
        BY NextTypes DEF Next
      <3>2. txpkt'[w] \in NormPacket
        <4>1. slot_roundnum[w][s] \in Nat
          BY <1>2 DEF NormTypes, ClientTypes
        <4>2. txpkt'[w] = [worker |-> w, agtr |-> s, round |-> slot_roundnum[w][s],
                           key |-> NormProgram[c], cmd |-> TENSOR_NORM, norm |-> n]
          BY <1>1, <1>3 DEF s, c
        <4> QED BY <1>2, <4>1, <4>2 DEF NormPacket
      <3> QED BY <2>1, <3>2, PacketIsThere
    <2>2. CASE v # w
      <3>1. Waiting(v) /\ given'[v] = given[v] /\ txpkt'[v] = txpkt[v]
        BY <1>7, <2>2, SameWorker
      <3> QED BY <1>0, <1>1, <1>4, <3>1 DEF NotForgotten
    <2> QED BY <2>1, <2>2
  <1> QED BY <1>14, <1>15, <1>16, <1>17, <1>18, <1>19 DEF NormInv

LEMMA BurstInv ==
  ASSUME NormTypes, NormInv, NEW w \in Worker, NormBurst(w)
  PROVE  NormInv'
  <1>0. CallInv /\ RoundInv /\ PacketInv /\ ServerInv /\ ReplyInv /\ NotForgotten
    BY DEF NormInv
  <1>1. /\ txpkt[w] # NoPacket /\ toPS' = toPS \cup {txpkt[w]}
        /\ txpkt' = [txpkt EXCEPT ![w] = NoPacket]
        /\ UNCHANGED <<given, returned, slot_roundnum, slot_ready, norm_ready, norm_value,
                       toWorker, roundNumbers, receive_count, bitmap, norm_info>>
    BY DEF NormBurst, psVars
  <1>2. txpkt \in [Worker -> {NoPacket} \cup NormPacket]
    BY DEF NormTypes, ClientTypes
  <1>3. /\ Waiting(w) /\ txpkt[w] = CallPacket(w)
        /\ txpkt[w].round >= Completed(txpkt[w].agtr)
        /\ \A m \in toPS : m.worker # w
    BY <1>0, <1>1 DEF PacketInv
  <1>4. txpkt[w].worker = w
    BY <1>3 DEF CallPacket
  <1>5. \A v \in Worker : v # w => txpkt'[v] = txpkt[v]
    BY <1>1, <1>2
  <1>6. txpkt'[w] = NoPacket
    BY <1>1, <1>2
  <1>7. CallInv' /\ RoundInv'
    BY <1>0, <1>1 DEF CallInv, RoundInv, InCall, Waiting, Answered, CallKey, Outcome, Largest,
                      Through, SlotOf, Completed
  <1>8. \A v : (Waiting(v)' <=> Waiting(v)) /\ CallPacket(v)' = CallPacket(v)
    BY <1>1, SameWorker
  <1>9. \A s : Completed(s)' = Completed(s)
    BY <1>1, SameServer
  <1>10. PacketInv'
    <2>1. ASSUME NEW m \in toPS'
          PROVE  /\ m.worker \in Worker /\ Waiting(m.worker)' /\ m = CallPacket(m.worker)'
                 /\ m.round >= Completed(m.agtr)'
      <3>1. CASE m \in toPS
        BY <1>0, <1>8, <1>9, <3>1 DEF PacketInv
      <3>2. CASE m = txpkt[w]
        BY <1>3, <1>4, <1>8, <1>9, <3>2
      <3> QED BY <1>1, <3>1, <3>2
    <2>2. ASSUME NEW v \in Worker, txpkt'[v] # NoPacket
          PROVE  /\ Waiting(v)' /\ txpkt'[v] = CallPacket(v)'
                 /\ txpkt'[v].round >= Completed(txpkt[v].agtr)'
                 /\ \A m \in toPS' : m.worker # v
      <3>1. v # w /\ txpkt'[v] = txpkt[v]
        BY <1>5, <1>6, <2>2
      <3>2. /\ Waiting(v) /\ txpkt[v] = CallPacket(v)
            /\ txpkt[v].round >= Completed(txpkt[v].agtr)
            /\ \A m \in toPS : m.worker # v
        BY <1>0, <2>2, <3>1 DEF PacketInv
      <3>3. \A m \in toPS' : m.worker # v
        BY <1>1, <1>4, <3>1, <3>2
      <3> QED BY <1>1, <1>8, <3>1, <3>2, <3>3 DEF Completed
    <2> QED BY <2>1, <2>2 DEF PacketInv
  <1>11. ServerInv'
    <2>1. \A s \in NormAgtr : \A v \in bitmap[s] :
            /\ v \in Worker /\ v # w /\ txpkt'[v] = NoPacket
            /\ \A m \in toPS' : m.worker # v
      <3> SUFFICES ASSUME NEW s \in NormAgtr, NEW v \in bitmap[s]
                   PROVE  /\ v \in Worker /\ v # w /\ txpkt'[v] = NoPacket
                          /\ \A m \in toPS' : m.worker # v
        OBVIOUS
      <3>1. v \in Worker /\ txpkt[v] = NoPacket /\ \A m \in toPS : m.worker # v
        BY <1>0 DEF ServerInv
      <3> QED BY <1>1, <1>4, <1>5, <3>1
    <2> QED BY <1>0, <1>1, <1>8, <2>1 DEF ServerInv, SlotOf
  <1>12. ReplyInv'
    BY <1>0, <1>1, SameGiven, RepliesStable
  <1>13. NotForgotten'
    <2> SUFFICES ASSUME NEW v \in Worker, Waiting(v)'
                 PROVE  LET t == SlotOf(Len(given'[v]))
                        IN  \/ txpkt'[v] # NoPacket
                            \/ \E m \in toPS' : m.worker = v
                            \/ roundNumbers'[t] = slot_roundnum'[v][t] /\ v \in bitmap'[t]
                            \/ \E p \in toWorker' :
                                 /\ p[1] = v /\ p[2].agtr = t
                                 /\ p[2].round = slot_roundnum'[v][t]
      BY DEF NotForgotten, SlotOf
    <2>1. CASE v = w
      BY <1>1, <1>4, <2>1
    <2>2. CASE v # w
      <3>1. Waiting(v) /\ given'[v] = given[v] /\ txpkt'[v] = txpkt[v]
        BY <1>1, <1>5, <1>8, <2>2
      <3> QED BY <1>0, <1>1, <3>1 DEF NotForgotten
    <2> QED BY <2>1, <2>2
  <1> QED BY <1>7, <1>10, <1>11, <1>12, <1>13 DEF NormInv

LEMMA ReturnInv ==
  ASSUME NormTypes, NormInv, NEW w \in Worker, NormReturn(w)
  PROVE  NormInv'
  <1>0. CallInv /\ RoundInv /\ PacketInv /\ ServerInv /\ ReplyInv /\ NotForgotten
    BY DEF NormInv
  <1> DEFINE x == norm_value[w][CallKey(w)]
  <1>1. /\ InCall(w) /\ norm_ready[w][CallKey(w)]
        /\ returned' = [returned EXCEPT ![w] = Append(@, x)]
        /\ UNCHANGED <<given, txpkt, slot_roundnum, slot_ready, norm_ready, norm_value,
                       toPS, toWorker, roundNumbers, receive_count, bitmap, norm_info>>
    BY DEF NormReturn, psVars
  <1>2. ~Waiting(w)
    BY <1>1 DEF Waiting
  <1>3. /\ returned \in [Worker -> Seq(Norm)] /\ given \in [Worker -> Seq(Norm)]
        /\ x \in Norm
    <2>1. CallKey(w) \in NormKey
      BY <1>1, InCallTypes
    <2> QED BY <1>1, <2>1 DEF NormTypes, ClientTypes
  <1> HIDE DEF x
  <1>4. Len(returned[w]) = Len(given[w]) - 1 /\ Len(given[w]) \in Nat /\ Len(returned[w]) \in Nat
    <2>1. Len(returned[w]) \in {Len(given[w]), Len(given[w]) - 1}
      BY <1>0 DEF CallInv
    <2> QED BY <1>1, <1>3, <2>1 DEF InCall
  <1>5. Len(returned'[w]) = Len(given[w])
    BY <1>1, <1>3, <1>4
  <1>6. \A v \in Worker : v # w => returned'[v] = returned[v]
    BY <1>1, <1>3
  <1>7. ~InCall(w)' /\ ~Waiting(w)'
    <2>1. ~InCall(w)'
      BY <1>1, <1>4, <1>5 DEF InCall
    <2> QED BY <2>1 DEF Waiting
  <1>8. \A v \in Worker : (Waiting(v)' <=> Waiting(v)) /\ Answered(v)' = Answered(v)
    <2> SUFFICES ASSUME NEW v \in Worker
                 PROVE  (Waiting(v)' <=> Waiting(v)) /\ Answered(v)' = Answered(v)
      OBVIOUS
    <2>1. CASE v = w
      <3>1. Waiting(v)' <=> Waiting(v)
        BY <1>2, <1>7, <2>1
      <3> QED BY <1>1, <3>1 DEF Answered
    <2>2. CASE v # w
      BY <1>1, <1>6, <2>2, SameWorker
    <2> QED BY <2>1, <2>2
  <1>9. \A v : CallPacket(v)' = CallPacket(v) /\ CallKey(v)' = CallKey(v)
    BY <1>1 DEF CallPacket, CallKey, SlotOf, Through
  <1>10. \A s : Completed(s)' = Completed(s)
    BY <1>1, SameServer
  <1>11. CallInv'
    <2> SUFFICES ASSUME NEW v \in Worker
                 PROVE  /\ Len(returned'[v]) \in {Len(given'[v]), Len(given'[v]) - 1}
                        /\ InCall(v)' /\ ~Waiting(v)' =>
                             Outcome(Len(given[v]), norm_value[v][CallKey(v)])'
      BY DEF CallInv
    <2>1. CASE v = w
      BY <1>1, <1>5, <1>7, <2>1
    <2>2. CASE v # w
      <3>1. returned'[v] = returned[v] /\ (InCall(v)' <=> InCall(v))
        BY <1>1, <1>6, <2>2 DEF InCall
      <3> QED BY <1>0, <1>1, <1>8, <1>9, <3>1 DEF CallInv, Outcome, Largest
    <2> QED BY <2>1, <2>2
  <1>12. RoundInv'
    BY <1>0, <1>1, <1>8, <1>10 DEF RoundInv, Through, SlotOf
  <1>13. PacketInv'
    BY <1>0, <1>1, <1>8, <1>9 DEF PacketInv, Completed
  <1>14. ServerInv'
    BY <1>0, <1>1, <1>8 DEF ServerInv, SlotOf
  <1>15. ReplyInv'
    BY <1>0, <1>1, SameGiven, RepliesStable
  <1>16. NotForgotten'
    BY <1>0, <1>1, <1>8 DEF NotForgotten, SlotOf
  <1> QED BY <1>11, <1>12, <1>13, <1>14, <1>15, <1>16 DEF NormInv

\* No norm slot is ever marked as used: Reset finds nothing to do.
LEMMA ResetDoesNothing ==
  ASSUME NormTypes, NormInv, NEW w \in Worker, NormReset(w)
  PROVE  UNCHANGED vars
  <1>1. \A s \in NormAgtr : slot_ready[w][s]
    BY DEF NormInv, RoundInv
  <1>2. /\ slot_roundnum \in [Worker -> [NormAgtr -> Nat]]
        /\ slot_ready \in [Worker -> [NormAgtr -> BOOLEAN]]
    BY DEF NormTypes, ClientTypes
  <1>3. slot_roundnum' = slot_roundnum
    <2>1. slot_roundnum[w] = [s \in NormAgtr |-> IF slot_ready[w][s] THEN slot_roundnum[w][s]
                                                 ELSE slot_roundnum[w][s] + 1]
      BY <1>1, <1>2
    <2>2. slot_roundnum' = [slot_roundnum EXCEPT ![w] = slot_roundnum[w]]
      BY <2>1 DEF NormReset
    <2> QED BY <1>2, <2>2
  <1>4. slot_ready' = slot_ready
    <2>1. slot_ready[w] = [s \in NormAgtr |-> TRUE]
      BY <1>1, <1>2
    <2>2. slot_ready' = [slot_ready EXCEPT ![w] = slot_ready[w]]
      BY <2>1 DEF NormReset
    <2> QED BY <1>2, <2>2
  <1> QED BY <1>3, <1>4 DEF NormReset, vars, normVars

LEMMA StutterInv == NormInv /\ UNCHANGED vars => NormInv'
  <1> SUFFICES ASSUME NormInv, UNCHANGED vars PROVE NormInv'
    OBVIOUS
  <1> USE DEF vars, normVars, psVars, InCall, CallKey, SlotOf, Through, Waiting, Answered,
              CallPacket, Completed, Largest, Outcome, Answers
  <1>1. CallInv'
    BY DEF NormInv, CallInv
  <1>2. RoundInv'
    BY DEF NormInv, RoundInv
  <1>3. PacketInv'
    BY DEF NormInv, PacketInv
  <1>4. ServerInv'
    BY DEF NormInv, ServerInv
  <1>5. ReplyInv'
    BY DEF NormInv, ReplyInv
  <1>6. NotForgotten'
    BY DEF NormInv, NotForgotten
  <1> QED BY <1>1, <1>2, <1>3, <1>4, <1>5, <1>6 DEF NormInv

-----------------------------------------------------------------------------
(* A packet reaches the server: it is counted with the other packets of    *)
(* its call, and the last one completes the round for all workers.         *)

LEMMA Counted ==
  ASSUME NormTypes, NormInv, NEW m \in toPS
  PROVE  LET s == m.agtr
             w == m.worker
             c == Len(given[w])
             B == bitmap[s] \cup {w}
         IN  /\ ~Stale(m)
             /\ \A t \in NormAgtr : w \notin bitmap[t]
             /\ txpkt[w] = NoPacket
             /\ B \subseteq Worker /\ IsFiniteSet(B) /\ CountAfter(m) = Cardinality(B)
             /\ \A v \in B : /\ Waiting(v) /\ Len(given[v]) = c
                             /\ slot_roundnum[v][s] = m.round
             /\ Largest(NormAfter(m), B, c)
  <1> DEFINE s == m.agtr
             w == m.worker
             c == Len(given[w])
             B == bitmap[s] \cup {w}
  <1>0. CallInv /\ RoundInv /\ PacketInv /\ ServerInv
    BY DEF NormInv
  <1>1. /\ w \in Worker /\ Waiting(w) /\ s = SlotOf(c) /\ s \in NormAgtr
        /\ m.norm = given[w][c] /\ m.round = slot_roundnum[w][s] /\ m.round = Completed(s)
    BY <1>0, PacketRound
  <1>2. m.norm \in Nat /\ CountAfter(m) \in 1 .. NUM_WORKER
    BY PacketTypes
  <1>3. roundNumbers[s] \in Nat /\ receive_count[s] \in 0 .. NUM_WORKER /\ NUM_WORKER \in Nat \ {0}
    BY <1>1, CompletedType, Workers
  <1>4. norm_info[s] \in Nat
    <2>1. norm_info[s] \in Norm \cup {0}
      BY <1>1, NormSlots DEF NormTypes, ServerTypes
    <2>2. Norm \cup {0} \subseteq Nat
      BY NormAssumption
    <2> QED BY <2>1, <2>2
  <1>5. ~Stale(m)
    BY <1>1, <1>3 DEF Stale, Completed
  <1>6. \A t \in NormAgtr : w \notin bitmap[t]
    BY <1>0 DEF ServerInv
  <1>7. txpkt[w] = NoPacket
    BY <1>0, <1>1 DEF PacketInv
  <1>8. /\ bitmap[s] \in SUBSET Worker /\ IsFiniteSet(bitmap[s])
        /\ Cardinality(bitmap[s]) =
             (IF receive_count[s] = NUM_WORKER THEN 0 ELSE receive_count[s])
    BY <1>0, <1>1, Workers, FS_Subset DEF ServerInv
  <1>9. IsFiniteSet(B) /\ Cardinality(B) = Cardinality(bitmap[s]) + 1
    BY <1>1, <1>6, <1>8, FS_AddElement
  <1>10. CountAfter(m) = Cardinality(B)
    BY <1>1, <1>3, <1>8, <1>9 DEF CountAfter, Newer, Completed
  <1>11. bitmap[s] # {} => receive_count[s] \in 1 .. NUM_WORKER - 1 /\ m.round = roundNumbers[s]
    <2> SUFFICES ASSUME bitmap[s] # {}
                 PROVE  receive_count[s] \in 1 .. NUM_WORKER - 1 /\ m.round = roundNumbers[s]
      OBVIOUS
    <2>1. Cardinality(bitmap[s]) # 0
      BY <1>8, FS_EmptySet
    <2>2. receive_count[s] # NUM_WORKER /\ receive_count[s] # 0
      BY <1>8, <2>1
    <2> QED BY <1>1, <1>3, <2>2 DEF Completed
  <1>12. \A v \in B : Waiting(v) /\ Len(given[v]) = c /\ slot_roundnum[v][s] = m.round
    <2> SUFFICES ASSUME NEW v \in bitmap[s]
                 PROVE  Waiting(v) /\ Len(given[v]) = c /\ slot_roundnum[v][s] = m.round
      BY <1>1
    <2>1. /\ v \in Worker /\ Waiting(v) /\ SlotOf(Len(given[v])) = s
          /\ slot_roundnum[v][s] = m.round
      BY <1>0, <1>1, <1>8, <1>11 DEF ServerInv
    <2> QED BY <1>0, <1>1, <2>1, SameCall
  <1>13. Largest(NormAfter(m), B, c)
    <2>1. CASE bitmap[s] = {}
      <3>1. B = {w}
        BY <2>1
      <3>2. NormAfter(m) = m.norm
        <4>1. receive_count[s] \in {0, NUM_WORKER}
          BY <1>3, <1>8, <2>1, FS_EmptySet
        <4>2. CASE receive_count[s] = NUM_WORKER
          BY <1>1, <1>3, <4>2 DEF NormAfter, Newer, Completed
        <4>3. CASE receive_count[s] = 0
          <5>1. norm_info[s] = 0
            BY <1>0, <1>1, <4>3 DEF ServerInv
          <5> QED BY <1>2, <5>1 DEF NormAfter
        <4> QED BY <4>1, <4>2, <4>3
      <3> QED BY <1>1, <1>2, <3>1, <3>2 DEF Largest
    <2>2. CASE bitmap[s] # {}
      <3>1. ~Newer(m)
        BY <1>3, <1>11, <2>2 DEF Newer
      <3>2. \A v \in bitmap[s] : given[v][c] <= norm_info[s] /\ given[v][c] \in Nat
        <4> SUFFICES ASSUME NEW v \in bitmap[s]
                     PROVE  given[v][c] <= norm_info[s] /\ given[v][c] \in Nat
          OBVIOUS
        <4>1. v \in Worker /\ InCall(v) /\ Len(given[v]) = c
          BY <1>8, <1>12 DEF Waiting
        <4>2. given[v][Len(given[v])] <= norm_info[s]
          BY <1>0, <1>1 DEF ServerInv
        <4> QED BY <4>1, <4>2, InCallTypes
      <3>3. PICK u \in bitmap[s] : given[u][Len(given[u])] = norm_info[s]
        BY <1>0, <1>1, <2>2 DEF ServerInv
      <3>4. given[u][c] = norm_info[s]
        BY <1>12, <3>3
      <3>5. CASE norm_info[s] < m.norm
        <4>1. NormAfter(m) = m.norm
          BY <3>5 DEF NormAfter
        <4>2. \A v \in B : given[v][c] <= m.norm
          BY <1>1, <1>2, <1>4, <3>2, <3>5
        <4> QED BY <1>1, <4>1, <4>2 DEF Largest
      <3>6. CASE ~(norm_info[s] < m.norm)
        <4>1. NormAfter(m) = norm_info[s]
          BY <3>1, <3>6 DEF NormAfter
        <4>2. \A v \in B : given[v][c] <= norm_info[s]
          BY <1>1, <1>2, <1>4, <3>2, <3>6
        <4> QED BY <3>4, <4>1, <4>2 DEF Largest
      <3> QED BY <3>5, <3>6
    <2> QED BY <2>1, <2>2
  <1> QED BY <1>1, <1>5, <1>6, <1>7, <1>8, <1>9, <1>10, <1>12, <1>13

\* A packet that does not complete its round is added to the bitmap.
LEMMA CountingInv ==
  ASSUME NormTypes, NormInv, NEW m \in toPS, ServerReceive(m), ~Completes(m)
  PROVE  NormInv'
  <1> DEFINE s == m.agtr
             w == m.worker
             c == Len(given[w])
             B == bitmap[s] \cup {w}
  <1>0. CallInv /\ RoundInv /\ PacketInv /\ ServerInv /\ ReplyInv /\ NotForgotten
    BY DEF NormInv
  <1>1. /\ ~Stale(m) /\ txpkt[w] = NoPacket /\ B \subseteq Worker /\ CountAfter(m) = Cardinality(B)
        /\ \A v \in B : Waiting(v) /\ Len(given[v]) = c /\ slot_roundnum[v][s] = m.round
        /\ Largest(NormAfter(m), B, c) /\ \A t \in NormAgtr : w \notin bitmap[t]
    BY Counted
  <1>2. /\ w \in Worker /\ m = CallPacket(w) /\ s = SlotOf(c) /\ s \in NormAgtr
        /\ m.round = Completed(s)
    BY <1>0, PacketRound
  <1>3. CountAfter(m) \in 1 .. NUM_WORKER - 1
    <2>1. CountAfter(m) \in 1 .. NUM_WORKER /\ CountAfter(m) # NUM_WORKER
      BY <1>1, PacketTypes DEF Completes
    <2> QED BY <2>1, Workers
  <1>4. /\ roundNumbers'  = [roundNumbers  EXCEPT ![s] = m.round]
        /\ receive_count' = [receive_count EXCEPT ![s] = CountAfter(m)]
        /\ norm_info'     = [norm_info     EXCEPT ![s] = NormAfter(m)]
        /\ bitmap'        = [bitmap EXCEPT ![s] = B]
        /\ toPS' = toPS \ {m} /\ toWorker' = toWorker
        /\ UNCHANGED <<given, returned, txpkt, slot_roundnum, slot_ready, norm_ready, norm_value>>
    BY <1>1 DEF ServerReceive, PsReceive, normVars
  <1>5. /\ roundNumbers \in [Slots -> Nat] /\ receive_count \in [Slots -> 0 .. NUM_WORKER]
        /\ norm_info \in [Slots -> Norm \cup {0}] /\ bitmap \in [Slots -> SUBSET Worker]
    BY DEF NormTypes, ServerTypes
  <1>6. /\ roundNumbers'[s] = m.round /\ receive_count'[s] = CountAfter(m)
        /\ norm_info'[s] = NormAfter(m) /\ bitmap'[s] = B
    BY <1>2, <1>4, <1>5, NormSlots
  <1>7. \A t \in NormAgtr : t # s =>
          /\ roundNumbers'[t] = roundNumbers[t] /\ receive_count'[t] = receive_count[t]
          /\ norm_info'[t] = norm_info[t] /\ bitmap'[t] = bitmap[t]
    BY <1>4, <1>5, NormSlots
  <1> HIDE DEF B
  <1>8. \A t \in NormAgtr : Completed(t)' = Completed(t)
    <2> SUFFICES ASSUME NEW t \in NormAgtr PROVE Completed(t)' = Completed(t)
      OBVIOUS
    <2>1. CASE t = s
      <3>1. Completed(t)' = m.round + 0
        BY <1>3, <1>6, <2>1, Workers DEF Completed, NUM_WORKER
      <3>2. m.round \in Nat
        BY PacketTypes
      <3> QED BY <1>2, <2>1, <3>1, <3>2
    <2>2. CASE t # s
      BY <1>7, <2>2 DEF Completed, NUM_WORKER
    <2> QED BY <2>1, <2>2
  <1>9. \A v : /\ (InCall(v)' <=> InCall(v)) /\ (Waiting(v)' <=> Waiting(v))
               /\ Answered(v)' = Answered(v) /\ CallKey(v)' = CallKey(v)
               /\ CallPacket(v)' = CallPacket(v)
    BY <1>4, SameWorker
  <1>10. CallInv'
    BY <1>0, <1>4, <1>9 DEF CallInv, Outcome, Largest
  <1>11. RoundInv'
    BY <1>0, <1>4, <1>8, <1>9 DEF RoundInv, Through, SlotOf
  <1>12. PacketInv'
    <2>1. ASSUME NEW k \in toPS'
          PROVE  /\ k.worker \in Worker /\ Waiting(k.worker)' /\ k = CallPacket(k.worker)'
                 /\ k.round >= Completed(k.agtr)'
      <3>1. k \in toPS /\ k.agtr \in NormAgtr
        BY <1>4, <2>1, PacketTypes
      <3> QED BY <1>0, <1>8, <1>9, <3>1 DEF PacketInv
    <2>2. ASSUME NEW v \in Worker, txpkt'[v] # NoPacket
          PROVE  /\ Waiting(v)' /\ txpkt'[v] = CallPacket(v)'
                 /\ txpkt'[v].round >= Completed(txpkt[v].agtr)'
                 /\ \A k \in toPS' : k.worker # v
      <3>1. txpkt'[v] = txpkt[v] /\ txpkt[v] \in NormPacket
        BY <1>4, <2>2 DEF NormTypes, ClientTypes
      <3>2. /\ Waiting(v) /\ txpkt[v] = CallPacket(v)
            /\ txpkt[v].round >= Completed(txpkt[v].agtr) /\ \A k \in toPS : k.worker # v
        BY <1>0, <2>2, <3>1 DEF PacketInv
      <3>3. PICK a \in NormAgtr : a = txpkt[v].agtr
        BY <3>1 DEF NormPacket
      <3>4. Completed(txpkt[v].agtr)' = Completed(a)'
        BY <1>4, <3>3 DEF Completed
      <3> QED BY <1>4, <1>8, <1>9, <3>1, <3>2, <3>3, <3>4
    <2> QED BY <2>1, <2>2 DEF PacketInv
  <1>13. ServerInv'
    <2> SUFFICES ASSUME NEW t \in NormAgtr
                 PROVE  /\ bitmap'[t] \subseteq Worker
                        /\ Cardinality(bitmap'[t]) =
                             (IF receive_count'[t] = NUM_WORKER THEN 0 ELSE receive_count'[t])
                        /\ receive_count'[t] = 0 => norm_info'[t] = 0
                        /\ \A v \in bitmap'[t] :
                             /\ Waiting(v)' /\ SlotOf(Len(given[v]))' = t
                             /\ roundNumbers'[t] = slot_roundnum'[v][t]
                             /\ txpkt'[v] = NoPacket /\ \A k \in toPS' : k.worker # v
                             /\ given'[v][Len(given'[v])] <= norm_info'[t]
                        /\ bitmap'[t] # {} =>
                             \E v \in bitmap'[t] : given'[v][Len(given'[v])] = norm_info'[t]
      BY DEF ServerInv, NUM_WORKER
    <2>1. CASE t = s
      <3>1. bitmap'[t] \subseteq Worker
        BY <1>1, <1>6, <2>1
      <3>2. /\ Cardinality(bitmap'[t]) =
                 (IF receive_count'[t] = NUM_WORKER THEN 0 ELSE receive_count'[t])
            /\ receive_count'[t] # 0
        BY <1>1, <1>3, <1>6, <2>1, Workers
      <3>3. \A v \in B : Waiting(v)' /\ SlotOf(Len(given[v]))' = t
                         /\ roundNumbers'[t] = slot_roundnum'[v][t]
        BY <1>1, <1>2, <1>4, <1>6, <1>9, <2>1 DEF SlotOf
      <3>4. \A v \in B : txpkt'[v] = NoPacket /\ \A k \in toPS' : k.worker # v
        <4> SUFFICES ASSUME NEW v \in B
                     PROVE  txpkt'[v] = NoPacket /\ \A k \in toPS' : k.worker # v
          OBVIOUS
        <4>1. CASE v = w
          <5>1. \A k \in toPS : k.worker = w => k = m
            BY <1>0, <1>2 DEF PacketInv
          <5> QED BY <1>1, <1>4, <4>1, <5>1
        <4>2. CASE v \in bitmap[s]
          BY <1>0, <1>2, <1>4, <4>2 DEF ServerInv
        <4> QED BY <4>1, <4>2 DEF B
      <3>5. /\ \A v \in B : given'[v][Len(given'[v])] <= norm_info'[t]
            /\ \E v \in B : given'[v][Len(given'[v])] = norm_info'[t]
        BY <1>1, <1>4, <1>6, <2>1 DEF Largest
      <3> QED BY <1>6, <2>1, <3>1, <3>2, <3>3, <3>4, <3>5
    <2>2. CASE t # s
      BY <1>0, <1>4, <1>7, <1>9, <2>2 DEF ServerInv, SlotOf
    <2> QED BY <2>1, <2>2
  <1>14. ReplyInv'
    <2> SUFFICES ASSUME NEW p \in toWorker
                 PROVE  /\ p[1] \in Worker
                        /\ \E d \in Call : Answers(p[2], d)'
                        /\ p[2].round < Completed(p[2].agtr)'
      BY <1>4 DEF ReplyInv
    <2>1. PICK d \in Call : Answers(p[2], d)
      BY <1>0 DEF ReplyInv
    <2>2. Answers(p[2], d)' /\ p[2].agtr \in NormAgtr
      BY <1>4, <2>1, CallTypes, SameGiven, AnswersStable DEF Answers
    <2>3. p[1] \in Worker /\ p[2].round < Completed(p[2].agtr)
      BY <1>0 DEF ReplyInv
    <2> QED BY <1>8, <2>2, <2>3
  <1>15. NotForgotten'
    <2> SUFFICES ASSUME NEW v \in Worker, Waiting(v)'
                 PROVE  LET t == SlotOf(Len(given'[v]))
                        IN  \/ txpkt'[v] # NoPacket
                            \/ \E k \in toPS' : k.worker = v
                            \/ roundNumbers'[t] = slot_roundnum'[v][t] /\ v \in bitmap'[t]
                            \/ \E p \in toWorker' :
                                 /\ p[1] = v /\ p[2].agtr = t
                                 /\ p[2].round = slot_roundnum'[v][t]
      BY DEF NotForgotten, SlotOf
    <2>1. CASE v \in B
      BY <1>1, <1>2, <1>4, <1>6, <2>1
    <2>2. CASE v \notin B
      <3>1. v # w /\ v \notin bitmap[s] /\ Waiting(v)
        BY <1>9, <2>2 DEF B
      <3>2. SlotOf(Len(given[v])) \in NormAgtr
        BY <3>1, InCallTypes DEF Waiting
      <3>3. \A k \in toPS : k.worker = v => k \in toPS'
        BY <1>4, <3>1
      <3> QED BY <1>0, <1>4, <1>7, <3>1, <3>2, <3>3 DEF NotForgotten
    <2> QED BY <2>1, <2>2
  <1> QED BY <1>10, <1>11, <1>12, <1>13, <1>14, <1>15 DEF NormInv

\* The packet that completes its round finds every worker in the same call,
\* with no other packet on its way.
LEMMA CompletingInv ==
  ASSUME NormTypes, NormInv, NEW m \in toPS, ServerReceive(m), Completes(m)
  PROVE  NormInv'
  <1> DEFINE s == m.agtr
             w == m.worker
             c == Len(given[w])
             B == bitmap[s] \cup {w}
  <1>0. CallInv /\ RoundInv /\ PacketInv /\ ServerInv /\ ReplyInv /\ NotForgotten
    BY DEF NormInv
  <1>1. /\ txpkt[w] = NoPacket /\ B \subseteq Worker /\ CountAfter(m) = Cardinality(B)
        /\ IsFiniteSet(B)
        /\ \A v \in B : Waiting(v) /\ Len(given[v]) = c /\ slot_roundnum[v][s] = m.round
        /\ Largest(NormAfter(m), B, c) /\ \A t \in NormAgtr : w \notin bitmap[t]
    BY Counted
  <1>2. /\ w \in Worker /\ Waiting(w) /\ m = CallPacket(w) /\ s = SlotOf(c) /\ s \in NormAgtr
        /\ m.key = NormProgram[c] /\ m.round = Completed(s) /\ m.round \in Nat
        /\ m.round = slot_roundnum[w][s]
    BY <1>0, PacketRound, PacketTypes
  <1>3. ~Stale(m) /\ CountAfter(m) = NUM_WORKER
    BY DEF Completes
  <1>4. B = Worker
    BY <1>1, <1>3, Workers, FS_Subset DEF NUM_WORKER
  <1>5. \A v \in Worker : /\ Waiting(v) /\ Len(given[v]) = c /\ slot_roundnum[v][s] = m.round
                          /\ txpkt[v] = NoPacket
    <2>1. \A v \in bitmap[s] : txpkt[v] = NoPacket
      BY <1>0, <1>2 DEF ServerInv
    <2> QED BY <1>1, <1>4, <2>1
  <1>6. toPS = {m}
    <2>1. \A k \in toPS : k.worker \in Worker /\ k = CallPacket(k.worker)
      BY <1>0 DEF PacketInv
    <2>2. \A v \in bitmap[s] : \A k \in toPS : k.worker # v
      BY <1>0, <1>2 DEF ServerInv
    <2>3. \A k \in toPS : k.worker = w
      BY <1>4, <2>1, <2>2
    <2> QED BY <1>2, <2>1, <2>3
  <1>7. \A t \in NormAgtr : t # s => bitmap[t] = {}
    BY <1>0, <1>2, <1>5 DEF ServerInv
  <1>8. /\ roundNumbers'  = [roundNumbers  EXCEPT ![s] = m.round]
        /\ receive_count' = [receive_count EXCEPT ![s] = NUM_WORKER]
        /\ bitmap'        = [bitmap EXCEPT ![s] = {}]
        /\ norm_info'     = [norm_info EXCEPT ![s] = NormAfter(m)]
        /\ toPS' = {} /\ toWorker' = toWorker \cup (Worker \X {Reply(m)})
        /\ UNCHANGED <<given, returned, txpkt, slot_roundnum, slot_ready, norm_ready, norm_value>>
    BY <1>3, <1>6 DEF ServerReceive, PsReceive, normVars
  <1>9. /\ roundNumbers \in [Slots -> Nat] /\ receive_count \in [Slots -> 0 .. NUM_WORKER]
        /\ norm_info \in [Slots -> Norm \cup {0}] /\ bitmap \in [Slots -> SUBSET Worker]
    BY DEF NormTypes, ServerTypes
  <1>10. roundNumbers'[s] = m.round /\ receive_count'[s] = NUM_WORKER /\ bitmap'[s] = {}
    BY <1>2, <1>8, <1>9, NormSlots
  <1>11. \A t \in NormAgtr : t # s =>
          /\ roundNumbers'[t] = roundNumbers[t] /\ receive_count'[t] = receive_count[t]
          /\ norm_info'[t] = norm_info[t] /\ bitmap'[t] = {}
    BY <1>7, <1>8, <1>9, NormSlots
  <1>12. /\ c \in Call /\ c \in Nat \ {0} /\ c - 1 \in Nat
         /\ m.round = Through(s, c - 1) /\ Through(s, c) = m.round + 1
    <2>1. InCall(w)
      BY <1>2 DEF Waiting
    <2>2. c \in Call /\ c \in Nat \ {0} /\ c - 1 \in Nat
      BY <1>2, <2>1, InCallTypes
    <2>3. m.round = Through(s, c - 1)
      BY <1>0, <1>2, WaitingRound
    <2> QED BY <1>2, <2>2, <2>3, ThroughStep
  <1>13. Completed(s)' = m.round + 1
    BY <1>10 DEF Completed, NUM_WORKER
  <1>14. \A t \in NormAgtr : t # s => Completed(t)' = Completed(t)
    BY <1>11 DEF Completed, NUM_WORKER
  <1> HIDE DEF B
  <1>15. \A v : /\ (InCall(v)' <=> InCall(v)) /\ (Waiting(v)' <=> Waiting(v))
                /\ Answered(v)' = Answered(v) /\ CallKey(v)' = CallKey(v)
    BY <1>8, SameWorker
  <1>16. CallInv'
    BY <1>0, <1>8, <1>15 DEF CallInv, Outcome, Largest
  <1>17. RoundInv'
    <2> SUFFICES ASSUME NEW v \in Worker, NEW t \in NormAgtr
                 PROVE  /\ slot_ready'[v][t]
                        /\ slot_roundnum'[v][t] = Through(t, Answered(v))'
                        /\ slot_roundnum'[v][t] <= Completed(t)'
                        /\ Completed(t)' <= Through(t, Len(given[v]))'
      BY DEF RoundInv
    <2>1. /\ slot_ready[v][t] /\ slot_roundnum[v][t] = Through(t, Answered(v))
          /\ slot_roundnum[v][t] <= Completed(t) /\ Completed(t) <= Through(t, Len(given[v]))
      BY <1>0 DEF RoundInv
    <2>2. /\ Through(t, Answered(v))' = Through(t, Answered(v))
          /\ Through(t, Len(given[v]))' = Through(t, Len(given[v]))
      BY <1>8, <1>15 DEF Through, SlotOf
    <2>3. CASE t = s
      BY <1>2, <1>5, <1>8, <1>12, <1>13, <2>1, <2>2, <2>3
    <2>4. CASE t # s
      BY <1>8, <1>14, <2>1, <2>2, <2>4
    <2> QED BY <2>3, <2>4
  <1>18. PacketInv'
    <2>1. \A v \in Worker : txpkt'[v] = NoPacket
      BY <1>5, <1>8
    <2> QED BY <1>8, <2>1 DEF PacketInv
  <1>19. ServerInv'
    <2>1. Cardinality({}) = 0
      BY FS_EmptySet
    <2>2. \A t \in NormAgtr :
            /\ bitmap'[t] = {}
            /\ 0 = (IF receive_count'[t] = NUM_WORKER THEN 0 ELSE receive_count'[t])
            /\ receive_count'[t] = 0 => norm_info'[t] = 0
      <3> SUFFICES ASSUME NEW t \in NormAgtr
                   PROVE  /\ bitmap'[t] = {}
                          /\ 0 = (IF receive_count'[t] = NUM_WORKER THEN 0 ELSE receive_count'[t])
                          /\ receive_count'[t] = 0 => norm_info'[t] = 0
        OBVIOUS
      <3>1. CASE t = s
        BY <1>10, <3>1, Workers
      <3>2. CASE t # s
        <4>1. Cardinality(bitmap[t]) =
                (IF receive_count[t] = NUM_WORKER THEN 0 ELSE receive_count[t])
              /\ (receive_count[t] = 0 => norm_info[t] = 0)
          BY <1>0 DEF ServerInv
        <4> QED BY <1>7, <1>11, <2>1, <3>2, <4>1
      <3> QED BY <3>1, <3>2
    <2> QED BY <2>1, <2>2 DEF ServerInv, NUM_WORKER
  <1>20. ReplyInv'
    <2> SUFFICES ASSUME NEW p \in toWorker'
                 PROVE  /\ p[1] \in Worker
                        /\ \E d \in Call : Answers(p[2], d)'
                        /\ p[2].round < Completed(p[2].agtr)'
      BY DEF ReplyInv
    <2>1. CASE p \in toWorker
      <3>1. PICK d \in Call : Answers(p[2], d)
        BY <1>0, <2>1 DEF ReplyInv
      <3>2. Answers(p[2], d)' /\ p[2].agtr \in NormAgtr
        BY <1>8, <3>1, CallTypes, SameGiven, AnswersStable DEF Answers
      <3>3. p[1] \in Worker /\ p[2].round < Completed(p[2].agtr)
        BY <1>0, <2>1 DEF ReplyInv
      <3>4. p[2].round \in Nat
        BY <2>1 DEF NormTypes, NetworkTypes, NormReply
      <3>5. CASE p[2].agtr = s
        <4>1. p[2].round < m.round
          BY <1>2, <3>3, <3>5
        <4>2. p[2].round < m.round + 1
          BY <1>2, <3>4, <4>1
        <4>3. Completed(p[2].agtr)' = m.round + 1
          BY <1>13, <3>5
        <4> QED BY <3>2, <3>3, <4>2, <4>3
      <3>6. CASE p[2].agtr # s
        BY <1>14, <3>2, <3>3, <3>6
      <3> QED BY <3>2, <3>3, <3>5, <3>6
    <2>2. CASE p \notin toWorker
      <3>1. p[1] \in Worker /\ p[2] = Reply(m)
        BY <1>8, <2>2
      <3>2. /\ p[2].agtr = s /\ p[2].round = m.round /\ p[2].key = NormProgram[c]
            /\ p[2].norm = NormAfter(m)
        BY <1>2, <3>1 DEF Reply
      <3>3. Outcome(c, NormAfter(m))
        BY <1>1, <1>4, <1>5, <1>12 DEF Outcome
      <3>4. Answers(p[2], c)
        BY <1>2, <1>12, <3>2, <3>3 DEF Answers
      <3>5. Answers(p[2], c)'
        BY <1>8, <3>4 DEF Answers, Outcome, Largest, SlotOf, Through
      <3>6. p[2].round < Completed(p[2].agtr)'
        BY <1>2, <1>13, <3>2
      <3>7. \E d \in Call : Answers(p[2], d)'
        <4> HIDE DEF c
        <4> QED BY <1>12, <1>8, <3>5 DEF c
      <3> QED BY <3>1, <3>6, <3>7
    <2> QED BY <2>1, <2>2
  <1>21. NotForgotten'
    <2> SUFFICES ASSUME NEW v \in Worker
                 PROVE  LET t == SlotOf(Len(given'[v]))
                        IN  \E p \in toWorker' :
                                 /\ p[1] = v /\ p[2].agtr = t
                                 /\ p[2].round = slot_roundnum'[v][t]
      BY DEF NotForgotten, SlotOf
    <2>1. SlotOf(Len(given'[v])) = s /\ slot_roundnum'[v][s] = m.round
      BY <1>2, <1>5, <1>8
    <2>2. <<v, Reply(m)>> \in toWorker'
      BY <1>8
    <2>3. Reply(m).agtr = s /\ Reply(m).round = m.round
      BY DEF Reply
    <2> QED BY <2>1, <2>2, <2>3
  <1> QED BY <1>16, <1>17, <1>18, <1>19, <1>20, <1>21 DEF NormInv

-----------------------------------------------------------------------------
(* A reply reaches a worker: it is accepted only by one that waits for it, *)
(* whose packet is neither under way nor counted any more.                 *)

LEMMA IgnoredInv ==
  ASSUME NormTypes, NormInv, NEW p \in toWorker, NormReceive(p[1], p[2]),
         p[2].round # slot_roundnum[p[1]][p[2].agtr]
  PROVE  NormInv'
  <1>0. CallInv /\ RoundInv /\ PacketInv /\ ServerInv /\ ReplyInv /\ NotForgotten
    BY DEF NormInv
  <1>1. p = <<p[1], p[2]>>
    BY DEF NormTypes, NetworkTypes
  <1>2. /\ toWorker' = toWorker \ {p}
        /\ UNCHANGED <<given, returned, txpkt, slot_roundnum, slot_ready, norm_ready, norm_value,
                       toPS, roundNumbers, receive_count, bitmap, norm_info>>
    BY <1>1 DEF NormReceive, psVars
  <1>3. RoundInv'
    <2>1. \A v : Answered(v)' = Answered(v)
      BY <1>2, SameWorker
    <2>2. \A t : Completed(t)' = Completed(t)
      BY <1>2, SameServer
    <2> QED BY <1>0, <1>2, <2>1, <2>2 DEF RoundInv, Through, SlotOf
  <1> USE DEF InCall, CallKey, SlotOf, Through, Waiting, Answered, CallPacket, Completed,
              Largest, Outcome
  <1>8. CallInv'
    BY <1>0, <1>2 DEF CallInv
  <1>4. PacketInv'
    BY <1>0, <1>2 DEF PacketInv
  <1>5. ServerInv'
    BY <1>0, <1>2 DEF ServerInv
  <1>6. ReplyInv'
    BY <1>0, <1>2, SameGiven, RepliesStable
  <1>7. NotForgotten'
    BY <1>0, <1>2 DEF NotForgotten
  <1> QED BY <1>3, <1>4, <1>5, <1>6, <1>7, <1>8 DEF NormInv

LEMMA AcceptedInv ==
  ASSUME NormTypes, NormInv, NEW p \in toWorker, NormReceive(p[1], p[2]),
         p[2].round = slot_roundnum[p[1]][p[2].agtr]
  PROVE  NormInv'
  <1> DEFINE w == p[1]
             r == p[2]
             c == Len(given[w])
             s == SlotOf(c)
  <1>0. CallInv /\ RoundInv /\ PacketInv /\ ServerInv /\ ReplyInv /\ NotForgotten
    BY DEF NormInv
  <1>1. w \in Worker /\ Waiting(w) /\ Answers(r, c) /\ r.round < Completed(r.agtr)
    BY <1>0, AcceptedReply
  <1>2. /\ r.agtr = s /\ r.key = CallKey(w) /\ r.round = Through(s, c - 1)
        /\ Outcome(c, r.norm) /\ InCall(w) /\ r.round < Completed(s)
        /\ r.round = slot_roundnum[w][s]
    BY <1>1 DEF Answers, CallKey, Waiting
  <1>3. /\ c \in Call /\ c \in Nat \ {0} /\ c - 1 \in Nat
        /\ CallKey(w) \in NormKey /\ s \in NormAgtr
    BY <1>1, <1>2, InCallTypes
  <1>4. /\ slot_roundnum' = [slot_roundnum EXCEPT ![w][s] = @ + 1]
        /\ norm_value'    = [norm_value    EXCEPT ![w][CallKey(w)] = r.norm]
        /\ norm_ready'    = [norm_ready    EXCEPT ![w][CallKey(w)] = TRUE]
        /\ toWorker' = toWorker \ {<<w, r>>}
        /\ UNCHANGED <<given, returned, txpkt, slot_ready, toPS,
                       roundNumbers, receive_count, bitmap, norm_info>>
    BY <1>2 DEF NormReceive, psVars
  <1>5. /\ slot_roundnum \in [Worker -> [NormAgtr -> Nat]]
        /\ norm_ready \in [Worker -> [NormKey -> BOOLEAN]]
        /\ norm_value \in [Worker -> [NormKey -> Norm \cup {0}]]
        /\ Completed(s) \in Nat
    BY <1>3, CompletedType DEF NormTypes, ClientTypes
  <1>6. \A v \in Worker : v # w => UNCHANGED <<given[v], returned[v], norm_ready[v],
                                               norm_value[v], slot_roundnum[v]>>
    BY <1>4, <1>5
  <1>7. /\ norm_ready'[w][CallKey(w)] /\ norm_value'[w][CallKey(w)] = r.norm
        /\ slot_roundnum'[w][s] = r.round + 1
        /\ \A t \in NormAgtr : t # s => slot_roundnum'[w][t] = slot_roundnum[w][t]
    BY <1>1, <1>2, <1>3, <1>4, <1>5
  <1> HIDE DEF c, s, r
  <1>8. ~Waiting(w)' /\ CallKey(w)' = CallKey(w)
    <2>1. CallKey(w)' = CallKey(w)
      BY <1>4 DEF CallKey
    <2> QED BY <1>7, <2>1 DEF Waiting
  <1>9. Answered(w)' = c
    BY <1>3, <1>4, <1>8 DEF Answered, c
  <1>10. \A v \in Worker : v # w =>
           /\ (InCall(v)' <=> InCall(v)) /\ (Waiting(v)' <=> Waiting(v))
           /\ Answered(v)' = Answered(v) /\ CallKey(v)' = CallKey(v)
           /\ CallPacket(v)' = CallPacket(v)
    BY <1>6, SameWorker
  <1>11. \A t : Completed(t)' = Completed(t)
    BY <1>4, SameServer
  <1>12. \A m \in toPS : m.worker # w
    <2> SUFFICES ASSUME NEW m \in toPS, m.worker = w PROVE FALSE
      OBVIOUS
    <2>1. m.agtr = s /\ m.round = slot_roundnum[w][s] /\ m.round = Completed(s)
      BY <1>0, PacketRound DEF s, c
    <2> QED BY <1>2, <1>5, <2>1
  <1>13. txpkt[w] = NoPacket
    <2> SUFFICES ASSUME txpkt[w] # NoPacket PROVE FALSE
      OBVIOUS
    <2>1. txpkt[w] = CallPacket(w) /\ txpkt[w].round >= Completed(txpkt[w].agtr)
      BY <1>0, <1>1 DEF PacketInv
    <2>2. txpkt[w].agtr = s /\ txpkt[w].round = r.round
      BY <1>2, <2>1 DEF CallPacket, s, c
    <2>3. r.round \in Nat
      BY <1>1, <1>2, <1>3, <1>5
    <2> QED BY <1>2, <1>5, <2>1, <2>2, <2>3
  <1>14. \A t \in NormAgtr : w \notin bitmap[t]
    <2> SUFFICES ASSUME NEW t \in NormAgtr, w \in bitmap[t] PROVE FALSE
      OBVIOUS
    <2>1. t = s /\ roundNumbers[s] = slot_roundnum[w][s]
      BY <1>0 DEF ServerInv, s, c
    <2>2. receive_count[s] = NUM_WORKER
      BY <1>2, <1>3, <2>1, CompletedType DEF Completed
    <2>3. Cardinality(bitmap[s]) = 0
      BY <1>0, <1>3, <2>2 DEF ServerInv
    <2>4. IsFiniteSet(bitmap[s])
      <3>1. bitmap[s] \in SUBSET Worker
        BY <1>0, <1>3 DEF ServerInv
      <3> QED BY <3>1, Workers, FS_Subset
    <2> QED BY <2>1, <2>3, <2>4, FS_EmptySet
  <1>15. CallInv'
    <2> SUFFICES ASSUME NEW v \in Worker
                 PROVE  /\ Len(returned'[v]) \in {Len(given'[v]), Len(given'[v]) - 1}
                        /\ InCall(v)' /\ ~Waiting(v)' =>
                             Outcome(Len(given[v]), norm_value[v][CallKey(v)])'
      BY DEF CallInv
    <2>1. Len(returned'[v]) \in {Len(given'[v]), Len(given'[v]) - 1}
      BY <1>0, <1>4 DEF CallInv
    <2>2. CASE v = w
      <3>1. Outcome(Len(given[v]), norm_value[v][CallKey(v)])'
        BY <1>2, <1>4, <1>7, <1>8, <2>2 DEF Outcome, Largest, c
      <3> QED BY <2>1, <3>1
    <2>3. CASE v # w
      BY <1>0, <1>4, <1>6, <1>10, <2>1, <2>3 DEF CallInv, Outcome, Largest
    <2> QED BY <2>2, <2>3
  <1>16. RoundInv'
    <2> SUFFICES ASSUME NEW v \in Worker, NEW t \in NormAgtr
                 PROVE  /\ slot_ready'[v][t]
                        /\ slot_roundnum'[v][t] = Through(t, Answered(v))'
                        /\ slot_roundnum'[v][t] <= Completed(t)'
                        /\ Completed(t)' <= Through(t, Len(given[v]))'
      BY DEF RoundInv
    <2>1. /\ slot_ready[v][t] /\ slot_roundnum[v][t] = Through(t, Answered(v))
          /\ slot_roundnum[v][t] <= Completed(t) /\ Completed(t) <= Through(t, Len(given[v]))
      BY <1>0 DEF RoundInv
    <2>2. /\ Through(t, Answered(v))' = Through(t, Answered(v)')
          /\ Through(t, Len(given[v]))' = Through(t, Len(given[v]))
      BY <1>4 DEF Through, SlotOf
    <2>3. CASE v # w
      BY <1>4, <1>6, <1>10, <1>11, <2>1, <2>2, <2>3
    <2>4. CASE v = w
      <3>1. Through(t, c) = Through(t, c - 1) + (IF s = t THEN 1 ELSE 0)
        BY <1>3, ThroughStep DEF s
      <3>2. slot_roundnum[w][t] = Through(t, c - 1) /\ Through(t, c - 1) \in Nat
        <4>1. Answered(w) = c - 1
          BY <1>0, <1>1, WaitingRound DEF c
        <4> QED BY <1>3, <2>1, <2>4, <4>1, ThroughType
      <3>3. slot_roundnum'[w][t] = Through(t, c)
        BY <1>2, <1>7, <3>1, <3>2
      <3>4. slot_roundnum'[w][t] <= Completed(t)
        <4>1. CASE t = s
          <5>1. r.round \in Nat
            BY <1>1, <1>2, <1>3, <1>5
          <5> QED BY <1>2, <1>5, <1>7, <4>1, <5>1
        <4>2. CASE t # s
          BY <1>7, <2>1, <2>4, <4>2
        <4> QED BY <4>1, <4>2
      <3> QED BY <1>4, <1>9, <1>11, <2>1, <2>2, <2>4, <3>3, <3>4
    <2> QED BY <2>3, <2>4
  <1>17. PacketInv'
    <2>1. ASSUME NEW m \in toPS'
          PROVE  /\ m.worker \in Worker /\ Waiting(m.worker)' /\ m = CallPacket(m.worker)'
                 /\ m.round >= Completed(m.agtr)'
      BY <1>0, <1>4, <1>10, <1>11, <1>12, <2>1 DEF PacketInv
    <2>2. ASSUME NEW v \in Worker, txpkt'[v] # NoPacket
          PROVE  /\ Waiting(v)' /\ txpkt'[v] = CallPacket(v)'
                 /\ txpkt'[v].round >= Completed(txpkt[v].agtr)'
                 /\ \A m \in toPS' : m.worker # v
      <3>1. v # w /\ txpkt'[v] = txpkt[v]
        BY <1>4, <1>13, <2>2
      <3>2. Completed(txpkt[v].agtr)' = Completed(txpkt[v].agtr)
        BY <1>4 DEF Completed
      <3> QED BY <1>0, <1>4, <1>10, <2>2, <3>1, <3>2 DEF PacketInv
    <2> QED BY <2>1, <2>2 DEF PacketInv
  <1>18. ServerInv'
    <2>1. \A t \in NormAgtr : \A v \in bitmap[t] :
            /\ v \in Worker /\ v # w /\ slot_roundnum'[v] = slot_roundnum[v]
      BY <1>0, <1>6, <1>14 DEF ServerInv
    <2> QED BY <1>0, <1>4, <1>10, <2>1 DEF ServerInv, SlotOf
  <1>19. ReplyInv'
    BY <1>0, <1>4, SameGiven, RepliesStable
  <1>20. NotForgotten'
    <2> SUFFICES ASSUME NEW v \in Worker, Waiting(v)'
                 PROVE  LET t == SlotOf(Len(given'[v]))
                        IN  \/ txpkt'[v] # NoPacket
                            \/ \E k \in toPS' : k.worker = v
                            \/ roundNumbers'[t] = slot_roundnum'[v][t] /\ v \in bitmap'[t]
                            \/ \E q \in toWorker' :
                                 /\ q[1] = v /\ q[2].agtr = t
                                 /\ q[2].round = slot_roundnum'[v][t]
      BY DEF NotForgotten, SlotOf
    <2>1. v # w /\ Waiting(v) /\ slot_roundnum'[v] = slot_roundnum[v]
      BY <1>6, <1>8, <1>10
    <2>2. \A q \in toWorker : q[1] = v => q \in toWorker'
      BY <1>4, <2>1
    <2> QED BY <1>0, <1>4, <2>1, <2>2 DEF NotForgotten
  <1> QED BY <1>15, <1>16, <1>17, <1>18, <1>19, <1>20 DEF NormInv

-----------------------------------------------------------------------------
(* The theorems.                                                           *)

LEMMA NextInv == NormTypes /\ NormInv /\ [Next]_vars => NormInv'
  <1> SUFFICES ASSUME NormTypes, NormInv, [Next]_vars PROVE NormInv'
    OBVIOUS
  <1>1. ASSUME NEW w \in Worker, NEW n \in Norm, NormAssemble(w, n) PROVE NormInv'
    BY <1>1, AssembleInv
  <1>2. ASSUME NEW w \in Worker, NormBurst(w) PROVE NormInv'
    BY <1>2, BurstInv
  <1>3. ASSUME NEW w \in Worker, NormReturn(w) PROVE NormInv'
    BY <1>3, ReturnInv
  <1>4. ASSUME NEW w \in Worker, NormReset(w) PROVE NormInv'
    BY <1>4, ResetDoesNothing, StutterInv
  <1>5. ASSUME NEW m \in toPS, ServerReceive(m) PROVE NormInv'
    BY <1>5, CountingInv, CompletingInv
  <1>6. ASSUME NEW p \in toWorker, NormReceive(p[1], p[2]) PROVE NormInv'
    BY <1>6, IgnoredInv, AcceptedInv
  <1>7. CASE UNCHANGED vars
    BY <1>7, StutterInv
  <1> QED BY <1>1, <1>2, <1>3, <1>4, <1>5, <1>6, <1>7 DEF Next, ServerStep, ReceiveStep

\* The exchange keeps its invariant: no worker is more than a call ahead, a
\* packet on its way is of the round its slot works on next, and the bitmap
\* the server never reads names exactly the workers it has counted.
THEOREM NormInvariance == Spec => [](NormTypes /\ NormInv)
  <1>1. Init => NormTypes /\ NormInv
    BY InitTypes, InitInv
  <1>2. NormTypes /\ NormInv /\ [Next]_vars => (NormTypes /\ NormInv)'
    BY NextTypes, NextInv
  <1> QED BY <1>1, <1>2, PTL DEF Spec

\* A worker that waits in CommunicateNorm has a packet to send or on its way,
\* or is counted by the server, or its reply is on its way: neither the
\* client's nor the server's receive thread ever drops a norm.
THEOREM NothingForgotten == Spec => []NormNotForgotten
  <1>1. NormTypes /\ NormInv => NormNotForgotten
    <2> SUFFICES ASSUME NormInv, NEW w \in Worker, InCall(w), ~norm_ready[w][CallKey(w)]
                 PROVE  LET s == NormAgtrOf(CallKey(w))
                        IN  \/ txpkt[w] # NoPacket
                            \/ \E m \in toPS : m.worker = w
                            \/ roundNumbers[s] = slot_roundnum[w][s] /\ w \in bitmap[s]
                            \/ \E r \in {p[2] : p \in {q \in toWorker : q[1] = w}} :
                                 r.round = slot_roundnum[w][s]
      BY DEF NormNotForgotten
    <2>1. Waiting(w)
      BY DEF Waiting
    <2>2. NormAgtrOf(CallKey(w)) = SlotOf(Len(given[w]))
      BY DEF SlotOf, CallKey
    <2> QED BY <2>1, <2>2 DEF NormInv, NotForgotten
  <1> QED BY <1>1, NormInvariance, PTL

\* The largest of a set, once it is known.
LEMMA MaxIs ==
  ASSUME NEW S \in SUBSET Nat, NEW x \in S, \A y \in S : y <= x
  PROVE  AllReduce!Max(S) = x
  <1>1. x \in S /\ \A y \in S : x >= y
    OBVIOUS
  <1>2. \A z \in S : (\A y \in S : z >= y) => z = x
    OBVIOUS
  <1> QED BY <1>1, <1>2 DEF AllReduce!Max

\* The exchange implements the all-reduce: CommunicateNorm returns the
\* largest norm that the workers gave to this very call, and no earlier than
\* all of them have made it.
THEOREM NormRefinement == Spec => ImplementsAllReduce
  <1>1. Init => AllReduce!Init
    BY DEF Init, AllReduce!Init
  <1>2. NormTypes /\ NormInv /\ [Next]_vars => [AllReduce!Next]_<<given, returned>>
    <2> SUFFICES ASSUME NormTypes, NormInv, [Next]_vars
                 PROVE  AllReduce!Next \/ UNCHANGED <<given, returned>>
      OBVIOUS
    <2>1. ASSUME NEW w \in Worker, NEW n \in Norm, NormAssemble(w, n) PROVE AllReduce!Next
      <3>1. Len(given[w]) \in Nat /\ Len(returned[w]) \in Nat
        BY DEF NormTypes, ClientTypes
      <3>2. Len(returned[w]) \in {Len(given[w]), Len(given[w]) - 1}
        BY DEF NormInv, CallInv
      <3>3. Len(given[w]) = Len(returned[w])
        BY <2>1, <3>1, <3>2 DEF NormAssemble, InCall
      <3>4. AllReduce!Call(w, n)
        BY <2>1, <3>3 DEF AllReduce!Call, NormAssemble
      <3> QED BY <3>4 DEF AllReduce!Next
    <2>2. ASSUME NEW w \in Worker, NormReturn(w) PROVE AllReduce!Next
      <3> DEFINE c == Len(given[w])
                 x == norm_value[w][CallKey(w)]
                 S == {given[v][c] : v \in Worker}
      <3>1. /\ InCall(w) /\ norm_ready[w][CallKey(w)]
            /\ returned' = [returned EXCEPT ![w] = Append(@, x)]
            /\ given' = given
        BY <2>2 DEF NormReturn
      <3>2. Outcome(c, x)
        BY <3>1 DEF NormInv, CallInv, Waiting
      <3>3. \A v \in Worker : Len(given[v]) >= c /\ given[v][c] \in Nat /\ given[v][c] <= x
        <4> SUFFICES ASSUME NEW v \in Worker
                     PROVE  Len(given[v]) >= c /\ given[v][c] \in Nat /\ given[v][c] <= x
          OBVIOUS
        <4>1. Len(given[v]) >= c /\ given[v][c] <= x
          BY <3>2 DEF Outcome, Largest
        <4>2. given[v] \in Seq(Norm) /\ c \in Nat \ {0} /\ Norm \subseteq Nat
          BY <3>1, InCallTypes, NormAssumption DEF NormTypes, ClientTypes
        <4>3. c \in 1 .. Len(given[v])
          BY <4>1, <4>2
        <4>4. given[v][c] \in Norm
          <5> HIDE DEF c
          <5> QED BY <4>2, <4>3
        <4> QED BY <4>1, <4>2, <4>4
      <3>4. x \in S /\ S \in SUBSET Nat /\ \A y \in S : y <= x
        BY <3>2, <3>3 DEF Outcome, Largest
      <3>5. AllReduce!Max(S) = x
        BY <3>4, MaxIs
      <3>6. AllReduce!Return(w)
        BY <3>1, <3>3, <3>5 DEF AllReduce!Return, InCall
      <3> QED BY <3>6 DEF AllReduce!Next
    <2>3. ASSUME NEW w \in Worker, NormBurst(w) \/ NormReset(w) PROVE UNCHANGED <<given, returned>>
      BY <2>3 DEF NormBurst, NormReset
    <2>4. ASSUME NEW m \in toPS, ServerReceive(m) PROVE UNCHANGED <<given, returned>>
      BY <2>4 DEF ServerReceive, normVars
    <2>5. ASSUME NEW p \in toWorker, NormReceive(p[1], p[2]) PROVE UNCHANGED <<given, returned>>
      BY <2>5 DEF NormReceive
    <2>6. CASE UNCHANGED vars
      BY <2>6 DEF vars, normVars
    <2> QED BY <2>1, <2>2, <2>3, <2>4, <2>5, <2>6 DEF Next, ServerStep, ReceiveStep
  <1> QED BY <1>1, <1>2, NormInvariance, PTL DEF Spec, ImplementsAllReduce, AllReduce!Spec

=============================================================================
