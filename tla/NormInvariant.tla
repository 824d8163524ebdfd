---------------------------- MODULE NormInvariant ----------------------------
(***************************************************************************)
(* The inductive invariant behind the properties of NormExchange.          *)
(*                                                                         *)
(* A worker makes its next call only when the last one has been answered,  *)
(* and a call is answered only when the server has counted all workers'    *)
(* packets of it.  Hence no worker is more than one call ahead, a packet   *)
(* on its way is of the round its slot works on next, and the bitmap of a  *)
(* slot, which the server writes and never reads, names the workers whose  *)
(* norms are in the maximum.                                               *)
(***************************************************************************)
EXTENDS NormExchange

NormPacket == [worker : Worker, agtr : NormAgtr, round : Nat, key : NormKey,
               cmd : {TENSOR_NORM}, norm : Norm]
NormReply  == [agtr : NormAgtr, round : Nat, key : NormKey, cmd : {TENSOR_NORM},
               norm : Norm, data : {[w \in Worker |-> << >>]}]

\* The types, with those of the packets and of the server's slots in full.
ServerTypes ==
  /\ roundNumbers  \in [Slots -> Nat]
  /\ receive_count \in [Slots -> 0 .. NUM_WORKER]
  /\ bitmap        \in [Slots -> SUBSET Worker]
  /\ norm_info     \in [Slots -> Norm \cup {0}]
  /\ data_slots    \in [Slots -> {[w \in Worker |-> << >>]}]

ClientTypes ==
  /\ given    \in [Worker -> Seq(Norm)]
  /\ returned \in [Worker -> Seq(Norm)]
  /\ txpkt    \in [Worker -> {NoPacket} \cup NormPacket]
  /\ slot_roundnum \in [Worker -> [NormAgtr -> Nat]]
  /\ slot_ready    \in [Worker -> [NormAgtr -> BOOLEAN]]
  /\ norm_ready    \in [Worker -> [NormKey -> BOOLEAN]]
  /\ norm_value    \in [Worker -> [NormKey -> Norm \cup {0}]]
  /\ \A w \in Worker : Len(given[w]) <= Len(NormProgram)
  /\ \A w \in Worker, k \in NormKey : norm_ready[w][k] => norm_value[w][k] \in Norm

NetworkTypes == toPS \subseteq NormPacket /\ toWorker \subseteq Worker \X NormReply

NormTypes == ServerTypes /\ ClientTypes /\ NetworkTypes

Call == 1 .. Len(NormProgram)
SlotOf(c) == NormAgtrOf(NormProgram[c])

\* How many of the first n calls go through slot s, which is also the round
\* of the next one.
Through(s, n) == Cardinality({b \in 1 .. n : SlotOf(b) = s})

\* A worker waits for the answer to its call; the calls answered to it.
Waiting(w) == InCall(w) /\ ~norm_ready[w][CallKey(w)]
Answered(w) == Len(given[w]) - (IF Waiting(w) THEN 1 ELSE 0)

\* The packet of the call that worker w is in.
CallPacket(w) ==
  [worker |-> w, agtr |-> SlotOf(Len(given[w])),
   round |-> Through(SlotOf(Len(given[w])), Len(given[w]) - 1),
   key |-> CallKey(w), cmd |-> TENSOR_NORM, norm |-> given[w][Len(given[w])]]

\* Rounds of slot s that the server has completed.
Completed(s) == roundNumbers[s] + (IF receive_count[s] = NUM_WORKER THEN 1 ELSE 0)

\* x is the largest of the norms that the workers in W gave to call c.
Largest(x, W, c) ==
  /\ \A v \in W : given[v][c] <= x
  /\ \E v \in W : given[v][c] = x

\* Every worker has made call c, and x is what it must return.
Outcome(c, x) ==
  /\ \A v \in Worker : Len(given[v]) >= c
  /\ Largest(x, Worker, c)

\* A worker is in at most one call, and returns from it when it is answered.
CallInv ==
  \A w \in Worker :
    /\ Len(returned[w]) \in {Len(given[w]), Len(given[w]) - 1}
    /\ InCall(w) /\ ~Waiting(w) =>
         Outcome(Len(given[w]), norm_value[w][CallKey(w)])

\* The round of a slot counts the answered calls through it; the server is
\* never behind, and completes no round that some worker has not called.  No
\* norm slot is ever marked as used, so Reset passes it by.
RoundInv ==
  \A w \in Worker, s \in NormAgtr :
    /\ slot_ready[w][s]
    /\ slot_roundnum[w][s] = Through(s, Answered(w))
    /\ slot_roundnum[w][s] <= Completed(s)
    /\ Completed(s) <= Through(s, Len(given[w]))

\* A packet is the one of its sender's unanswered call, of a round that is
\* not completed, and is in one place.
PacketInv ==
  /\ \A m \in toPS :
       /\ m.worker \in Worker /\ Waiting(m.worker) /\ m = CallPacket(m.worker)
       /\ m.round >= Completed(m.agtr)
  /\ \A w \in Worker : txpkt[w] # NoPacket =>
       /\ Waiting(w) /\ txpkt[w] = CallPacket(w)
       /\ txpkt[w].round >= Completed(txpkt[w].agtr)
       /\ \A m \in toPS : m.worker # w

\* The bitmap names the workers whose packets of the running round have been
\* counted; it is empty between rounds.
ServerInv ==
  \A s \in NormAgtr :
    /\ bitmap[s] \subseteq Worker
    /\ Cardinality(bitmap[s]) =
         (IF receive_count[s] = NUM_WORKER THEN 0 ELSE receive_count[s])
    /\ receive_count[s] = 0 => norm_info[s] = 0
    /\ \A w \in bitmap[s] :
         /\ Waiting(w) /\ SlotOf(Len(given[w])) = s
         /\ roundNumbers[s] = slot_roundnum[w][s]
         /\ txpkt[w] = NoPacket /\ \A m \in toPS : m.worker # w
         /\ given[w][Len(given[w])] <= norm_info[s]
    /\ bitmap[s] # {} =>
         \E w \in bitmap[s] : given[w][Len(given[w])] = norm_info[s]

\* r answers call c.
Answers(r, c) ==
  /\ r.agtr = SlotOf(c) /\ r.key = NormProgram[c]
  /\ r.round = Through(SlotOf(c), c - 1)
  /\ Outcome(c, r.norm)

\* A reply answers a call that is completed.
ReplyInv ==
  \A p \in toWorker :
    /\ p[1] \in Worker
    /\ \E c \in Call : Answers(p[2], c)
    /\ p[2].round < Completed(p[2].agtr)

\* A worker that waits has its packet under way or counted, or its answer is.
NotForgotten ==
  \A w \in Worker : Waiting(w) =>
    LET s == SlotOf(Len(given[w]))
    IN  \/ txpkt[w] # NoPacket
        \/ \E m \in toPS : m.worker = w
        \/ roundNumbers[s] = slot_roundnum[w][s] /\ w \in bitmap[s]
        \/ \E p \in toWorker :
             p[1] = w /\ p[2].agtr = s /\ p[2].round = slot_roundnum[w][s]

\* The inductive invariant, besides the types: CommunicateNorm's rounds, the
\* packets and replies under way and the server's maximum and bitmap all belong
\* to one call at a time, and a waiting worker's norm is in one of these places.
NormInv ==
  /\ CallInv
  /\ RoundInv
  /\ PacketInv
  /\ ServerInv
  /\ ReplyInv
  /\ NotForgotten

=============================================================================
