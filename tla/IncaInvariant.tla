--------------------------- MODULE IncaInvariant -----------------------------
(***************************************************************************)
(* The inductive invariant behind the safety properties of IncaSystem.     *)
(*                                                                         *)
(* All workers draw keys from a counter, in the same order, and a slot's   *)
(* packets leave in queue order one at a time.  Hence the round of a slot  *)
(* counts the packets that have left through it and are done, answered or  *)
(* timed out alike, and <<slot, round>> determines the counter value, so   *)
(* the key, without any agreement between the workers.                     *)
(***************************************************************************)
EXTENDS IncaSystem, ClientInvariant

\* A packet carries the key and command its slot and round determine, and it
\* has left.
Genuine(m) ==
  /\ m.key = KeyAt(m.agtr, m.round)
  /\ m.cmd = CmdOf(Position(m.agtr, m.round))
  /\ m.round < Sent(Front(m.worker), m.agtr)

PacketInv == \A m \in toPS : Genuine(m)

TxInv ==
  \A w \in Worker : txpkt[w] # NoPacket =>
    /\ txpkt[w].worker = w
    /\ Genuine(txpkt[w])
    /\ txpkt[w] \notin toPS

\* The sum of the gradients of key k of the workers in W.
PartialSum(W, k) == [w \in Worker |-> IF w \in W THEN <<k>> ELSE << >>]

\* The count says how many workers were counted, and the sum of a gradient
\* round holds the one gradient of each of them.  A counted worker has sent
\* its packet of the round and has no other one under way.
ServerInv ==
  \A s \in Agtr :
    /\ receive_count[s] = Cardinality(counted[s])
    /\ counted[s] # {} /\ CmdOf(Position(s, roundNumbers[s])) = TENSOR_COMM =>
         data_slots[s] = PartialSum(counted[s], KeyAt(s, roundNumbers[s]))
    /\ \A w \in counted[s] :
         /\ roundNumbers[s] < Sent(Front(w), s)
         /\ \A m \in toPS :
              ~(m.worker = w /\ m.agtr = s /\ m.round = roundNumbers[s])
         /\ txpkt[w] # NoPacket =>
              ~(txpkt[w].agtr = s /\ txpkt[w].round = roundNumbers[s])

\* A gradient reply is the full sum of its key, and every worker has sent
\* its part.
ReplyInv ==
  \A p \in toWorker :
    /\ p[2].key = KeyAt(p[2].agtr, p[2].round)
    /\ p[2].cmd = TENSOR_COMM => p[2].data = FullSum(p[2].key)
    /\ \A w \in Worker : p[2].round < Sent(Front(w), p[2].agtr)

\* The inductive invariant: every <<slot, round>> stands for one key, in the
\* clients, on the wire and in the server, and no gradient is summed twice.
IndInv ==
  /\ PushInv
  /\ QueueInv
  /\ SlotInv
  /\ PacketInv
  /\ TxInv
  /\ ServerInv
  /\ ReplyInv
  /\ BufferLocalOrFullSum

\* The server answers a round once: a reply under way is of a round its slot
\* has left behind, or of the current one, and then all workers are counted.
AnsweredInv ==
  \A p \in toWorker :
    LET s == p[2].agtr
    IN  /\ p[2].round <= roundNumbers[s]
        /\ p[2].round = roundNumbers[s] => counted[s] = Worker

=============================================================================
