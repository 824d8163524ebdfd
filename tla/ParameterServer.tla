--------------------------- MODULE ParameterServer ---------------------------
(***************************************************************************)
(* The software parameter server (dpdk/server/ParameterServer.cc): an      *)
(* array of aggregator slots, each with the round it is serving, the       *)
(* number of packets of that round, the running maximum of their norms and *)
(* the running sum of their vectors.  One receive thread handles a packet  *)
(* to completion before it takes the next (PS_RX_RING is 1).               *)
(*                                                                         *)
(* A vector is abstracted to whose it is: data_slots[s][w] lists the keys  *)
(* of worker w's packets whose vectors are in the sum, so a vector added   *)
(* twice, or a vector of another key, is visible.                          *)
(***************************************************************************)
EXTENDS Packets

CONSTANT TOTAL_AGTR_CNT    \* aggregator slots of the server

Slots == 0 .. TOTAL_AGTR_CNT - 1

VARIABLES
  roundNumbers,    \* slot -> round being aggregated
  receive_count,   \* slot -> packets of that round
  bitmap,          \* slot -> workers recorded since it was last cleared
  norm_info,       \* slot -> largest norm of the round
  data_slots       \* slot -> worker -> keys of its packets in the sum

psVars == <<roundNumbers, receive_count, bitmap, norm_info, data_slots>>

PsInit ==
  /\ roundNumbers  = [s \in Slots |-> 0]
  /\ receive_count = [s \in Slots |-> 0]
  /\ bitmap        = [s \in Slots |-> {}]
  /\ norm_info     = [s \in Slots |-> 0]
  /\ data_slots    = [s \in Slots |-> [w \in Worker |-> << >>]]

-----------------------------------------------------------------------------
(* RxThread.  A packet of a round the slot has left behind is dropped; a   *)
(* newer round takes the slot over; a packet of the current round is one   *)
(* more, and a count that is already full starts again.                    *)

\* Faulty variants: late packets are not dropped; the current round is late.
StaleNeverDropped(m) == FALSE
StaleAtCurrentRound(m) == m.round <= roundNumbers[m.agtr]

Stale(m) == m.round < roundNumbers[m.agtr]
Newer(m) == m.round > roundNumbers[m.agtr]

\* Faulty variants: a newer round keeps the count; the count never restarts.
CountIgnoringRound(m) ==
  IF receive_count[m.agtr] = NUM_WORKER THEN 1 ELSE receive_count[m.agtr] + 1
CountWithoutRestart(m) == receive_count[m.agtr] + 1

CountAfter(m) ==
  IF Newer(m) \/ receive_count[m.agtr] = NUM_WORKER
    THEN 1
    ELSE receive_count[m.agtr] + 1

\* Faulty variant: a newer round starts from the old maximum.
NormKeptAcrossRounds(m) ==
  IF norm_info[m.agtr] < m.norm THEN m.norm ELSE norm_info[m.agtr]

NormAfter(m) ==
  IF Newer(m) \/ norm_info[m.agtr] < m.norm THEN m.norm ELSE norm_info[m.agtr]

\* Faulty variant: the first vector of a round is added like the others.
process_data_always_adds(m) ==
  [data_slots[m.agtr] EXCEPT ![m.worker] = Append(@, m.key)]

\* process_data: the first vector of a round overwrites the slot, a later
\* one is added.
process_data(m) ==
  IF CountAfter(m) = 1
    THEN [w \in Worker |-> IF w = m.worker THEN <<m.key>> ELSE << >>]
    ELSE [data_slots[m.agtr] EXCEPT ![m.worker] = Append(@, m.key)]

DataAfter(m) ==
  IF m.cmd = TENSOR_COMM THEN process_data(m) ELSE data_slots[m.agtr]

Completes(m) == ~Stale(m) /\ CountAfter(m) = NUM_WORKER

\* broadcast_packet: the reply takes key, command and round from the packet
\* that completed the count, norm and data from the slot.
Reply(m) ==
  [agtr |-> m.agtr, round |-> m.round, key |-> m.key, cmd |-> m.cmd,
   norm |-> NormAfter(m), data |-> DataAfter(m)]

\* The slot state after packet m; the composition sends Reply(m) when
\* Completes(m).
PsReceive(m) ==
  IF Stale(m)
    THEN UNCHANGED psVars
    ELSE /\ roundNumbers'  = [roundNumbers  EXCEPT ![m.agtr] = m.round]
         /\ receive_count' = [receive_count EXCEPT ![m.agtr] = CountAfter(m)]
         /\ norm_info'     = [norm_info     EXCEPT ![m.agtr] = NormAfter(m)]
         /\ data_slots'    = [data_slots    EXCEPT ![m.agtr] = DataAfter(m)]
         /\ bitmap' = [bitmap EXCEPT ![m.agtr] =
                         IF Completes(m) THEN {} ELSE @ \cup {m.worker}]

=============================================================================
