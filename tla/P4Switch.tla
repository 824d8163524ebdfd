------------------------------ MODULE P4Switch -------------------------------
(***************************************************************************)
(* Aggregation on the switch itself (P4/atp.p4 and the files it includes): *)
(* the build without SW_PS.  A packet carries CIRC_TIME chunks of entries  *)
(* and passes the ingress pipeline CIRC_TIME times, each time with the     *)
(* next aggregator.  A pass is one step: the register actions of a packet  *)
(* take effect in the order in which packets enter the pipeline.           *)
(*                                                                         *)
(* A chunk is abstracted to whose gradients it is the sum of, as in        *)
(* DPDKManager; saturation of the 32-bit sums is left out.                 *)
(***************************************************************************)
EXTENDS Packets

CONSTANTS
  CIRC_TIME,              \* chunks of a packet, passes through the pipeline
  total_aggregator_cnt    \* registers of each array

ASSUME PassAssumption ==
  /\ CIRC_TIME \in Nat \ {0}
  /\ total_aggregator_cnt \in Nat

Registers == 0 .. total_aggregator_cnt - 1

VARIABLES
  roundNumbers,    \* register -> round being aggregated
  receive_count,   \* register -> packets of that round
  bitmap,          \* register -> workers recorded since it was last cleared
  norm_info,       \* register -> largest norm of the round
  register,        \* register -> sum of the chunks of the round
  recirculating    \* packets on the recirculation port, in order

registerVars == <<roundNumbers, receive_count, bitmap, norm_info, register>>
switchVars   == <<registerVars, recirculating>>

Empty == [w \in Worker |-> << >>]

SwitchInit ==
  /\ roundNumbers  = [a \in Registers |-> 0]
  /\ receive_count = [a \in Registers |-> 0]
  /\ bitmap        = [a \in Registers |-> {}]
  /\ norm_info     = [a \in Registers |-> 0]
  /\ register      = [a \in Registers |-> Empty]
  /\ recirculating = << >>

-----------------------------------------------------------------------------
(* One pass of packet m.  normal_check_roundNum distinguishes a round the  *)
(* register has left, a newer one, which takes it over, and its own.       *)

Stale(m) == m.round < roundNumbers[m.agtr]
Newer(m) == m.round > roundNumbers[m.agtr]

\* Faulty variant: a newer round goes on with the count of the old one.
CountKeptAcrossRounds(m) ==
  IF receive_count[m.agtr] = NUM_WORKER THEN 1 ELSE receive_count[m.agtr] + 1

\* reset_check_count and normal_incr_check_count: seen_isAggregate.
CountAfter(m) ==
  IF Newer(m) \/ receive_count[m.agtr] = NUM_WORKER
    THEN 1
    ELSE receive_count[m.agtr] + 1

\* set_norm and update_norm.
NormAfter(m) ==
  IF Newer(m) \/ norm_info[m.agtr] < m.norm THEN m.norm ELSE norm_info[m.agtr]

\* The entries the parser extracts: the first chunk, in every pass.
Entries(m) == m.vector[1]

\* ProcessData: the first chunk of a round is written, a later one added,
\* and the packet goes on with the sum.  Only gradient packets have entries.
RegisterAfter(m) ==
  IF m.packet_type # 0 THEN register[m.agtr]
  ELSE IF CountAfter(m) = 1 THEN Entries(m)
  ELSE [w \in Worker |-> register[m.agtr][w] \o Entries(m)[w]]

VectorAfter(m) ==
  IF m.packet_type # 0 THEN m.vector
  ELSE [m.vector EXCEPT ![1] = RegisterAfter(m)]

\* Faulty variants: one pass too many; a packet that leaves is always sent.
OnePassTooMany(m) == m.recirc_time = CIRC_TIME
CompletesAtAnyCount(m) == ~Stale(m) /\ m.recirc_time = CIRC_TIME - 1

LastPass(m)  == m.recirc_time = CIRC_TIME - 1
Completes(m) == ~Stale(m) /\ LastPass(m) /\ CountAfter(m) = NUM_WORKER
Recirculates(m) == ~Stale(m) /\ ~LastPass(m)

Aggregated(m) == [m EXCEPT !.norm = NormAfter(m), !.vector = VectorAfter(m)]

\* Sent around once more, to the next aggregator.
NextPass(m) == [Aggregated(m) EXCEPT !.agtr = @ + 1, !.recirc_time = @ + 1]

\* Route: a late packet is sent on with round 0 and its entries zeroed.
Zeroed(m) == [m EXCEPT !.round = 0, !.vector = [@ EXCEPT ![1] = Empty]]

\* The registers after m, and the recirculation port if rest are the packets
\* on it besides m.  The composition multicasts Aggregated(m) when
\* Completes(m) and routes Zeroed(m) when Stale(m).
SwitchPass(m, rest) ==
  /\ recirculating' = IF Recirculates(m) THEN Append(rest, NextPass(m)) ELSE rest
  /\ IF Stale(m)
       THEN UNCHANGED registerVars
       ELSE /\ roundNumbers'  = [roundNumbers  EXCEPT ![m.agtr] = m.round]
            /\ receive_count' = [receive_count EXCEPT ![m.agtr] = CountAfter(m)]
            /\ norm_info'     = [norm_info     EXCEPT ![m.agtr] = NormAfter(m)]
            /\ register'      = [register      EXCEPT ![m.agtr] = RegisterAfter(m)]
            /\ bitmap' = [bitmap EXCEPT ![m.agtr] =
                            IF Completes(m) THEN {}
                            ELSE IF LastPass(m) THEN @ \cup {m.worker}
                            ELSE @]

=============================================================================
