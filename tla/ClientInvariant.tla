-------------------------- MODULE ClientInvariant ----------------------------
(***************************************************************************)
(* The part of the inductive invariants that is about the DPDK client      *)
(* alone, whoever aggregates: the software server (IncaInvariant) or the   *)
(* switch (SwitchInvariant).                                               *)
(***************************************************************************)
EXTENDS DPDKManager

ClientTypes ==
  /\ PushTypes
  /\ SlotTypes
  /\ PartTypes
  /\ pushpulljobQueue \in [Worker -> Seq(Job)]
  /\ resetting \in [Worker -> {-1} \cup Agtr]

\* Position in the order of all packets of the one slot s sends in round r,
\* and the key it carries.
Position(s, r) == s + MAX_AGTR_COUNT * r
KeyAt(s, r) == Position(s, r) % DPDK_KEY_TOTAL

\* The command of the packet at position n.
CmdOf(n) ==
  Program[CHOOSE t \in Task :
            Program[t].first <= n /\ n < Program[t].first + Program[t].parts].cmd

\* How many of the counter values 0 .. n-1 belong to slot s.
Sent(n, s) == (n \div MAX_AGTR_COUNT) + (IF s < n % MAX_AGTR_COUNT THEN 1 ELSE 0)

\* Counter value of the job at the head of the queue: all before it have left.
Front(w) == dpdkKey[w] - Len(pushpulljobQueue[w])

\* Packets of the first n tasks.
PacketsOf(n) == IF n = 0 THEN 0 ELSE Program[n].first + Program[n].parts

\* The running call has drawn all keys of its task but the ones left.
PushInv ==
  \A w \in Worker :
    /\ dpdkKey[w] + pushing[w].left = PacketsOf(pushed[w])
    /\ pushing[w].left > 0 =>
         /\ pushed[w] # 0
         /\ pushing[w].left <= Program[pushed[w]].parts
         /\ pushing[w].cmd = Program[pushed[w]].cmd

\* The queue holds the last keys drawn from the counter, in order.
QueueInv ==
  \A w \in Worker :
    /\ Front(w) \in Nat
    /\ \A i \in 1 .. Len(pushpulljobQueue[w]) :
         /\ pushpulljobQueue[w][i].key = (Front(w) + i - 1) % DPDK_KEY_TOTAL
         /\ pushpulljobQueue[w][i].cmd = CmdOf(Front(w) + i - 1)

\* The round of a slot counts the packets sent through it, without the one
\* that is outstanding; that one is the slot's key.
SlotInv ==
  \A w \in Worker, s \in Agtr :
    /\ slot_roundnum[w][s] + (IF slot_ready[w][s] THEN 0 ELSE 1) = Sent(Front(w), s)
    /\ ~slot_ready[w][s] => slot_dpdk_key[w][s] = KeyAt(s, slot_roundnum[w][s])

\* The client draws, queues and sends its packets in one order, and a slot's
\* round counts the packets that left through it.
ClientInv == PushInv /\ QueueInv /\ SlotInv

=============================================================================
