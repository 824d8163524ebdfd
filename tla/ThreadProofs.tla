---------------------------- MODULE ThreadProofs -----------------------------
(***************************************************************************)
(* While no timeout occurs the lock-free RxThread implements the atomic    *)
(* RxPacket of IncaSystem, for every set of workers, program, number of    *)
(* slots and number of keys that satisfies the assumptions.                *)
(***************************************************************************)
EXTENDS IncaThreads, TLAPS

\* The theorems about IncaSystem, for the state that RxThread shows.
Sys == INSTANCE IncaProofs WITH
  slot_roundnum <- atomic_roundnum,
  slot_ready <- atomic_ready,
  slot_dpdk_key <- atomic_dpdk_key,
  tensor_key_part_finish <- atomic_part_finish,
  cpubuff_table <- atomic_cpubuff,
  toWorker <- atomic_toWorker

-----------------------------------------------------------------------------
(* What RxThread holds while it is working on a reply.                     *)

RxPc == {"poll", "round", "copy", "load", "store", "compare", "ready", "key"}

\* Only the pc of a polling thread is set; the rest of its record is dead.
Working == [pc : RxPc \ {"poll"}, reply : ReplyPacket, count : Nat, before : Vector]

ThreadTypeOK ==
  /\ rx \in [Worker -> Working \cup {Idle}]
  /\ slot_roundnum \in [Worker -> [Agtr -> Nat]]
  /\ slot_ready    \in [Worker -> [Agtr -> BOOLEAN]]
  /\ slot_dpdk_key \in [Worker -> [Agtr -> Key]]
  /\ tensor_key_part_finish \in [Worker -> [Key -> Nat]]
  /\ cpubuff_table \in [Worker -> [Key -> Vector]]
  /\ toWorker \subseteq Worker \X ReplyPacket
  /\ resetting = [w \in Worker |-> -1]

\* The buffer of the reply's key once the sum is copied.
Copied(w) == IF rx[w].reply.cmd = TENSOR_COMM /\ ~NO_CPUBUFF_COPY
               THEN rx[w].reply.data ELSE rx[w].before

\* An accepted reply is no longer on its way, its slot stays occupied, nobody
\* else writes the slot's round, the key's buffer or the part counter.
RxInv(w) ==
  LET r == rx[w].reply
      n == slot_roundnum[w][r.agtr]
      b == cpubuff_table[w][r.key]
      c == tensor_key_part_finish[w][Counter(w)]
  IN  /\ Accepted(w) => <<w, r>> \notin toWorker /\ ~slot_ready[w][r.agtr]
      /\ At(w, "ready") => ~slot_ready[w][r.agtr]
      /\ At(w, "round") => n = r.round
      /\ At(w, "copy") \/ At(w, "load") \/ At(w, "store") \/ At(w, "compare") => n = r.round + 1
      /\ At(w, "round") \/ At(w, "copy") => b = rx[w].before
      /\ At(w, "load") \/ At(w, "store") \/ At(w, "compare") => b = Copied(w)
      /\ At(w, "store") => rx[w].count = c + 1
      /\ At(w, "compare") => rx[w].count = c /\ c > 0

SysInv == Sys!TypeOK /\ Sys!IndInv /\ Sys!FinishInv /\ Sys!AnsweredInv

ThreadInv == SysInv /\ ThreadTypeOK /\ \A w \in Worker : RxInv(w)

-----------------------------------------------------------------------------
(* The instance: its operators are those of IncaSystem, and its theorems   *)
(* hold of the state that RxThread shows.                                  *)

LEMMA SysOperators ==
  /\ Sys!PushCmd = PushCmd /\ Sys!TENSOR_COMM = TENSOR_COMM
  /\ Sys!Agtr = Agtr /\ Sys!Key = Key /\ Sys!Task = Task /\ Sys!Job = Job /\ Sys!NoPacket = NoPacket
  /\ Sys!Vector = Vector /\ Sys!ReplyPacket = ReplyPacket
  /\ \A k : Sys!AgtrOf(k) = AgtrOf(k)
  /\ \A s, r : Sys!KeyAt(s, r) = KeyAt(s, r)
  /\ \A w, k : Sys!Gradient(w, k) = Gradient(w, k)
  /\ \A S : Sys!IsFiniteSet(S) <=> IsFiniteSet(S)
  <1>1. /\ Sys!PushCmd = PushCmd /\ Sys!TENSOR_COMM = TENSOR_COMM
        /\ Sys!Agtr = Agtr /\ Sys!Key = Key /\ Sys!Task = Task /\ Sys!NoPacket = NoPacket
    BY DEF Sys!PushCmd, PushCmd, Sys!TENSOR_COMM, TENSOR_COMM, Sys!TENSOR_INIT, TENSOR_INIT,
           Sys!Agtr, Agtr, Sys!Key, Key, Sys!Task, Task, Sys!NoPacket, NoPacket
  <1>2. Sys!Job = Job /\ Sys!Vector = Vector
    BY <1>1 DEF Sys!Job, Job, Sys!Vector, Vector
  <1>3. Sys!ReplyPacket = ReplyPacket
    BY <1>1, <1>2 DEF Sys!ReplyPacket, ReplyPacket
  <1>4. /\ \A k : Sys!AgtrOf(k) = AgtrOf(k)
        /\ \A s, r : Sys!KeyAt(s, r) = KeyAt(s, r)
        /\ \A w, k : Sys!Gradient(w, k) = Gradient(w, k)
    BY DEF Sys!AgtrOf, AgtrOf, Sys!KeyAt, KeyAt, Sys!Position, Position, Sys!Gradient, Gradient
  <1>5. \A S : Sys!IsFiniteSet(S) <=> IsFiniteSet(S)
    BY DEF Sys!IsFiniteSet, IsFiniteSet
  <1> QED BY <1>1, <1>2, <1>3, <1>4, <1>5

LEMMA SysAssumptions ==
  /\ Sys!IsFiniteSet(Worker) /\ Worker # {}
  /\ MAX_AGTR_COUNT \in Nat \ {0}
  /\ NO_CPUBUFF_COPY \in BOOLEAN
  /\ DPDK_KEY_TOTAL \in Nat \ {0} /\ DPDK_KEY_TOTAL % MAX_AGTR_COUNT = 0
  /\ Program \in Seq([first : Nat, parts : Nat \ {0}, cmd : Sys!PushCmd])
  /\ \A t \in 1 .. Len(Program) :
       Program[t].first =
         IF t = 1 THEN 0 ELSE Program[t - 1].first + Program[t - 1].parts
  /\ \A t, u \in 1 .. Len(Program) :
       t < u => Program[t].first + Program[t].parts <= Program[u].first
  /\ \A t \in 1 .. Len(Program) : Program[t].parts <= DPDK_KEY_TOTAL
  /\ TOTAL_AGTR_CNT \in Nat /\ MAX_AGTR_COUNT <= TOTAL_AGTR_CNT
  BY WorkerAssumption, SlotAssumption, BuildAssumption, KeyAssumption, ProgramAssumption,
     PartsAssumption, ServerAssumption, SysOperators

LEMMA InitSysInv == Sys!Init => SysInv
  BY SysAssumptions, Sys!InitTypeOK, Sys!InitIndInv, Sys!InitFinish, Sys!InitAnswered DEF SysInv

LEMMA NextSysInv == SysInv /\ [Sys!Next]_(Sys!vars) => SysInv'
  BY SysAssumptions, Sys!NextTypeOK, Sys!NextIndInv, Sys!NextFinish, Sys!NextAnswered DEF SysInv

-----------------------------------------------------------------------------
(* Reading the invariant.                                                  *)

LEMMA ShownTypes ==
  ASSUME SysInv
  PROVE  /\ pushed \in [Worker -> 0 .. Len(Program)]
         /\ pushing \in [Worker -> [left : Nat, idx : Key, cmd : PushCmd]]
         /\ dpdkKey \in [Worker -> Nat]
         /\ curr_mutex_idx \in [Worker -> Key]
         /\ dpdk_key_to_tensor_key \in [Worker -> [Key -> 0 .. Len(Program)]]
         /\ dpdk_key_to_mutex_idx \in [Worker -> [Key -> Key]]
         /\ tensor_key_part_total \in [Worker -> [Key -> Nat]]
         /\ pushpulljobQueue \in [Worker -> Seq(Job)]
         /\ finishKeys \in [Worker -> Seq(0 .. Len(Program))]
         /\ atomic_toWorker \subseteq Worker \X ReplyPacket
  BY SysOperators DEF SysInv, Sys!TypeOK, Sys!PushTypes, Sys!PartTypes, Sys!ThreadTypes,
     Sys!NetworkTypes

LEMMA WorkingTypes ==
  ASSUME ThreadTypeOK, NEW w \in Worker, ~At(w, "poll")
  PROVE  /\ rx[w] \in Working
         /\ rx[w].reply \in ReplyPacket
         /\ rx[w].reply.agtr \in Agtr /\ rx[w].reply.key \in Key /\ rx[w].reply.round \in Nat
         /\ rx[w].reply.data \in Vector /\ rx[w].before \in Vector /\ rx[w].count \in Nat
  <1>1. rx[w] \in Working
    BY DEF ThreadTypeOK, At, Idle
  <1>2. rx[w].reply \in ReplyPacket /\ rx[w].before \in Vector /\ rx[w].count \in Nat
    BY <1>1 DEF Working
  <1> QED BY <1>1, <1>2 DEF ReplyPacket

\* The reply RxThread works on is, as far as the others can see, under way,
\* and its key is the outstanding key of its slot.
LEMMA HeldReply ==
  ASSUME ThreadInv, NEW w \in Worker, Accepted(w)
  PROVE  /\ <<w, rx[w].reply>> \in atomic_toWorker
         /\ rx[w].reply.key = KeyAt(rx[w].reply.agtr, rx[w].reply.round)
         /\ atomic_roundnum[w][rx[w].reply.agtr] = rx[w].reply.round
         /\ ~atomic_ready[w][rx[w].reply.agtr]
         /\ atomic_dpdk_key[w][rx[w].reply.agtr] = rx[w].reply.key
         /\ rx[w].reply.key \in Sys!OutstandingKeys(w)
  <1> DEFINE r == rx[w].reply
  <1>1. ~At(w, "poll") /\ ~At(w, "ready")
    BY DEF Accepted, At
  <1>2. r.agtr \in Agtr
    BY <1>1, WorkingTypes DEF ThreadInv
  <1>3. <<w, r>> \in atomic_toWorker
    BY DEF atomic_toWorker
  <1>4. r.key = KeyAt(r.agtr, r.round)
    BY <1>3, SysOperators DEF ThreadInv, SysInv, Sys!IndInv, Sys!ReplyInv
  <1>5. atomic_roundnum[w][r.agtr] = r.round
    BY <1>2 DEF atomic_roundnum
  <1>6. ~atomic_ready[w][r.agtr]
    BY <1>1, <1>2 DEF atomic_ready, ThreadInv, RxInv
  <1>7. atomic_dpdk_key[w][r.agtr] = r.key
    BY <1>2, <1>4, <1>5, <1>6 DEF atomic_dpdk_key
  <1>8. r.key \in Sys!OutstandingKeys(w)
    BY <1>2, <1>6, <1>7, SysOperators DEF Sys!OutstandingKeys, Sys!BusySlots
  <1> QED BY <1>3, <1>4, <1>5, <1>6, <1>7, <1>8

\* The push loop draws another key, and DPDKPushPull takes another counter.
LEMMA HeldKeyNotDrawn ==
  ASSUME ThreadInv, NEW w \in Worker, Accepted(w), pushing[w].left > 0
  PROVE  rx[w].reply.key # dpdkKey[w] % DPDK_KEY_TOTAL
  <1>1. pushing[w].left \in Nat /\ dpdkKey[w] \in Nat
    BY ShownTypes DEF ThreadInv
  <1>2. Sys!KeysFree(w, pushing[w].left)
    BY DEF ThreadInv, SysInv, Sys!FinishInv, Sys!KeysInv
  <1>3. 0 \in 0 .. pushing[w].left - 1 /\ dpdkKey[w] + 0 = dpdkKey[w]
    BY <1>1
  <1>4. dpdkKey[w] % DPDK_KEY_TOTAL \notin Sys!OutstandingKeys(w)
    BY <1>2, <1>3 DEF Sys!KeysFree
  <1> QED BY <1>4, HeldReply

LEMMA HeldCounterNotTaken ==
  ASSUME ThreadInv, NEW w \in Worker, Accepted(w), PushTask(w)
  PROVE  Counter(w) # curr_mutex_idx[w]
  <1> DEFINE k == rx[w].reply.key
             t == dpdk_key_to_tensor_key[w][k]
             m == Program[pushed[w] + 1].parts
  <1>1. /\ pushed[w] \in 0 .. Len(Program) /\ pushed[w] < Len(Program) /\ pushing[w].left = 0
        /\ dpdkKey[w] \in Nat
    BY ShownTypes DEF ThreadInv, PushTask, DPDKPushPull
  <1>2. m \in Nat \ {0}
    <2>1. Len(Program) \in Nat /\ \A u \in 1 .. Len(Program) : Program[u].parts \in Nat \ {0}
      BY SysAssumptions, Sys!ProgramTypes
    <2>2. pushed[w] + 1 \in 1 .. Len(Program)
      BY <1>1, <2>1
    <2> QED BY <2>1, <2>2
  <1>3. Sys!KeysFree(w, m)
    BY DEF PushTask, Atomic!KeysFree, Sys!KeysFree, Atomic!OutstandingKeys, Sys!OutstandingKeys,
           Atomic!BusySlots, Sys!BusySlots, Atomic!Agtr, Sys!Agtr
  <1>4. Sys!TableInv(w) /\ Sys!PartInv(w)
    BY DEF ThreadInv, SysInv, Sys!FinishInv
  <1>5. /\ t \in 1 .. pushed[w] /\ dpdk_key_to_mutex_idx[w][k] = Sys!MutexOf(t)
        /\ \E n \in 1 .. DPDK_KEY_TOTAL :
             /\ n <= dpdkKey[w]
             /\ k = (dpdkKey[w] - n) % DPDK_KEY_TOTAL
             /\ Sys!DrawnTasks(w) - t < n
    BY <1>4, HeldReply DEF Sys!TableInv
  <1>6. PICK n \in 1 .. DPDK_KEY_TOTAL :
             /\ n <= dpdkKey[w]
             /\ k = (dpdkKey[w] - n) % DPDK_KEY_TOTAL
             /\ Sys!DrawnTasks(w) - t < n
    BY <1>5
  <1>7. n < DPDK_KEY_TOTAL
    BY <1>2, <1>3, <1>6, HeldReply, Sys!NotYetRound, SysAssumptions DEF ThreadInv, SysInv
  <1>8. pushed[w] - t < n
    BY <1>1, <1>6 DEF Sys!DrawnTasks
  <1>9. curr_mutex_idx[w] = pushed[w] % DPDK_KEY_TOTAL
    BY <1>4 DEF Sys!PartInv
  <1>10. (t - 1) % DPDK_KEY_TOTAL # pushed[w] % DPDK_KEY_TOTAL
    <2>1. t \in 1 .. pushed[w] /\ pushed[w] \in Nat /\ pushed[w] - (t - 1) < DPDK_KEY_TOTAL
      BY <1>1, <1>5, <1>6, <1>7, <1>8, KeyAssumption
    <2>2. t - 1 \in Nat /\ t - 1 < pushed[w] /\ pushed[w] < t - 1 + DPDK_KEY_TOTAL
      BY <2>1, KeyAssumption
    <2>3. DPDK_KEY_TOTAL \in Nat \ {0}
      BY KeyAssumption
    <2>4. \A M \in Nat \ {0}, a \in Nat, b \in Nat : a < b /\ b - a < M => a % M # b % M
      BY SysAssumptions, Sys!ModDistinct
    <2> QED BY <2>1, <2>2, <2>3, <2>4
  <1> QED BY <1>5, <1>9, <1>10 DEF Counter, Sys!MutexOf

-----------------------------------------------------------------------------
(* Steps of RxThread up to the comparison, and after it: nothing shows.    *)

LEMMA RxMoves ==
  ASSUME ThreadTypeOK, NEW w \in Worker, ~At(w, "poll"), NEW pc \in RxPc \ {"poll"}, NEW n \in Nat,
         rx' = [rx EXCEPT ![w].pc = pc, ![w].count = n]
  PROVE  /\ rx' \in [Worker -> Working \cup {Idle}]
         /\ rx'[w].pc = pc /\ rx'[w].reply = rx[w].reply
         /\ rx'[w].count = n /\ rx'[w].before = rx[w].before
         /\ \A v \in Worker : v # w => rx'[v] = rx[v]
  <1>1. rx[w] \in Working /\ rx \in [Worker -> Working \cup {Idle}]
    BY WorkingTypes DEF ThreadTypeOK
  <1>2. rx' = [rx EXCEPT ![w] = [rx[w] EXCEPT !.pc = pc, !.count = n]]
    OBVIOUS
  <1>3. [rx[w] EXCEPT !.pc = pc, !.count = n] \in Working
    BY <1>1 DEF Working
  <1>4. /\ [rx[w] EXCEPT !.pc = pc, !.count = n].pc = pc
        /\ [rx[w] EXCEPT !.pc = pc, !.count = n].reply = rx[w].reply
        /\ [rx[w] EXCEPT !.pc = pc, !.count = n].count = n
        /\ [rx[w] EXCEPT !.pc = pc, !.count = n].before = rx[w].before
    BY <1>1 DEF Working
  <1> HIDE DEF Working
  <1> QED BY <1>1, <1>2, <1>3, <1>4

LEMMA RxGoes ==
  ASSUME ThreadTypeOK, NEW w \in Worker, ~At(w, "poll"), NEW pc \in RxPc \ {"poll"}, GoTo(w, pc)
  PROVE  /\ rx' \in [Worker -> Working \cup {Idle}]
         /\ rx'[w].pc = pc /\ rx'[w].reply = rx[w].reply
         /\ rx'[w].count = rx[w].count /\ rx'[w].before = rx[w].before
         /\ \A v \in Worker : v # w => rx'[v] = rx[v]
  <1>1. rx[w] \in Working /\ rx[w].count \in Nat /\ rx \in [Worker -> Working \cup {Idle}]
    BY WorkingTypes DEF ThreadTypeOK
  <1>2. [rx[w] EXCEPT !.pc = pc] = [rx[w] EXCEPT !.pc = pc, !.count = rx[w].count]
    BY <1>1 DEF Working
  <1>3. rx' = [rx EXCEPT ![w].pc = pc, ![w].count = rx[w].count]
    BY <1>2 DEF GoTo
  <1> QED BY <1>1, <1>3, RxMoves

\* A worker whose memory is left alone keeps what its RxThread relies on.
LEMMA RxInvFrame ==
  ASSUME NEW v \in Worker, RxInv(v), toWorker' \subseteq toWorker,
         UNCHANGED <<rx[v], slot_roundnum[v], slot_ready[v], cpubuff_table[v],
                     tensor_key_part_finish[v], dpdk_key_to_mutex_idx[v]>>
  PROVE  RxInv(v)'
  BY DEF RxInv, Accepted, At, Copied, Counter

LEMMA NothingShown ==
  ASSUME UNCHANGED <<atomic_roundnum, atomic_ready, atomic_dpdk_key, atomic_part_finish,
                     atomic_cpubuff, atomic_toWorker, finishKeys, RxElse>>
  PROVE  UNCHANGED Sys!vars
  BY DEF Sys!vars, Sys!clientVars, Sys!pushVars, Sys!slotVars, Sys!partVars, Sys!psVars, RxElse,
         pushVars, psVars

RxNothingShows == ThreadTypeOK' /\ (\A v \in Worker : RxInv(v)') /\ UNCHANGED Sys!vars

LEMMA RxRoundStep ==
  ASSUME ThreadInv, NEW w \in Worker, RxRound(w)
  PROVE  RxNothingShows
  <1> USE DEF At
  <1>1. ~At(w, "poll") /\ Accepted(w) /\ GoTo(w, "copy") /\ "copy" \in RxPc \ {"poll"} /\ ThreadTypeOK
    BY DEF RxRound, Accepted, RxPc, ThreadInv
  <1>2. /\ rx' \in [Worker -> Working \cup {Idle}]
        /\ rx'[w].pc = "copy" /\ rx'[w].reply = rx[w].reply
        /\ rx'[w].count = rx[w].count /\ rx'[w].before = rx[w].before
        /\ \A v \in Worker : v # w => rx'[v] = rx[v]
    BY <1>1, RxGoes
  <1> DEFINE s == rx[w].reply.agtr
             n == rx[w].reply.round + 1
  <1>3. s \in Agtr /\ rx[w].reply.round \in Nat
    BY <1>1, WorkingTypes
  <1>4. /\ slot_roundnum' = [slot_roundnum EXCEPT ![w][s] = n]
        /\ UNCHANGED <<slot_ready, slot_dpdk_key, tensor_key_part_finish, finishKeys, cpubuff_table,
                       toWorker, RxElse, resetting, dpdk_key_to_mutex_idx>>
    BY DEF RxRound, partVars, RxElse, pushVars
  <1>5. slot_roundnum \in [Worker -> [Agtr -> Nat]]
    BY <1>1 DEF ThreadTypeOK
  <1>6. ThreadTypeOK'
    BY <1>1, <1>2, <1>3, <1>4, <1>5 DEF ThreadTypeOK
  <1>7. ASSUME NEW v \in Worker PROVE RxInv(v)'
    <2>1. CASE v = w
      BY <1>1, <1>2, <1>3, <1>4, <1>5, <2>1 DEF ThreadInv, RxInv, Accepted, Counter, RxRound
    <2>2. CASE v # w
      BY <1>2, <1>4, <1>5, <2>2, RxInvFrame DEF ThreadInv, pushVars
    <2> QED BY <2>1, <2>2
  <1>8. atomic_roundnum' = atomic_roundnum
    BY <1>1, <1>2, <1>3, <1>4, <1>5 DEF atomic_roundnum, Accepted, RxRound
  <1>9. atomic_ready' = atomic_ready
    BY <1>1, <1>2, <1>4 DEF atomic_ready, RxRound
  <1>10. atomic_dpdk_key' = atomic_dpdk_key
    BY <1>8, <1>9 DEF atomic_dpdk_key
  <1>11. atomic_part_finish' = atomic_part_finish
    BY <1>1, <1>2, <1>4 DEF atomic_part_finish, Counter, RxRound, pushVars
  <1>12. atomic_cpubuff' = atomic_cpubuff
    BY <1>1, <1>2, <1>4 DEF atomic_cpubuff, RxRound
  <1>13. atomic_toWorker' = atomic_toWorker
    BY <1>1, <1>2, <1>4 DEF atomic_toWorker, Accepted
  <1>14. UNCHANGED Sys!vars
    BY <1>4, <1>8, <1>9, <1>10, <1>11, <1>12, <1>13, NothingShown DEF RxElse
  <1> QED BY <1>6, <1>7, <1>14 DEF RxNothingShows

LEMMA RxCopyStep ==
  ASSUME ThreadInv, NEW w \in Worker, RxCopy(w)
  PROVE  RxNothingShows
  <1> USE DEF At
  <1>1. /\ ~At(w, "poll") /\ "load" \in RxPc \ {"poll"} /\ ThreadTypeOK
        /\ GoTo(w, "load")
    BY DEF RxCopy, RxPc, ThreadInv
  <1>2. /\ rx' \in [Worker -> Working \cup {Idle}]
        /\ rx'[w].pc = "load" /\ rx'[w].reply = rx[w].reply
        /\ rx'[w].count = rx[w].count /\ rx'[w].before = rx[w].before
        /\ \A v \in Worker : v # w => rx'[v] = rx[v]
    BY <1>1, RxGoes
  <1> DEFINE r == rx[w].reply
  <1>3. /\ r.agtr \in Agtr /\ r.key \in Key /\ r.round \in Nat
        /\ r.data \in Vector /\ rx[w].count \in Nat
    BY <1>1, WorkingTypes
  <1>4. /\ cpubuff_table' = [cpubuff_table EXCEPT ![w][r.key] =
                              IF r.cmd = TENSOR_COMM /\ ~NO_CPUBUFF_COPY THEN r.data ELSE @]
        /\ UNCHANGED <<slot_roundnum, slot_ready, slot_dpdk_key, tensor_key_part_finish, finishKeys,
                       toWorker, RxElse, resetting, dpdk_key_to_mutex_idx>>
    BY DEF RxCopy, partVars, slotVars, RxElse, pushVars
  <1>5. cpubuff_table \in [Worker -> [Key -> Vector]]
    BY <1>1 DEF ThreadTypeOK
  <1>6. ThreadTypeOK'
    BY <1>1, <1>2, <1>3, <1>4, <1>5 DEF ThreadTypeOK
  <1>7. ASSUME NEW v \in Worker PROVE RxInv(v)'
    <2>1. CASE v = w
      BY <1>1, <1>2, <1>3, <1>4, <1>5, <2>1 DEF ThreadInv, RxInv, Accepted, Counter, Copied, RxCopy
    <2>2. CASE v # w
      BY <1>2, <1>4, <1>5, <2>2, RxInvFrame DEF ThreadInv
    <2> QED BY <2>1, <2>2
  <1>8. atomic_roundnum' = atomic_roundnum
    BY <1>1, <1>2, <1>3, <1>4, <1>5 DEF atomic_roundnum, Accepted, RxCopy
  <1>9. atomic_ready' = atomic_ready
    BY <1>1, <1>2, <1>3, <1>4, <1>5 DEF atomic_ready, RxCopy
  <1>10. atomic_dpdk_key' = atomic_dpdk_key
    BY <1>8, <1>9 DEF atomic_dpdk_key
  <1>11. atomic_part_finish' = atomic_part_finish
    BY <1>1, <1>2, <1>3, <1>4, <1>5 DEF atomic_part_finish, Counter, RxCopy
  <1>12. atomic_cpubuff' = atomic_cpubuff
    <2>1. cpubuff_table[w][r.key] = rx[w].before
      BY DEF ThreadInv, RxInv, RxCopy
    <2>2. \A k \in Key : k # r.key => cpubuff_table'[w][k] = cpubuff_table[w][k]
      BY <1>3, <1>4, <1>5
    <2>3. \A v \in Worker : v # w => cpubuff_table'[v] = cpubuff_table[v]
      BY <1>4, <1>5
    <2>4. rx[w].pc = "copy"
      BY DEF RxCopy
    <2> QED BY <1>2, <1>3, <2>1, <2>2, <2>3, <2>4 DEF atomic_cpubuff
  <1>13. atomic_toWorker' = atomic_toWorker
    BY <1>1, <1>2, <1>4 DEF atomic_toWorker, Accepted, RxCopy
  <1>14. UNCHANGED Sys!vars
    BY <1>4, <1>8, <1>9, <1>10, <1>11, <1>12, <1>13, NothingShown DEF RxElse
  <1> QED BY <1>6, <1>7, <1>14 DEF RxNothingShows

LEMMA RxStoreStep ==
  ASSUME ThreadInv, NEW w \in Worker, RxStore(w)
  PROVE  RxNothingShows
  <1> USE DEF At
  <1>1. /\ ~At(w, "poll") /\ "compare" \in RxPc \ {"poll"} /\ ThreadTypeOK
        /\ GoTo(w, "compare")
    BY DEF RxStore, RxPc, ThreadInv
  <1>2. /\ rx' \in [Worker -> Working \cup {Idle}]
        /\ rx'[w].pc = "compare" /\ rx'[w].reply = rx[w].reply
        /\ rx'[w].count = rx[w].count /\ rx'[w].before = rx[w].before
        /\ \A v \in Worker : v # w => rx'[v] = rx[v]
    BY <1>1, RxGoes
  <1> DEFINE r == rx[w].reply
  <1>3. /\ r.agtr \in Agtr /\ r.key \in Key /\ r.round \in Nat
        /\ r.data \in Vector /\ rx[w].count \in Nat
    BY <1>1, WorkingTypes
  <1>4. /\ tensor_key_part_finish' = [tensor_key_part_finish EXCEPT ![w][Counter(w)] = rx[w].count]
        /\ UNCHANGED <<slot_roundnum, slot_ready, slot_dpdk_key, cpubuff_table, finishKeys,
                       toWorker, RxElse, resetting, dpdk_key_to_mutex_idx>>
    BY DEF RxStore, partVars, slotVars, RxElse, pushVars
  <1>5. /\ tensor_key_part_finish \in [Worker -> [Key -> Nat]]
        /\ dpdk_key_to_mutex_idx \in [Worker -> [Key -> Key]]
    BY <1>1, ShownTypes DEF ThreadTypeOK, ThreadInv
  <1>6. ThreadTypeOK'
    BY <1>1, <1>2, <1>3, <1>4, <1>5 DEF ThreadTypeOK, Counter
  <1>7. ASSUME NEW v \in Worker PROVE RxInv(v)'
    <2>1. CASE v = w
      BY <1>1, <1>2, <1>3, <1>4, <1>5, <2>1 DEF ThreadInv, RxInv, Accepted, Counter, Copied, RxStore
    <2>2. CASE v # w
      BY <1>2, <1>4, <1>5, <2>2, RxInvFrame DEF ThreadInv
    <2> QED BY <2>1, <2>2
  <1>8. atomic_roundnum' = atomic_roundnum
    BY <1>1, <1>2, <1>3, <1>4, <1>5 DEF atomic_roundnum, Accepted, RxStore
  <1>9. atomic_ready' = atomic_ready
    BY <1>1, <1>2, <1>3, <1>4, <1>5 DEF atomic_ready, RxStore
  <1>10. atomic_dpdk_key' = atomic_dpdk_key
    BY <1>8, <1>9 DEF atomic_dpdk_key
  <1>11. atomic_part_finish' = atomic_part_finish
    <2>1. rx[w].count - 1 = tensor_key_part_finish[w][Counter(w)] /\ Counter(w) \in Key
      <3>1. rx[w].pc = "store" /\ RxInv(w)
        BY DEF RxStore, ThreadInv
      <3>2. Counter(w) \in Key
        BY <1>3, <1>5 DEF Counter
      <3>3. rx[w].count = tensor_key_part_finish[w][Counter(w)] + 1
        BY <3>1 DEF RxInv
      <3> QED BY <1>5, <3>2, <3>3
    <2>2. \A i \in Key :
            tensor_key_part_finish'[w][i] = IF i = Counter(w) THEN rx[w].count
                                                              ELSE tensor_key_part_finish[w][i]
      BY <1>4, <1>5, <2>1
    <2>3. \A v \in Worker : v # w => tensor_key_part_finish'[v] = tensor_key_part_finish[v]
      BY <1>4, <1>5
    <2>4. rx[w].pc = "store" /\ Counter(w)' = Counter(w)
      BY <1>2, <1>4 DEF RxStore, Counter
    <2>5. \A v \in Worker : v # w => Counter(v)' = Counter(v)
      BY <1>2, <1>4 DEF Counter
    <2>6. ASSUME NEW i \in Key PROVE atomic_part_finish'[w][i] = atomic_part_finish[w][i]
      <3>1. CASE i = Counter(w)
        <4>1. atomic_part_finish'[w][i] = rx[w].count - 1
          BY <1>2, <2>1, <2>2, <2>4, <3>1 DEF atomic_part_finish
        <4>2. atomic_part_finish[w][i] = tensor_key_part_finish[w][i] - 0
          BY <2>1, <2>4, <3>1 DEF atomic_part_finish
        <4> QED BY <1>5, <2>1, <3>1, <4>1, <4>2
      <3>2. CASE i # Counter(w)
        BY <1>2, <2>1, <2>2, <2>4, <3>2 DEF atomic_part_finish
      <3> QED BY <3>1, <3>2
    <2>7. ASSUME NEW v \in Worker, v # w PROVE atomic_part_finish'[v] = atomic_part_finish[v]
      BY <1>2, <2>3, <2>5, <2>7 DEF atomic_part_finish
    <2> QED BY <2>6, <2>7 DEF atomic_part_finish
  <1>12. atomic_cpubuff' = atomic_cpubuff
    BY <1>1, <1>2, <1>3, <1>4, <1>5 DEF atomic_cpubuff, ThreadInv, RxInv, RxStore
  <1>13. atomic_toWorker' = atomic_toWorker
    BY <1>1, <1>2, <1>4 DEF atomic_toWorker, Accepted, RxStore
  <1>14. UNCHANGED Sys!vars
    BY <1>4, <1>8, <1>9, <1>10, <1>11, <1>12, <1>13, NothingShown DEF RxElse
  <1> QED BY <1>6, <1>7, <1>14 DEF RxNothingShows

LEMMA RxReadyStep ==
  ASSUME ThreadInv, NEW w \in Worker, RxReady(w)
  PROVE  RxNothingShows
  <1> USE DEF At
  <1>1. /\ ~At(w, "poll") /\ "key" \in RxPc \ {"poll"} /\ ThreadTypeOK
        /\ GoTo(w, "key")
    BY DEF RxReady, RxPc, ThreadInv
  <1>2. /\ rx' \in [Worker -> Working \cup {Idle}]
        /\ rx'[w].pc = "key" /\ rx'[w].reply = rx[w].reply
        /\ rx'[w].count = rx[w].count /\ rx'[w].before = rx[w].before
        /\ \A v \in Worker : v # w => rx'[v] = rx[v]
    BY <1>1, RxGoes
  <1> DEFINE r == rx[w].reply
  <1>3. /\ r.agtr \in Agtr /\ r.key \in Key /\ r.round \in Nat
        /\ r.data \in Vector /\ rx[w].count \in Nat
    BY <1>1, WorkingTypes
  <1>4. /\ slot_ready' = [slot_ready EXCEPT ![w][r.agtr] = TRUE]
        /\ UNCHANGED <<slot_roundnum, slot_dpdk_key, tensor_key_part_finish, cpubuff_table, finishKeys,
                       toWorker, RxElse, resetting, dpdk_key_to_mutex_idx>>
    BY DEF RxReady, partVars, slotVars, RxElse, pushVars
  <1>5. slot_ready \in [Worker -> [Agtr -> BOOLEAN]]
    BY <1>1 DEF ThreadTypeOK
  <1>6. ThreadTypeOK'
    BY <1>1, <1>2, <1>3, <1>4, <1>5 DEF ThreadTypeOK
  <1>7. ASSUME NEW v \in Worker PROVE RxInv(v)'
    <2>1. CASE v = w
      BY <1>1, <1>2, <1>3, <1>4, <1>5, <2>1 DEF ThreadInv, RxInv, Accepted, Counter, Copied, RxReady
    <2>2. CASE v # w
      BY <1>2, <1>4, <1>5, <2>2, RxInvFrame DEF ThreadInv
    <2> QED BY <2>1, <2>2
  <1>8. atomic_roundnum' = atomic_roundnum
    BY <1>1, <1>2, <1>3, <1>4, <1>5 DEF atomic_roundnum, Accepted, RxReady
  <1>9. atomic_ready' = atomic_ready
    BY <1>1, <1>2, <1>3, <1>4, <1>5 DEF atomic_ready, RxReady
  <1>10. atomic_dpdk_key' = atomic_dpdk_key
    BY <1>8, <1>9 DEF atomic_dpdk_key
  <1>11. atomic_part_finish' = atomic_part_finish
    BY <1>1, <1>2, <1>3, <1>4, <1>5 DEF atomic_part_finish, Counter, RxReady
  <1>12. atomic_cpubuff' = atomic_cpubuff
    BY <1>1, <1>2, <1>3, <1>4, <1>5 DEF atomic_cpubuff, ThreadInv, RxInv, RxReady
  <1>13. atomic_toWorker' = atomic_toWorker
    BY <1>1, <1>2, <1>4 DEF atomic_toWorker, Accepted, RxReady
  <1>14. UNCHANGED Sys!vars
    BY <1>4, <1>8, <1>9, <1>10, <1>11, <1>12, <1>13, NothingShown DEF RxElse
  <1> QED BY <1>6, <1>7, <1>14 DEF RxNothingShows

LEMMA RxLoadStep ==
  ASSUME ThreadInv, NEW w \in Worker, RxLoad(w)
  PROVE  RxNothingShows
  <1> USE DEF At
  <1>1. /\ ~At(w, "poll") /\ "store" \in RxPc \ {"poll"} /\ ThreadTypeOK
        /\ rx' = [rx EXCEPT ![w].pc = "store",
                            ![w].count = tensor_key_part_finish[w][Counter(w)] + 1]
    BY DEF RxLoad, RxPc, ThreadInv
  <1> DEFINE r == rx[w].reply
  <1>3. /\ r.agtr \in Agtr /\ r.key \in Key /\ r.round \in Nat
        /\ r.data \in Vector /\ rx[w].count \in Nat
    BY <1>1, WorkingTypes
  <1>4. UNCHANGED <<slot_roundnum, slot_ready, slot_dpdk_key, tensor_key_part_finish, cpubuff_table, finishKeys,
                       toWorker, RxElse, resetting, dpdk_key_to_mutex_idx>>
    BY DEF RxLoad, partVars, slotVars, RxElse, pushVars
  <1>5. /\ tensor_key_part_finish \in [Worker -> [Key -> Nat]]
        /\ dpdk_key_to_mutex_idx \in [Worker -> [Key -> Key]]
    BY <1>1, ShownTypes DEF ThreadTypeOK, ThreadInv
  <1>2. /\ rx' \in [Worker -> Working \cup {Idle}]
        /\ rx'[w].pc = "store" /\ rx'[w].reply = rx[w].reply
        /\ rx'[w].count = tensor_key_part_finish[w][Counter(w)] + 1 /\ rx'[w].before = rx[w].before
        /\ \A v \in Worker : v # w => rx'[v] = rx[v]
    <2>1. tensor_key_part_finish[w][Counter(w)] + 1 \in Nat
      BY <1>3, <1>5 DEF Counter
    <2> QED BY <1>1, <2>1, RxMoves
  <1>6. ThreadTypeOK'
    BY <1>1, <1>2, <1>3, <1>4, <1>5 DEF ThreadTypeOK
  <1>7. ASSUME NEW v \in Worker PROVE RxInv(v)'
    <2>1. CASE v = w
      BY <1>1, <1>2, <1>3, <1>4, <1>5, <2>1 DEF ThreadInv, RxInv, Accepted, Counter, Copied, RxLoad
    <2>2. CASE v # w
      BY <1>2, <1>4, <1>5, <2>2, RxInvFrame DEF ThreadInv
    <2> QED BY <2>1, <2>2
  <1>8. atomic_roundnum' = atomic_roundnum
    BY <1>1, <1>2, <1>3, <1>4, <1>5 DEF atomic_roundnum, Accepted, RxLoad
  <1>9. atomic_ready' = atomic_ready
    BY <1>1, <1>2, <1>3, <1>4, <1>5 DEF atomic_ready, RxLoad
  <1>10. atomic_dpdk_key' = atomic_dpdk_key
    BY <1>8, <1>9 DEF atomic_dpdk_key
  <1>11. atomic_part_finish' = atomic_part_finish
    <2>1. rx[w].pc = "load" /\ \A v \in Worker : Counter(v)' = Counter(v)
      BY <1>2, <1>4 DEF RxLoad, Counter
    <2> QED BY <1>2, <1>4, <2>1 DEF atomic_part_finish
  <1>12. atomic_cpubuff' = atomic_cpubuff
    BY <1>1, <1>2, <1>3, <1>4, <1>5 DEF atomic_cpubuff, ThreadInv, RxInv, RxLoad
  <1>13. atomic_toWorker' = atomic_toWorker
    BY <1>1, <1>2, <1>4 DEF atomic_toWorker, Accepted, RxLoad
  <1>14. UNCHANGED Sys!vars
    BY <1>4, <1>8, <1>9, <1>10, <1>11, <1>12, <1>13, NothingShown DEF RxElse
  <1> QED BY <1>6, <1>7, <1>14 DEF RxNothingShows

LEMMA RxKeyStep ==
  ASSUME ThreadInv, NEW w \in Worker, RxKey(w)
  PROVE  RxNothingShows
  <1> USE DEF At
  <1>1. rx[w].pc = "key" /\ ThreadTypeOK /\ rx \in [Worker -> Working \cup {Idle}]
    BY DEF RxKey, ThreadInv, ThreadTypeOK
  <1>2. /\ rx' \in [Worker -> Working \cup {Idle}]
        /\ rx'[w].pc = "poll"
        /\ \A v \in Worker : v # w => rx'[v] = rx[v]
    BY <1>1 DEF RxKey, Idle
  <1> DEFINE s == rx[w].reply.agtr
  <1>3. s \in Agtr /\ 0 \in Key
    BY <1>1, WorkingTypes, KeyAssumption DEF Key
  <1>4. /\ slot_dpdk_key' = [slot_dpdk_key EXCEPT ![w][s] = 0]
        /\ UNCHANGED <<slot_roundnum, slot_ready, tensor_key_part_finish, cpubuff_table, finishKeys,
                       toWorker, RxElse, resetting, dpdk_key_to_mutex_idx>>
    BY DEF RxKey, partVars, RxElse, pushVars
  <1>5. slot_dpdk_key \in [Worker -> [Agtr -> Key]]
    BY <1>1 DEF ThreadTypeOK
  <1>6. ThreadTypeOK'
    BY <1>1, <1>2, <1>3, <1>4, <1>5 DEF ThreadTypeOK
  <1>7. ASSUME NEW v \in Worker PROVE RxInv(v)'
    <2>1. CASE v = w
      BY <1>2, <2>1 DEF RxInv, Accepted
    <2>2. CASE v # w
      BY <1>2, <1>4, <2>2, RxInvFrame DEF ThreadInv
    <2> QED BY <2>1, <2>2
  <1>8. atomic_roundnum' = atomic_roundnum
    BY <1>1, <1>2, <1>4 DEF atomic_roundnum, Accepted
  <1>9. atomic_ready' = atomic_ready
    BY <1>1, <1>2, <1>4 DEF atomic_ready
  <1>10. atomic_dpdk_key' = atomic_dpdk_key
    BY <1>8, <1>9 DEF atomic_dpdk_key
  <1>11. atomic_part_finish' = atomic_part_finish
    BY <1>1, <1>2, <1>4 DEF atomic_part_finish, Counter
  <1>12. atomic_cpubuff' = atomic_cpubuff
    BY <1>1, <1>2, <1>4 DEF atomic_cpubuff
  <1>13. atomic_toWorker' = atomic_toWorker
    BY <1>1, <1>2, <1>4 DEF atomic_toWorker, Accepted
  <1>14. UNCHANGED Sys!vars
    BY <1>4, <1>8, <1>9, <1>10, <1>11, <1>12, <1>13, NothingShown DEF RxElse
  <1> QED BY <1>6, <1>7, <1>14 DEF RxNothingShows

\* RxThread takes a reply of the current round from the ring: as far as the
\* others can see the reply is still under way.
LEMMA RxAcceptStep ==
  ASSUME ThreadInv, NEW w \in Worker, NEW r \in ReplyPacket, <<w, r>> \in toWorker,
         RxCheck(w, r), Expected(w, r)
  PROVE  RxNothingShows
  <1> USE DEF At
  <1>1. rx[w].pc = "poll" /\ ThreadTypeOK /\ rx \in [Worker -> Working \cup {Idle}]
    BY DEF RxCheck, ThreadInv, ThreadTypeOK
  <1>2. /\ r.agtr \in Agtr /\ r.key \in Key /\ r.round \in Nat /\ r.round = slot_roundnum[w][r.agtr]
        /\ cpubuff_table[w][r.key] \in Vector
    BY <1>1 DEF ReplyPacket, Expected, ThreadTypeOK
  <1> DEFINE x == [pc |-> "round", reply |-> r, count |-> 0, before |-> cpubuff_table[w][r.key]]
  <1>3. rx' = [rx EXCEPT ![w] = x] /\ toWorker' = toWorker \ {<<w, r>>}
    BY DEF RxCheck
  <1>4. x \in Working
    BY <1>2 DEF Working, RxPc
  <1>5. /\ rx' \in [Worker -> Working \cup {Idle}] /\ rx'[w] = x
        /\ \A v \in Worker : v # w => rx'[v] = rx[v]
    BY <1>1, <1>3, <1>4
  <1>6. UNCHANGED <<slot_roundnum, slot_ready, slot_dpdk_key, tensor_key_part_finish, cpubuff_table,
                    finishKeys, RxElse, resetting, dpdk_key_to_mutex_idx>>
    BY DEF RxCheck, clientVars, partVars, slotVars, RxElse, pushVars
  <1>7. ThreadTypeOK'
    BY <1>1, <1>3, <1>5, <1>6 DEF ThreadTypeOK
  <1>8. ~slot_ready[w][r.agtr]
    <2>1. <<w, r>> \in atomic_toWorker
      BY DEF atomic_toWorker
    <2>2. PICK p \in atomic_toWorker : p[1] = w /\ p[2] = r
      BY <2>1
    <2>3. atomic_roundnum[w][r.agtr] = slot_roundnum[w][r.agtr]
      BY <1>1, <1>2 DEF atomic_roundnum, Accepted
    <2>4. Sys!Expected(p[1], p[2])
      BY <1>2, <2>2, <2>3 DEF Sys!Expected
    <2>5. ~atomic_ready[w][r.agtr]
      BY <2>2, <2>4, SysAssumptions, Sys!AwaitedWhenExpected DEF ThreadInv, SysInv, Sys!IndInv
    <2> QED BY <1>2, <2>5 DEF atomic_ready
  <1>9. ASSUME NEW v \in Worker PROVE RxInv(v)'
    <2>1. CASE v = w
      BY <1>2, <1>3, <1>5, <1>6, <1>8, <2>1 DEF RxInv, Accepted
    <2>2. CASE v # w
      BY <1>3, <1>5, <1>6, <2>2, RxInvFrame DEF ThreadInv
    <2> QED BY <2>1, <2>2
  <1>10. atomic_roundnum' = atomic_roundnum
    BY <1>1, <1>2, <1>5, <1>6 DEF atomic_roundnum, Accepted
  <1>11. atomic_ready' = atomic_ready
    BY <1>1, <1>5, <1>6 DEF atomic_ready
  <1>12. atomic_dpdk_key' = atomic_dpdk_key
    BY <1>10, <1>11 DEF atomic_dpdk_key
  <1>13. atomic_part_finish' = atomic_part_finish
    BY <1>1, <1>5, <1>6 DEF atomic_part_finish, Counter
  <1>14. atomic_cpubuff' = atomic_cpubuff
    BY <1>1, <1>5, <1>6 DEF atomic_cpubuff
  <1>15. atomic_toWorker' = atomic_toWorker
    BY <1>1, <1>3, <1>5 DEF atomic_toWorker, Accepted
  <1>16. UNCHANGED Sys!vars
    BY <1>6, <1>10, <1>11, <1>12, <1>13, <1>14, <1>15, NothingShown DEF RxElse
  <1> QED BY <1>7, <1>9, <1>16 DEF RxNothingShows

LEMMA TableExcept ==
  ASSUME NEW A, NEW B, NEW f, NEW g, NEW a \in A, NEW b \in B, NEW e,
         f = [x \in A |-> [y \in B |-> f[x][y]]],
         g = [x \in A |-> [y \in B |-> g[x][y]]],
         \A x \in A, y \in B : g[x][y] = IF x = a /\ y = b THEN e ELSE f[x][y]
  PROVE  g = [f EXCEPT ![a][b] = e]
  <1> DEFINE h == [f EXCEPT ![a][b] = e]
  <1>1. h = [x \in A |-> h[x]]
    OBVIOUS
  <1>2. ASSUME NEW x \in A PROVE g[x] = h[x]
    <2>1. g[x] = [y \in B |-> g[x][y]] /\ f[x] = [y \in B |-> f[x][y]]
      OBVIOUS
    <2>2. CASE x = a
      <3>1. h[x] = [f[x] EXCEPT ![b] = e]
        BY <2>2
      <3>2. \A y \in B : h[x][y] = IF y = b THEN e ELSE f[x][y]
        BY <2>1, <3>1
      <3>3. h[x] = [y \in B |-> h[x][y]]
        BY <2>1, <3>1
      <3> QED BY <2>1, <2>2, <3>2, <3>3
    <2>3. CASE x # a
      <3>1. h[x] = f[x]
        BY <2>3
      <3> QED BY <2>1, <2>3, <3>1
    <2> QED BY <2>2, <2>3
  <1> QED BY <1>1, <1>2

\* The shown tables are tables.
LEMMA ShownTables ==
  /\ atomic_roundnum = [w \in Worker |-> [s \in Agtr |-> atomic_roundnum[w][s]]]
  /\ atomic_ready = [w \in Worker |-> [s \in Agtr |-> atomic_ready[w][s]]]
  /\ atomic_dpdk_key = [w \in Worker |-> [s \in Agtr |-> atomic_dpdk_key[w][s]]]
  /\ atomic_part_finish = [w \in Worker |-> [i \in Key |-> atomic_part_finish[w][i]]]
  /\ atomic_cpubuff = [w \in Worker |-> [k \in Key |-> atomic_cpubuff[w][k]]]
  /\ atomic_roundnum' = [w \in Worker |-> [s \in Agtr |-> atomic_roundnum'[w][s]]]
  /\ atomic_ready' = [w \in Worker |-> [s \in Agtr |-> atomic_ready'[w][s]]]
  /\ atomic_dpdk_key' = [w \in Worker |-> [s \in Agtr |-> atomic_dpdk_key'[w][s]]]
  /\ atomic_part_finish' = [w \in Worker |-> [i \in Key |-> atomic_part_finish'[w][i]]]
  /\ atomic_cpubuff' = [w \in Worker |-> [k \in Key |-> atomic_cpubuff'[w][k]]]
  BY DEF atomic_roundnum, atomic_ready, atomic_dpdk_key, atomic_part_finish, atomic_cpubuff

-----------------------------------------------------------------------------
(* Steps that the others can see are steps of IncaSystem.                  *)

StepShows == ThreadTypeOK' /\ (\A v \in Worker : RxInv(v)') /\ Sys!Next

\* A reply of another round is dropped.
LEMMA RxDropStep ==
  ASSUME ThreadInv, NEW w \in Worker, NEW r \in ReplyPacket, <<w, r>> \in toWorker,
         RxCheck(w, r), ~Expected(w, r)
  PROVE  StepShows
  <1>1. rx[w].pc = "poll" /\ ThreadTypeOK /\ r.agtr \in Agtr
    BY DEF RxCheck, ThreadInv, ReplyPacket, At
  <1>2. /\ toWorker' = toWorker \ {<<w, r>>}
        /\ UNCHANGED <<slot_roundnum, slot_ready, slot_dpdk_key, tensor_key_part_finish, cpubuff_table,
                       finishKeys, RxElse, resetting, dpdk_key_to_mutex_idx, rx>>
    BY DEF RxCheck, clientVars, partVars, slotVars, RxElse, pushVars
  <1>3. ThreadTypeOK'
    BY <1>1, <1>2 DEF ThreadTypeOK
  <1>4. \A v \in Worker : RxInv(v)'
    BY <1>2, RxInvFrame DEF ThreadInv
  <1>5. /\ UNCHANGED <<atomic_roundnum, atomic_ready, atomic_dpdk_key>>
        /\ UNCHANGED <<atomic_part_finish, atomic_cpubuff>>
    BY <1>2 DEF atomic_roundnum, atomic_ready, atomic_dpdk_key, atomic_part_finish, atomic_cpubuff,
                Accepted, At, Counter
  <1>6. atomic_toWorker' = atomic_toWorker \ {<<w, r>>} /\ <<w, r>> \in atomic_toWorker
    BY <1>1, <1>2 DEF atomic_toWorker, Accepted
  <1>7. ~Sys!Expected(w, r)
    BY <1>1 DEF Sys!Expected, Expected, atomic_roundnum, Accepted
  <1>8. Sys!WorkerReceive(w, r)
    BY <1>2, <1>5, <1>6, <1>7
    DEF Sys!WorkerReceive, Sys!RxPacket, Sys!slotVars, Sys!partVars, Sys!pushVars, Sys!psVars,
        RxElse, pushVars, psVars
  <1>9. PICK p \in atomic_toWorker : p[1] = w /\ p[2] = r
    BY <1>6
  <1> QED BY <1>3, <1>4, <1>8, <1>9 DEF StepShows, Sys!Next

\* The comparison of the part count is where the reply is received.
LEMMA RxCompareStep ==
  ASSUME ThreadInv, NEW w \in Worker, RxCompare(w)
  PROVE  StepShows
  <1> USE DEF At
  <1> DEFINE r == rx[w].reply
             s == r.agtr
             c == tensor_key_part_finish[w][Counter(w)]
  <1>1. /\ rx[w].pc = "compare" /\ Accepted(w) /\ "ready" \in RxPc \ {"poll"} /\ ThreadTypeOK
        /\ GoTo(w, "ready") /\ RxInv(w)
    BY DEF RxCompare, RxPc, ThreadInv, Accepted
  <1>2. /\ rx' \in [Worker -> Working \cup {Idle}]
        /\ rx'[w].pc = "ready" /\ rx'[w].reply = r
        /\ \A v \in Worker : v # w => rx'[v] = rx[v]
    BY <1>1, RxGoes
  <1>3. /\ s \in Agtr /\ r.key \in Key /\ r.round \in Nat
        /\ r.data \in Vector /\ rx[w].count \in Nat
    BY <1>1, WorkingTypes
  <1>4. UNCHANGED <<slot_roundnum, slot_ready, slot_dpdk_key, tensor_key_part_finish, cpubuff_table,
                    toWorker, RxElse, resetting, dpdk_key_to_mutex_idx, tensor_key_part_total,
                    dpdk_key_to_tensor_key>>
    BY DEF RxCompare, slotVars, RxElse, pushVars
  <1>5. /\ tensor_key_part_finish \in [Worker -> [Key -> Nat]]
        /\ dpdk_key_to_mutex_idx \in [Worker -> [Key -> Key]]
        /\ slot_roundnum \in [Worker -> [Agtr -> Nat]]
    BY <1>1, ShownTypes DEF ThreadTypeOK, ThreadInv
  <1>6. ThreadTypeOK'
    BY <1>1, <1>2, <1>4 DEF ThreadTypeOK
  <1>7. ASSUME NEW v \in Worker PROVE RxInv(v)'
    <2>1. CASE v = w
      BY <1>1, <1>2, <1>4, <2>1 DEF RxInv, Accepted
    <2>2. CASE v # w
      BY <1>2, <1>4, <2>2, RxInvFrame DEF ThreadInv
    <2> QED BY <2>1, <2>2
  <1>8. /\ <<w, r>> \in atomic_toWorker /\ atomic_roundnum[w][s] = r.round
        /\ ~atomic_ready[w][s] /\ <<w, r>> \notin toWorker
    BY <1>1, HeldReply DEF RxInv
  <1>9. /\ slot_roundnum[w][s] = r.round + 1 /\ rx[w].count = c /\ c > 0 /\ c \in Nat
        /\ cpubuff_table[w][r.key] = Copied(w) /\ Counter(w) \in Key
    BY <1>1, <1>3, <1>5 DEF RxInv, Counter
  <1>10. atomic_roundnum' = [atomic_roundnum EXCEPT ![w][s] = @ + 1]
    <2>1. ASSUME NEW v \in Worker, NEW u \in Agtr
          PROVE  atomic_roundnum'[v][u] = IF v = w /\ u = s THEN r.round + 1 ELSE atomic_roundnum[v][u]
      BY <1>1, <1>2, <1>4, <1>9 DEF atomic_roundnum, Accepted
    <2> QED BY <1>3, <1>8, <2>1, ShownTables, TableExcept
  <1>11. atomic_ready' = [atomic_ready EXCEPT ![w][s] = TRUE]
    <2>1. ASSUME NEW v \in Worker, NEW u \in Agtr, v # w \/ u # s
          PROVE  atomic_ready'[v][u] = atomic_ready[v][u]
      BY <1>1, <1>2, <1>4, <2>1 DEF atomic_ready
    <2>2. atomic_ready'[w][s] = TRUE
      BY <1>2, <1>3 DEF atomic_ready
    <2> QED BY <1>3, <2>1, <2>2, ShownTables, TableExcept
  <1>12. atomic_dpdk_key' = [atomic_dpdk_key EXCEPT ![w][s] = 0]
    <2>1. ASSUME NEW v \in Worker, NEW u \in Agtr
          PROVE  atomic_dpdk_key'[v][u] = IF v = w /\ u = s THEN 0 ELSE atomic_dpdk_key[v][u]
      <3>1. atomic_ready'[v][u] = IF v = w /\ u = s THEN TRUE ELSE atomic_ready[v][u]
        BY <1>3, <1>11, ShownTables
      <3>2. atomic_roundnum'[v][u] = IF v = w /\ u = s THEN atomic_roundnum[v][u] + 1
                                                       ELSE atomic_roundnum[v][u]
        BY <1>3, <1>10, ShownTables
      <3> QED BY <3>1, <3>2 DEF atomic_dpdk_key
    <2> QED BY <1>3, <2>1, ShownTables, TableExcept
  <1>13. atomic_cpubuff' = [atomic_cpubuff EXCEPT ![w][r.key] =
                              IF r.cmd = TENSOR_COMM /\ ~NO_CPUBUFF_COPY THEN r.data ELSE @]
    <2>1. atomic_cpubuff[w][r.key] = rx[w].before
      BY <1>1, <1>3 DEF atomic_cpubuff
    <2>2. ASSUME NEW v \in Worker, NEW k \in Key
          PROVE  atomic_cpubuff'[v][k] = IF v = w /\ k = r.key THEN Copied(w) ELSE atomic_cpubuff[v][k]
      BY <1>1, <1>2, <1>4, <1>9 DEF atomic_cpubuff
    <2>3. atomic_cpubuff' = [atomic_cpubuff EXCEPT ![w][r.key] = Copied(w)]
      BY <1>3, <2>2, ShownTables, TableExcept
    <2> QED BY <2>1, <2>3 DEF Copied
  <1>14. atomic_part_finish' = [atomic_part_finish EXCEPT ![w][Counter(w)] = c]
         /\ atomic_part_finish[w][Counter(w)] + 1 = c
    <2>1. \A v \in Worker : Counter(v)' = Counter(v)
      BY <1>2, <1>4 DEF Counter
    <2>2. atomic_part_finish[w][Counter(w)] = c - 1
      BY <1>1, <1>9 DEF atomic_part_finish
    <2>3. ASSUME NEW v \in Worker, NEW i \in Key
          PROVE  atomic_part_finish'[v][i] = IF v = w /\ i = Counter(w) THEN c ELSE atomic_part_finish[v][i]
      <3>1. tensor_key_part_finish[v][i] - 0 = tensor_key_part_finish[v][i]
        BY <1>5
      <3> QED BY <1>1, <1>2, <1>4, <2>1, <3>1 DEF atomic_part_finish
    <2> QED BY <1>9, <2>2, <2>3, ShownTables, TableExcept
  <1>15. atomic_toWorker' = atomic_toWorker \ {<<w, r>>}
    BY <1>1, <1>2, <1>4, <1>8 DEF atomic_toWorker, Accepted
  <1>16. Sys!FreeSlot(w, s)
    BY <1>10, <1>11, <1>12 DEF Sys!FreeSlot
  <1>17. Sys!PartFinished(w, r.key)
    <2>1. finishKeys' = IF c = tensor_key_part_total[w][Counter(w)]
                          THEN [finishKeys EXCEPT ![w] = Append(@, dpdk_key_to_tensor_key[w][r.key])]
                          ELSE finishKeys
      BY <1>9 DEF RxCompare
    <2> QED BY <1>14, <2>1 DEF Sys!PartFinished, Counter
  <1>18. Sys!RxPacket(w, r)
    BY <1>4, <1>8, <1>13, <1>16, <1>17, SysOperators
    DEF Sys!RxPacket, Sys!Expected, Sys!pushVars, RxElse, pushVars
  <1>19. Sys!WorkerReceive(w, r)
    BY <1>4, <1>15, <1>18 DEF Sys!WorkerReceive, Sys!psVars, RxElse, psVars
  <1>20. PICK p \in atomic_toWorker : p[1] = w /\ p[2] = r
    BY <1>8
  <1> QED BY <1>6, <1>7, <1>19, <1>20 DEF StepShows, Sys!Next

\* DPDKPushPull takes a part counter that no outstanding key leads to.
LEMMA PushTaskStep ==
  ASSUME ThreadInv, NEW w \in Worker, PushTask(w), NetworkUnchanged
  PROVE  StepShows
  <1> DEFINE i == curr_mutex_idx[w]
             n == Program[pushed[w] + 1].parts
  <1>1. ThreadTypeOK /\ i \in Key /\ tensor_key_part_finish \in [Worker -> [Key -> Nat]]
    BY ShownTypes DEF ThreadInv, ThreadTypeOK
  <1>2. /\ tensor_key_part_finish' = [tensor_key_part_finish EXCEPT ![w][i] = 0]
        /\ UNCHANGED <<slot_roundnum, slot_ready, slot_dpdk_key, cpubuff_table, toWorker, resetting,
                       dpdk_key_to_mutex_idx, rx>>
    BY DEF PushTask, DPDKPushPull, NetworkUnchanged, slotVars
  <1>3. ThreadTypeOK'
    BY <1>1, <1>2 DEF ThreadTypeOK
  <1>4. \A v \in Worker : Counter(v)' = Counter(v) /\ RxInv(v)
    BY <1>2 DEF Counter, ThreadInv
  <1>5. Accepted(w) => Counter(w) # i /\ Counter(w) \in Key
    <2>1. Accepted(w) => Counter(w) # i
      BY HeldCounterNotTaken
    <2>2. Accepted(w) => Counter(w) \in Key
      BY <1>1, WorkingTypes, ShownTypes DEF Counter, Accepted, At, ThreadInv
    <2> QED BY <2>1, <2>2
  <1>6. ASSUME NEW v \in Worker PROVE RxInv(v)'
    <2>1. CASE v # w
      BY <1>1, <1>2, <1>4, <2>1, RxInvFrame
    <2>2. CASE v = w /\ Accepted(w)
      <3>1. tensor_key_part_finish'[w][Counter(w)] = tensor_key_part_finish[w][Counter(w)]
        BY <1>1, <1>2, <1>5, <2>2
      <3> QED BY <1>2, <1>4, <2>2, <3>1 DEF RxInv, Accepted, At, Copied
    <2>3. CASE v = w /\ ~Accepted(w)
      BY <1>2, <1>4, <2>3 DEF RxInv, Accepted, At
    <2> QED BY <2>1, <2>2, <2>3
  <1>7. UNCHANGED <<atomic_roundnum, atomic_ready, atomic_dpdk_key, atomic_cpubuff, atomic_toWorker>>
    BY <1>2 DEF atomic_roundnum, atomic_ready, atomic_dpdk_key, atomic_cpubuff, atomic_toWorker,
                Accepted, At
  <1>8. atomic_part_finish' = [atomic_part_finish EXCEPT ![w][i] = 0]
    <2>1. ASSUME NEW v \in Worker, NEW j \in Key
          PROVE  atomic_part_finish'[v][j] = IF v = w /\ j = i THEN 0 ELSE atomic_part_finish[v][j]
      <3>1. tensor_key_part_finish'[v][j] = IF v = w /\ j = i THEN 0 ELSE tensor_key_part_finish[v][j]
        BY <1>1, <1>2
      <3>2. At(v, "compare")' = At(v, "compare") /\ (At(v, "compare") => Accepted(v))
        BY <1>2 DEF At, Accepted
      <3>3. 0 - 0 = 0
        OBVIOUS
      <3> QED BY <1>4, <1>5, <3>1, <3>2, <3>3 DEF atomic_part_finish
    <2> QED BY <1>1, <2>1, ShownTables, TableExcept
  <1>9. Sys!KeysFree(w, n)
    BY DEF PushTask, Atomic!KeysFree, Sys!KeysFree, Atomic!OutstandingKeys, Sys!OutstandingKeys,
           Atomic!BusySlots, Sys!BusySlots, Atomic!Agtr, Sys!Agtr
  <1>10. Sys!DPDKPushPull(w)
    BY <1>2, <1>7, <1>8 DEF PushTask, DPDKPushPull, Sys!DPDKPushPull, Sys!slotVars
  <1>11. Sys!Client(w)
    BY <1>7, <1>9, <1>10 DEF Sys!Client, Sys!PushStart, NetworkUnchanged, psVars, Sys!psVars
  <1> QED BY <1>3, <1>6, <1>11 DEF StepShows, Sys!Next

\* The push loop draws a key that is not the one RxThread works on.
LEMMA PushJobStep ==
  ASSUME ThreadInv, NEW w \in Worker, PushJob(w), NetworkUnchanged
  PROVE  StepShows
  <1> DEFINE k == dpdkKey[w] % DPDK_KEY_TOTAL
             d == IF pushing[w].cmd = TENSOR_COMM THEN Gradient(w, k) ELSE cpubuff_table[w][k]
  <1>1. /\ ThreadTypeOK /\ dpdkKey[w] \in Nat /\ cpubuff_table \in [Worker -> [Key -> Vector]]
        /\ dpdk_key_to_mutex_idx \in [Worker -> [Key -> Key]]
        /\ pushing[w].left > 0
    BY ShownTypes DEF ThreadInv, ThreadTypeOK, PushJob
  <1>2. k \in Key
    BY <1>1, SysAssumptions, SysOperators, Sys!WrappedKey
  <1>3. d \in Vector
    <2>1. Gradient(w, k) \in Vector
      BY <1>2 DEF Gradient, Vector
    <2> QED BY <1>1, <1>2, <2>1
  <1> HIDE DEF k
  <1>4. /\ cpubuff_table' = [cpubuff_table EXCEPT ![w][k] = d]
        /\ dpdk_key_to_mutex_idx' = [dpdk_key_to_mutex_idx EXCEPT ![w][k] = pushing[w].idx]
        /\ UNCHANGED <<slot_roundnum, slot_ready, slot_dpdk_key, tensor_key_part_finish, toWorker,
                       resetting, rx>>
    BY DEF PushJob, NetworkUnchanged, slotVars, partVars, k
  <1> HIDE DEF d
  <1>5. ThreadTypeOK'
    BY <1>1, <1>2, <1>3, <1>4 DEF ThreadTypeOK
  <1>6. Accepted(w) => rx[w].reply.key # k /\ rx[w].reply.key \in Key
    <2>1. Accepted(w) => rx[w].reply.key # k
      BY <1>1, HeldKeyNotDrawn DEF k
    <2>2. Accepted(w) => rx[w].reply.key \in Key
      BY <1>1, WorkingTypes DEF Accepted, At
    <2> QED BY <2>1, <2>2
  <1>7. \A v \in Worker : Accepted(v) =>
          /\ Counter(v)' = Counter(v)
          /\ cpubuff_table'[v][rx[v].reply.key] = cpubuff_table[v][rx[v].reply.key]
    BY <1>1, <1>2, <1>4, <1>6 DEF Counter
  <1>8. ASSUME NEW v \in Worker PROVE RxInv(v)'
    <2>1. CASE Accepted(v)
      BY <1>4, <1>7, <2>1 DEF ThreadInv, RxInv, Accepted, At, Copied
    <2>2. CASE ~Accepted(v)
      BY <1>4, <2>2 DEF ThreadInv, RxInv, Accepted, At
    <2> QED BY <2>1, <2>2
  <1>9. UNCHANGED <<atomic_roundnum, atomic_ready, atomic_dpdk_key, atomic_toWorker>>
    BY <1>4 DEF atomic_roundnum, atomic_ready, atomic_dpdk_key, atomic_toWorker, Accepted, At
  <1>10. atomic_part_finish' = atomic_part_finish
    <2>1. \A v \in Worker : At(v, "compare")' = At(v, "compare") /\ (At(v, "compare") => Accepted(v))
      BY <1>4 DEF At, Accepted
    <2> QED BY <1>4, <1>7, <2>1 DEF atomic_part_finish
  <1>11. atomic_cpubuff' = [atomic_cpubuff EXCEPT ![w][k] =
                              IF pushing[w].cmd = TENSOR_COMM THEN Gradient(w, k) ELSE @]
    <2>1. rx[w].pc \in {"load", "store", "compare"} => rx[w].reply.key # k
      BY <1>6 DEF Accepted
    <2>2. atomic_cpubuff[w][k] = cpubuff_table[w][k]
      BY <1>2, <2>1 DEF atomic_cpubuff
    <2>3. ASSUME NEW v \in Worker, NEW j \in Key
          PROVE  atomic_cpubuff'[v][j] = IF v = w /\ j = k THEN d ELSE atomic_cpubuff[v][j]
      <3>1. cpubuff_table'[v][j] = IF v = w /\ j = k THEN d ELSE cpubuff_table[v][j]
        BY <1>1, <1>2, <1>4
      <3> QED BY <1>4, <2>1, <3>1 DEF atomic_cpubuff
    <2>4. atomic_cpubuff' = [atomic_cpubuff EXCEPT ![w][k] = d]
      BY <1>2, <2>3, ShownTables, TableExcept
    <2> QED BY <2>2, <2>4 DEF d
  <1>12. Sys!PushJob(w)
    BY <1>9, <1>10, <1>11, SysOperators
    DEF PushJob, Sys!PushJob, k, Sys!slotVars, Sys!partVars, partVars, QueueUnlocked, Sys!QueueUnlocked
  <1>13. Sys!Client(w)
    BY <1>9, <1>12 DEF Sys!Client, NetworkUnchanged, psVars, Sys!psVars
  <1> QED BY <1>5, <1>8, <1>13 DEF StepShows, Sys!Next

\* TxThread takes a slot that RxThread is not about to free.
LEMMA TxAssembleStep ==
  ASSUME ThreadInv, NEW w \in Worker, TxAssemble(w), NetworkUnchanged
  PROVE  StepShows
  <1> DEFINE k == Head(pushpulljobQueue[w]).key
             s == AgtrOf(k)
             f == Sys!Front(w)
  <1>1. /\ ThreadTypeOK /\ slot_ready \in [Worker -> [Agtr -> BOOLEAN]]
        /\ slot_dpdk_key \in [Worker -> [Agtr -> Key]]
        /\ pushpulljobQueue[w] \in Seq(Job) /\ pushpulljobQueue[w] # << >>
    <2>1. pushpulljobQueue \in [Worker -> Seq(Job)]
      BY ShownTypes DEF ThreadInv
    <2> QED BY <2>1 DEF ThreadInv, ThreadTypeOK, TxAssemble
  <1>2. f \in Nat /\ k = f % DPDK_KEY_TOTAL
    <2>1. 1 \in 1 .. Len(pushpulljobQueue[w]) /\ Head(pushpulljobQueue[w]) = pushpulljobQueue[w][1]
      BY <1>1
    <2>2. f \in Nat /\ k = (f + 1 - 1) % DPDK_KEY_TOTAL
      BY <2>1 DEF ThreadInv, SysInv, Sys!IndInv, Sys!QueueInv
    <2> QED BY <2>2
  <1> HIDE DEF f
  <1>3. k \in Key /\ s \in Agtr /\ KeyAt(s, Sys!Sent(f, s)) = k
    BY <1>2, SysAssumptions, SysOperators, Sys!KeyOfJob
  <1>4. /\ slot_ready[w][s]
        /\ slot_ready' = [slot_ready EXCEPT ![w][s] = FALSE]
        /\ slot_dpdk_key' = [slot_dpdk_key EXCEPT ![w][s] = k]
        /\ UNCHANGED <<slot_roundnum, tensor_key_part_finish, cpubuff_table, toWorker, resetting,
                       dpdk_key_to_mutex_idx, rx>>
    BY DEF TxAssemble, NetworkUnchanged, partVars, pushVars
  <1> HIDE DEF k, s
  <1>5. ThreadTypeOK'
    BY <1>1, <1>3, <1>4 DEF ThreadTypeOK
  <1>6. /\ Accepted(w) => rx[w].reply.agtr # s
        /\ At(w, "ready") => rx[w].reply.agtr # s
    BY <1>4 DEF ThreadInv, RxInv
  <1>7. \A v \in Worker, u \in Agtr :
          slot_ready'[v][u] = IF v = w /\ u = s THEN FALSE ELSE slot_ready[v][u]
    BY <1>1, <1>3, <1>4
  <1>8. ASSUME NEW v \in Worker PROVE RxInv(v)'
    <2>1. CASE Accepted(v) \/ At(v, "ready")
      <3>1. rx[v].reply.agtr \in Agtr
        BY <1>1, <2>1, WorkingTypes DEF Accepted, At
      <3>2. ~slot_ready[v][rx[v].reply.agtr] => ~slot_ready'[v][rx[v].reply.agtr]
        BY <1>7, <3>1
      <3> QED BY <1>4, <3>2 DEF ThreadInv, RxInv, Accepted, At, Copied, Counter
    <2>2. CASE ~(Accepted(v) \/ At(v, "ready"))
      BY <1>4, <2>2 DEF RxInv, Accepted, At
    <2> QED BY <2>1, <2>2
  <1>9. UNCHANGED <<atomic_roundnum, atomic_part_finish, atomic_cpubuff, atomic_toWorker>>
    BY <1>4 DEF atomic_roundnum, atomic_part_finish, atomic_cpubuff, atomic_toWorker, Accepted, At,
                Counter
  <1>10. atomic_ready[w][s] /\ atomic_roundnum[w][s] = slot_roundnum[w][s]
    BY <1>3, <1>4, <1>6 DEF atomic_ready, atomic_roundnum
  <1>11. ASSUME NEW v \in Worker, NEW u \in Agtr, v # w \/ u # s
         PROVE  atomic_ready'[v][u] = atomic_ready[v][u]
    BY <1>4, <1>7, <1>11 DEF atomic_ready, At
  <1>12. atomic_ready' = [atomic_ready EXCEPT ![w][s] = FALSE] /\ atomic_ready'[w][s] = FALSE
    <2>1. atomic_ready'[w][s] = FALSE
      BY <1>3, <1>4, <1>6, <1>7 DEF atomic_ready, At
    <2> QED BY <1>3, <1>11, <2>1, ShownTables, TableExcept
  <1>13. KeyAt(s, atomic_roundnum[w][s]) = k
    <2>1. atomic_roundnum[w][s] + (IF atomic_ready[w][s] THEN 0 ELSE 1) = Sys!Sent(f, s)
      BY <1>3, SysOperators DEF ThreadInv, SysInv, Sys!IndInv, Sys!SlotInv, f
    <2>2. atomic_roundnum[w][s] \in Nat
      BY <1>1, <1>3, <1>10 DEF ThreadTypeOK
    <2> QED BY <1>3, <1>10, <2>1, <2>2
  <1>14. atomic_dpdk_key' = [atomic_dpdk_key EXCEPT ![w][s] = k]
    <2>1. ASSUME NEW v \in Worker, NEW u \in Agtr
          PROVE  atomic_dpdk_key'[v][u] = IF v = w /\ u = s THEN k ELSE atomic_dpdk_key[v][u]
      BY <1>9, <1>11, <1>12, <1>13 DEF atomic_dpdk_key
    <2> QED BY <1>3, <2>1, ShownTables, TableExcept
  <1>15. Sys!TxAssemble(w)
    <2>1. txpkt' = [txpkt EXCEPT ![w] =
                      [worker |-> w, agtr |-> s, round |-> atomic_roundnum[w][s],
                       key |-> k, cmd |-> Head(pushpulljobQueue[w]).cmd, norm |-> 0]]
      BY <1>10 DEF TxAssemble, k, s
    <2> QED BY <1>9, <1>10, <1>12, <1>14, <2>1, SysOperators
        DEF TxAssemble, Sys!TxAssemble, k, s, partVars, Sys!partVars, pushVars, Sys!pushVars,
            QueueUnlocked, Sys!QueueUnlocked
  <1>16. Sys!Client(w)
    BY <1>9, <1>15 DEF Sys!Client, NetworkUnchanged, psVars, Sys!psVars
  <1> QED BY <1>5, <1>8, <1>16 DEF StepShows, Sys!Next

\* A step that touches nothing RxThread shares leaves what is shown of it alone.
LEMMA RxUntouched ==
  ASSUME ThreadInv,
         UNCHANGED <<slot_roundnum, slot_ready, slot_dpdk_key, tensor_key_part_finish, cpubuff_table,
                     toWorker, resetting, dpdk_key_to_mutex_idx, rx>>
  PROVE  /\ ThreadTypeOK' /\ \A v \in Worker : RxInv(v)'
         /\ UNCHANGED <<atomic_roundnum, atomic_ready, atomic_dpdk_key, atomic_part_finish>>
         /\ UNCHANGED <<atomic_cpubuff, atomic_toWorker>>
  <1>1. ThreadTypeOK' /\ \A v \in Worker : RxInv(v)'
    BY RxInvFrame DEF ThreadInv, ThreadTypeOK
  <1> QED BY <1>1 DEF atomic_roundnum, atomic_ready, atomic_dpdk_key, atomic_part_finish,
                      atomic_cpubuff, atomic_toWorker, Accepted, At, Counter

LEMMA PollStep ==
  ASSUME ThreadInv, NEW w \in Worker, PollFinishKey(w), NetworkUnchanged
  PROVE  StepShows
  <1>1. /\ ThreadTypeOK' /\ \A v \in Worker : RxInv(v)'
        /\ UNCHANGED <<atomic_roundnum, atomic_ready, atomic_dpdk_key, atomic_part_finish>>
        /\ UNCHANGED <<atomic_cpubuff, atomic_toWorker>>
    BY RxUntouched DEF PollFinishKey, NetworkUnchanged, slotVars, pushVars
  <1>2. Sys!PollFinishKey(w)
    BY <1>1 DEF PollFinishKey, Sys!PollFinishKey, Sys!slotVars, pushVars, Sys!pushVars
  <1>3. Sys!Client(w)
    BY <1>1, <1>2 DEF Sys!Client, NetworkUnchanged, psVars, Sys!psVars
  <1> QED BY <1>1, <1>3 DEF StepShows, Sys!Next

LEMMA SendStep ==
  ASSUME ThreadInv, NEW w \in Worker, Send(w), UNCHANGED rx
  PROVE  StepShows
  <1>1. /\ ThreadTypeOK' /\ \A v \in Worker : RxInv(v)'
        /\ UNCHANGED <<atomic_roundnum, atomic_ready, atomic_dpdk_key, atomic_part_finish>>
        /\ UNCHANGED <<atomic_cpubuff, atomic_toWorker>>
    BY RxUntouched DEF Send, TxBurst, slotVars, partVars, pushVars
  <1>2. Sys!TxBurst(w)
    BY <1>1, SysOperators
    DEF Send, TxBurst, Sys!TxBurst, Sys!slotVars, pushVars, Sys!pushVars, partVars, Sys!partVars
  <1>3. Sys!Send(w)
    BY <1>1, <1>2 DEF Send, Sys!Send, psVars, Sys!psVars
  <1> QED BY <1>1, <1>3 DEF StepShows, Sys!Next

\* The reply of a round is not the one RxThread holds: a round is answered once.
LEMMA ServerReceiveStep ==
  ASSUME ThreadInv, NEW m \in toPS, ServerReceive(m), UNCHANGED rx
  PROVE  StepShows
  <1>1. /\ Sys!Stale(m) <=> Stale(m)
        /\ Sys!CountAfter(m) = CountAfter(m)
        /\ Sys!Completes(m) <=> Completes(m)
        /\ Sys!Reply(m) = Reply(m)
        /\ Sys!PsReceive(m) <=> PsReceive(m)
    <2>1. Sys!NUM_WORKER = NUM_WORKER
      BY DEF Sys!NUM_WORKER, NUM_WORKER, Sys!Cardinality, Cardinality
    <2>2. (Sys!Stale(m) <=> Stale(m)) /\ (Sys!Newer(m) <=> Newer(m))
      BY DEF Sys!Stale, Stale, Sys!Newer, Newer
    <2>3. Sys!CountAfter(m) = CountAfter(m) /\ Sys!NormAfter(m) = NormAfter(m)
      BY <2>1, <2>2 DEF Sys!CountAfter, CountAfter, Sys!NormAfter, NormAfter
    <2>4. Sys!DataAfter(m) = DataAfter(m)
      BY <2>3, SysOperators DEF Sys!DataAfter, DataAfter, Sys!process_data, process_data
    <2>5. Sys!Completes(m) <=> Completes(m)
      BY <2>1, <2>2, <2>3 DEF Sys!Completes, Completes
    <2>6. Sys!Reply(m) = Reply(m)
      BY <2>3, <2>4 DEF Sys!Reply, Reply
    <2>7. Sys!PsReceive(m) <=> PsReceive(m)
      BY <2>2, <2>3, <2>4, <2>5 DEF Sys!PsReceive, PsReceive, Sys!psVars, psVars
    <2> QED BY <2>2, <2>3, <2>5, <2>6, <2>7
  <1>2. UNCHANGED <<slot_roundnum, slot_ready, slot_dpdk_key, tensor_key_part_finish, cpubuff_table,
                    resetting, dpdk_key_to_mutex_idx, rx>>
    BY DEF ServerReceive, clientVars, slotVars, partVars, pushVars
  <1>3. /\ UNCHANGED <<atomic_roundnum, atomic_ready, atomic_dpdk_key, atomic_part_finish>>
        /\ UNCHANGED atomic_cpubuff
    BY <1>2 DEF atomic_roundnum, atomic_ready, atomic_dpdk_key, atomic_part_finish, atomic_cpubuff,
                Accepted, At, Counter
  <1>4. atomic_toWorker' = IF Completes(m) THEN atomic_toWorker \cup (Worker \X {Reply(m)})
                                           ELSE atomic_toWorker
    BY <1>2 DEF ServerReceive, atomic_toWorker, Accepted
  <1>5. Sys!ServerReceive(m)
    BY <1>1, <1>3, <1>4
    DEF ServerReceive, Sys!ServerReceive, clientVars, Sys!clientVars, Sys!slotVars, pushVars, Sys!pushVars,
        partVars, Sys!partVars
  <1>6. [Sys!Next]_(Sys!vars)
    BY <1>5 DEF Sys!Next
  <1>7. atomic_toWorker' \subseteq Worker \X ReplyPacket /\ toWorker' \subseteq atomic_toWorker'
    BY <1>6, NextSysInv, SysOperators DEF ThreadInv, SysInv, Sys!TypeOK, Sys!NetworkTypes, atomic_toWorker
  <1>8. ThreadTypeOK'
    BY <1>2, <1>7 DEF ThreadInv, ThreadTypeOK
  <1>9. ASSUME NEW v \in Worker PROVE RxInv(v)'
    <2>1. CASE Accepted(v) /\ Completes(m)
      <3>1. <<v, rx[v].reply>> \in atomic_toWorker
        BY <2>1, HeldReply
      <3>2. rx[v].reply # Reply(m)
        <4>1. ASSUME rx[v].reply = Reply(m) PROVE FALSE
          <5>1. rx[v].reply.agtr = m.agtr /\ rx[v].reply.round = m.round /\ ~Sys!Stale(m)
            BY <1>1, <2>1, <4>1 DEF Reply, Completes
          <5>2. PICK p \in atomic_toWorker : p[2].agtr = m.agtr /\ p[2].round = m.round
            BY <3>1, <5>1
          <5>3. p[2].round < m.round
            BY <5>1, <5>2, SysAssumptions, Sys!NeverAnswered DEF ThreadInv, SysInv
          <5>4. rx[v].reply.round \in Nat
            BY <2>1, WorkingTypes DEF Accepted, At, ThreadInv
          <5> QED BY <5>1, <5>2, <5>3, <5>4
        <4> QED BY <4>1
      <3>3. <<v, rx[v].reply>> \notin toWorker'
        BY <2>1, <3>2 DEF ServerReceive, ThreadInv, RxInv
      <3> QED BY <1>2, <2>1, <3>3 DEF ThreadInv, RxInv, Accepted, At, Copied, Counter
    <2>2. CASE ~Completes(m)
      BY <1>2, <2>2, RxInvFrame DEF ServerReceive, ThreadInv
    <2>3. CASE ~Accepted(v)
      BY <1>2, <2>3 DEF ThreadInv, RxInv, Accepted, At
    <2> QED BY <2>1, <2>2, <2>3
  <1> QED BY <1>5, <1>8, <1>9 DEF StepShows, Sys!Next

-----------------------------------------------------------------------------
(* Every step at once.                                                     *)

LEMMA ThreadsInitShows == ThreadsInit => Sys!Init /\ ThreadInv
  <1> SUFFICES ASSUME ThreadsInit PROVE Sys!Init /\ ThreadInv
    OBVIOUS
  <1>1. Init /\ rx = [w \in Worker |-> Idle] /\ \A w \in Worker : rx[w].pc = "poll"
    BY DEF ThreadsInit, Idle
  <1>2. /\ slot_roundnum = [w \in Worker |-> [s \in Agtr |-> 0]]
        /\ slot_ready    = [w \in Worker |-> [s \in Agtr |-> TRUE]]
        /\ slot_dpdk_key = [w \in Worker |-> [s \in Agtr |-> 0]]
        /\ tensor_key_part_finish = [w \in Worker |-> [i \in Key |-> 0]]
        /\ cpubuff_table = [w \in Worker |-> [k \in Key |-> NoVector]]
        /\ toWorker = {}
        /\ resetting = [w \in Worker |-> -1]
    BY <1>1 DEF Init, ClientInit
  <1>3. ThreadTypeOK /\ \A w \in Worker : RxInv(w)
    <2>1. 0 \in Key /\ 0 \in Nat /\ TRUE \in BOOLEAN
      BY KeyAssumption DEF Key
    <2>2. NoVector \in Vector
      BY DEF NoVector, Vector
    <2>3. ThreadTypeOK
      BY <1>1, <1>2, <2>1, <2>2 DEF ThreadTypeOK
    <2>4. \A w \in Worker : RxInv(w)
      BY <1>1 DEF RxInv, Accepted, At
    <2> QED BY <2>3, <2>4
  <1>4. /\ atomic_roundnum = slot_roundnum /\ atomic_ready = slot_ready
        /\ atomic_dpdk_key = slot_dpdk_key /\ atomic_cpubuff = cpubuff_table
        /\ atomic_toWorker = {}
    <2>1. \A w \in Worker : ~Accepted(w) /\ ~At(w, "ready") /\ rx[w].pc \notin {"load", "store", "compare"}
      BY <1>1 DEF Accepted, At
    <2>2. atomic_roundnum = slot_roundnum /\ atomic_ready = slot_ready
      BY <1>2, <2>1 DEF atomic_roundnum, atomic_ready
    <2>3. \A w \in Worker, s \in Agtr : atomic_ready[w][s]
      BY <1>2, <2>2
    <2> QED BY <1>2, <2>1, <2>2, <2>3 DEF atomic_dpdk_key, atomic_cpubuff, atomic_toWorker
  <1>5. atomic_part_finish = tensor_key_part_finish
    <2>1. \A w \in Worker : ~At(w, "compare")
      BY <1>1 DEF At
    <2>2. 0 - 0 = 0
      OBVIOUS
    <2> QED BY <1>2, <2>1, <2>2 DEF atomic_part_finish
  <1>6. Sys!ClientInit
    BY <1>1, <1>4, <1>5, SysOperators
    DEF Init, ClientInit, Sys!ClientInit, Sys!NoVector, NoVector
  <1>7. Sys!PsInit
    BY <1>1 DEF Init, PsInit, Sys!PsInit, Slots, Sys!Slots
  <1>8. Sys!Init
    BY <1>1, <1>4, <1>6, <1>7 DEF Init, Sys!Init, Slots, Sys!Slots
  <1> QED BY <1>3, <1>8, InitSysInv DEF ThreadInv

LEMMA RxStepShows ==
  ASSUME ThreadInv, NEW w \in Worker, RxStep(w)
  PROVE  ThreadTypeOK' /\ (\A v \in Worker : RxInv(v)') /\ [Sys!Next]_(Sys!vars)
  <1>1. CASE RxNothingShows
    BY <1>1 DEF RxNothingShows
  <1>2. CASE RxCompare(w)
    BY <1>2, RxCompareStep DEF StepShows
  <1>3. CASE ~RxCompare(w)
    BY <1>1, <1>3, RxRoundStep, RxCopyStep, RxLoadStep, RxStoreStep, RxReadyStep, RxKeyStep DEF RxStep
  <1> QED BY <1>2, <1>3

LEMMA RxCheckShows ==
  ASSUME ThreadInv, NEW p \in toWorker, RxCheck(p[1], p[2])
  PROVE  ThreadTypeOK' /\ (\A v \in Worker : RxInv(v)') /\ [Sys!Next]_(Sys!vars)
  <1>1. p[1] \in Worker /\ p[2] \in ReplyPacket /\ <<p[1], p[2]>> \in toWorker
    <2>1. p \in Worker \X ReplyPacket
      BY DEF ThreadInv, ThreadTypeOK
    <2>2. p[1] \in Worker /\ p[2] \in ReplyPacket /\ p = <<p[1], p[2]>>
      BY <2>1
    <2> QED BY <2>2
  <1>2. CASE Expected(p[1], p[2])
    BY <1>1, <1>2, RxAcceptStep DEF RxNothingShows
  <1>3. CASE ~Expected(p[1], p[2])
    BY <1>1, <1>3, RxDropStep DEF StepShows
  <1> QED BY <1>2, <1>3

LEMMA QuietStepShows ==
  ThreadInv /\ [QuietNext]_threadVars => ThreadInv' /\ [Sys!Next]_(Sys!vars)
  <1> SUFFICES ASSUME ThreadInv, [QuietNext]_threadVars
               PROVE  ThreadTypeOK' /\ (\A v \in Worker : RxInv(v)') /\ [Sys!Next]_(Sys!vars)
    BY NextSysInv DEF ThreadInv
  <1>1. ASSUME NEW w \in Worker, RxStep(w)
        PROVE  ThreadTypeOK' /\ (\A v \in Worker : RxInv(v)') /\ [Sys!Next]_(Sys!vars)
    BY <1>1, RxStepShows
  <1>2. ASSUME NEW w \in Worker, OtherThread(w) /\ NetworkUnchanged
        PROVE  StepShows
    BY <1>2, PushTaskStep, PushJobStep, TxAssembleStep, PollStep DEF OtherThread
  <1>3. ASSUME NEW w \in Worker, Send(w), UNCHANGED rx
        PROVE  StepShows
    BY <1>3, SendStep
  <1>4. ASSUME NEW m \in toPS, ServerReceive(m), UNCHANGED rx
        PROVE  StepShows
    BY <1>4, ServerReceiveStep
  <1>5. ASSUME NEW p \in toWorker, RxCheck(p[1], p[2])
        PROVE  ThreadTypeOK' /\ (\A v \in Worker : RxInv(v)') /\ [Sys!Next]_(Sys!vars)
    BY <1>5, RxCheckShows
  <1>6. CASE UNCHANGED threadVars
    <2>1. /\ UNCHANGED <<slot_roundnum, slot_ready, slot_dpdk_key, tensor_key_part_finish, cpubuff_table,
                         toWorker, resetting, dpdk_key_to_mutex_idx, rx>>
          /\ UNCHANGED <<finishKeys, RxElse>>
      BY <1>6 DEF threadVars, vars, clientVars, slotVars, partVars, pushVars, RxElse
    <2> QED BY <2>1, RxUntouched, NothingShown
  <1> QED BY <1>1, <1>2, <1>3, <1>4, <1>5, <1>6 DEF QuietNext, StepShows

-----------------------------------------------------------------------------
(* The two instances of IncaSystem, in this module and in IncaThreads, are *)
(* of the same state: their definitions coincide.                          *)

LEMMA AtomicInit == Sys!Init => Atomic!Init
  <1>1. Sys!Agtr = Atomic!Agtr /\ Sys!Key = Atomic!Key /\ Sys!Slots = Atomic!Slots
    BY DEF Sys!Agtr, Atomic!Agtr, Sys!Key, Atomic!Key, Sys!Slots, Atomic!Slots
  <1>2. /\ Sys!NoPacket = Atomic!NoPacket /\ Sys!NoVector = Atomic!NoVector
        /\ Sys!TENSOR_COMM = Atomic!TENSOR_COMM
    BY DEF Sys!NoPacket, Atomic!NoPacket, Sys!NoVector, Atomic!NoVector,
           Sys!TENSOR_COMM, Atomic!TENSOR_COMM
  <1> QED BY <1>1, <1>2
      DEF Sys!Init, Atomic!Init, Sys!ClientInit, Atomic!ClientInit, Sys!PsInit, Atomic!PsInit

LEMMA AtomicVars ==
  /\ Sys!vars = Atomic!vars /\ Sys!vars' = Atomic!vars'
  /\ Sys!psVars = Atomic!psVars /\ Sys!psVars' = Atomic!psVars'
  /\ Sys!pushVars = Atomic!pushVars /\ Sys!pushVars' = Atomic!pushVars'
  /\ Sys!slotVars = Atomic!slotVars /\ Sys!slotVars' = Atomic!slotVars'
  /\ Sys!partVars = Atomic!partVars /\ Sys!partVars' = Atomic!partVars'
  /\ Sys!clientVars = Atomic!clientVars /\ Sys!clientVars' = Atomic!clientVars'
  BY DEF Sys!vars, Atomic!vars, Sys!psVars, Atomic!psVars, Sys!pushVars, Atomic!pushVars,
         Sys!slotVars, Atomic!slotVars, Sys!partVars, Atomic!partVars, Sys!clientVars, Atomic!clientVars

LEMMA AtomicClient == ASSUME NEW w \in Worker, Sys!Client(w) PROVE Atomic!Client(w)
  <1> USE AtomicVars
  <1>1. /\ Sys!NoPacket = Atomic!NoPacket /\ Sys!TENSOR_COMM = Atomic!TENSOR_COMM
        /\ \A k : Sys!AgtrOf(k) = Atomic!AgtrOf(k)
        /\ \A k : Sys!Gradient(w, k) = Atomic!Gradient(w, k)
        /\ Sys!QueueUnlocked(w) <=> Atomic!QueueUnlocked(w)
        /\ Sys!BusySlots(w) = Atomic!BusySlots(w)
    BY DEF Sys!NoPacket, Atomic!NoPacket, Sys!TENSOR_COMM, Atomic!TENSOR_COMM, Sys!AgtrOf, Atomic!AgtrOf,
           Sys!Gradient, Atomic!Gradient, Sys!QueueUnlocked, Atomic!QueueUnlocked,
           Sys!BusySlots, Atomic!BusySlots, Sys!Agtr, Atomic!Agtr
  <1>2. Sys!PushStart(w) => Atomic!PushStart(w)
    BY <1>1 DEF Sys!PushStart, Atomic!PushStart, Sys!DPDKPushPull, Atomic!DPDKPushPull,
                Sys!KeysFree, Atomic!KeysFree, Sys!OutstandingKeys, Atomic!OutstandingKeys
  <1>3. Sys!PushJob(w) => Atomic!PushJob(w)
    BY <1>1 DEF Sys!PushJob, Atomic!PushJob
  <1>4. Sys!TxAssemble(w) => Atomic!TxAssemble(w)
    BY <1>1 DEF Sys!TxAssemble, Atomic!TxAssemble
  <1>5. Sys!PollFinishKey(w) => Atomic!PollFinishKey(w)
    BY DEF Sys!PollFinishKey, Atomic!PollFinishKey
  <1>6. Sys!ResetBegin(w) => Atomic!ResetBegin(w)
    BY <1>1 DEF Sys!ResetBegin, Atomic!ResetBegin
  <1>7. Sys!ResetSlot(w) => Atomic!ResetSlot(w)
    BY <1>1 DEF Sys!ResetSlot, Atomic!ResetSlot, Sys!FreeSlot, Atomic!FreeSlot,
                Sys!PartFinished, Atomic!PartFinished
  <1> QED BY <1>2, <1>3, <1>4, <1>5, <1>6, <1>7 DEF Sys!Client, Atomic!Client

LEMMA AtomicNetwork ==
  /\ \A w \in Worker : Sys!Send(w) => Atomic!Send(w)
  /\ \A m \in toPS : Sys!ServerReceive(m) => Atomic!ServerReceive(m)
  /\ \A p \in atomic_toWorker : Sys!WorkerReceive(p[1], p[2]) => Atomic!WorkerReceive(p[1], p[2])
  <1> USE AtomicVars
  <1>1. ASSUME NEW w \in Worker, Sys!Send(w) PROVE Atomic!Send(w)
    BY <1>1 DEF Sys!Send, Atomic!Send, Sys!TxBurst, Atomic!TxBurst, Sys!NoPacket, Atomic!NoPacket
  <1>2. ASSUME NEW m \in toPS, Sys!ServerReceive(m) PROVE Atomic!ServerReceive(m)
    <2>1. Sys!NUM_WORKER = Atomic!NUM_WORKER /\ Sys!TENSOR_COMM = Atomic!TENSOR_COMM
      BY DEF Sys!NUM_WORKER, Atomic!NUM_WORKER, Sys!Cardinality, Atomic!Cardinality,
             Sys!TENSOR_COMM, Atomic!TENSOR_COMM
    <2>2. (Sys!Stale(m) <=> Atomic!Stale(m)) /\ (Sys!Newer(m) <=> Atomic!Newer(m))
      BY DEF Sys!Stale, Atomic!Stale, Sys!Newer, Atomic!Newer
    <2>3. Sys!CountAfter(m) = Atomic!CountAfter(m) /\ Sys!NormAfter(m) = Atomic!NormAfter(m)
      BY <2>1, <2>2 DEF Sys!CountAfter, Atomic!CountAfter, Sys!NormAfter, Atomic!NormAfter
    <2>4. Sys!DataAfter(m) = Atomic!DataAfter(m)
      BY <2>1, <2>3 DEF Sys!DataAfter, Atomic!DataAfter, Sys!process_data, Atomic!process_data
    <2>5. (Sys!Completes(m) <=> Atomic!Completes(m)) /\ Sys!Reply(m) = Atomic!Reply(m)
      BY <2>1, <2>2, <2>3, <2>4 DEF Sys!Completes, Atomic!Completes, Sys!Reply, Atomic!Reply
    <2>6. Sys!PsReceive(m) <=> Atomic!PsReceive(m)
      BY <2>2, <2>3, <2>4, <2>5 DEF Sys!PsReceive, Atomic!PsReceive
    <2> QED BY <1>2, <2>2, <2>3, <2>5, <2>6 DEF Sys!ServerReceive, Atomic!ServerReceive
  <1>3. ASSUME NEW w, NEW r, Sys!WorkerReceive(w, r) PROVE Atomic!WorkerReceive(w, r)
    BY <1>3 DEF Sys!WorkerReceive, Atomic!WorkerReceive, Sys!RxPacket, Atomic!RxPacket,
                Sys!Expected, Atomic!Expected, Sys!FreeSlot, Atomic!FreeSlot,
                Sys!PartFinished, Atomic!PartFinished, Sys!TENSOR_COMM, Atomic!TENSOR_COMM
  <1> QED BY <1>1, <1>2, <1>3

LEMMA AtomicNext == [Sys!Next]_(Sys!vars) => [Atomic!Next]_(Atomic!vars)
  BY AtomicVars, AtomicClient, AtomicNetwork DEF Sys!Next, Atomic!Next

-----------------------------------------------------------------------------
\* Whatever the threads of a client do between two accesses of RxThread, the
\* reply it works on stays the awaited one: its slot is not reused, its round,
\* its buffer and its part counter are written by nobody else, although the
\* locks around them are commented out.
THEOREM NobodyElseWrites == QuietSpec => []ThreadInv
  <1>1. ThreadsInit => ThreadInv
    BY ThreadsInitShows
  <1>2. ThreadInv /\ [QuietNext]_threadVars => ThreadInv'
    BY QuietStepShows
  <1> QED BY <1>1, <1>2, PTL DEF QuietSpec

\* Refinement: while DPDKResetLoop does not step in, a client whose RxThread
\* is interrupted between any two of its unlocked accesses does nothing that
\* the client with the atomic RxPacket could not do.  Every theorem about
\* IncaSystem therefore holds of the state RxThread shows.
THEOREM RxThreadAtomic == QuietSpec => RxThreadIsAtomic
  <1>1. ThreadsInit => Atomic!Init
    BY ThreadsInitShows, AtomicInit
  <1>2. ThreadInv /\ [QuietNext]_threadVars => [Atomic!Next]_(Atomic!vars)
    BY QuietStepShows, AtomicNext
  <1>3. QuietSpec => []ThreadInv
    BY NobodyElseWrites
  <1> QED BY <1>1, <1>2, <1>3, PTL DEF QuietSpec, RxThreadIsAtomic, Atomic!Spec

=============================================================================
