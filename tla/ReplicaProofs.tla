---------------------------- MODULE ReplicaProofs ----------------------------
(***************************************************************************)
(* What keeps the copies of a model equal in TensorFlow's plugins, and the *)
(* buffers in DistributedDataParallel, for all numbers of workers,         *)
(* variables, replicas, passes and training steps; before it, what the     *)
(* proofs about all the plugins share.                                     *)
(***************************************************************************)
EXTENDS Plugins, FiniteSetTheorems, SequenceTheorems, TLAPS

-----------------------------------------------------------------------------
(* Functions, sequences, numbers.                                          *)

Weights == Range(Param)

LEMMA ExceptType ==
  ASSUME NEW D, NEW R, NEW V, NEW f \in [D -> [R -> V]],
         NEW a \in D, NEW b \in R, NEW c \in V
  PROVE  /\ [f EXCEPT ![a][b] = c] \in [D -> [R -> V]]
         /\ [f EXCEPT ![a][b] = c][a][b] = c
         /\ \A y \in R : y # b => [f EXCEPT ![a][b] = c][a][y] = f[a][y]
         /\ \A x \in D : x # a => [f EXCEPT ![a][b] = c][x] = f[x]
  OBVIOUS

LEMMA AppendFacts ==
  ASSUME NEW S, NEW s \in Seq(S), NEW e \in S
  PROVE  /\ Append(s, e) \in Seq(S) /\ Len(s) \in Nat /\ Len(Append(s, e)) = Len(s) + 1
         /\ Append(s, e)[Len(s) + 1] = e
         /\ \A i \in 1..Len(s) : Append(s, e)[i] = s[i]
         /\ \A i \in 1..(Len(s) + 1) : i \in 1..Len(s) \/ i = Len(s) + 1
  OBVIOUS

LEMMA EmptySequences == \A S : << >> \in Seq(S) /\ Len(<< >>) = 0
  OBVIOUS

\* A number of passes, or of calls, is made up of whole steps and the rest in one way
\* only.
LEMMA OneDecomposition ==
  ASSUME NEW B \in Nat \ {0}, NEW s \in Nat \ {0}, NEW t \in Nat \ {0},
         NEW b \in 0..(B - 1), NEW c \in 0..(B - 1),
         (s - 1) * B + b = (t - 1) * B + c
  PROVE  s = t /\ b = c
  <1>1. ASSUME NEW x \in Nat, NEW y \in Nat, x < y PROVE x * B + B <= y * B
    <2>1. PICK d \in Nat : y = x + 1 + d
      <3>1. y - x - 1 \in Nat /\ y = x + 1 + (y - x - 1)
        BY <1>1
      <3> QED BY <3>1
    <2>2. y * B = x * B + B + d * B /\ d * B \in Nat
      BY <2>1
    <2>3. x * B \in Nat
      OBVIOUS
    <2> QED BY <2>2, <2>3
  <1>2. (s - 1) * B \in Nat /\ (t - 1) * B \in Nat
    OBVIOUS
  <1>3. ~(s < t)
    <2> SUFFICES ASSUME s < t PROVE FALSE
      OBVIOUS
    <2>1. (s - 1) * B + B <= (t - 1) * B
      BY <1>1
    <2> QED BY <1>2, <2>1
  <1>4. ~(t < s)
    <2> SUFFICES ASSUME t < s PROVE FALSE
      OBVIOUS
    <2>1. (t - 1) * B + B <= (s - 1) * B
      BY <1>1
    <2> QED BY <1>2, <2>1
  <1>5. s = t
    BY <1>3, <1>4
  <1> QED BY <1>2, <1>5

Pushing(w, n, e) == pushed' = [pushed EXCEPT ![w][n] = Append(@, e)]

\* A job has the plugin it began with.
LEMMA PluginStays == [Next]_vars => plugin' = plugin
  BY DEF Next, Runs, TorchRuns, DDPRuns, HalfRuns, MXRuns, TFRuns, CBMain, CBPoller, CBCore,
         MSMain, MSReplica, OthersOfCB, OthersOfMS, vars

-----------------------------------------------------------------------------
(* The mirrored strategy: a main thread that conducts the replicas' threads. *)

Replica == 1..Replicas
Contribution == Worker \X Replica \X Nat \X Nat
ReplicaThread ==
    [at : {"start", "starting", "running", "merge_call", "resuming", "ending", "ended"},
     should_run : BOOLEAN, has_paused : BOOLEAN, done : BOOLEAN,
     merge_args : SUBSET Contribution, merge_result : SUBSET Contribution,
     main_result : Seq(SUBSET Contribution)]

MSPc == {"call", "set", "wait", "clear", "paused", "reduce", "finally", "join", "finished"}

MSTypeOK ==
    /\ fault \in [kind : {"none", "raises", "fewer"}, replica : Nat]
    /\ pc \in [Worker -> MSPc]
    /\ step \in [Worker -> 1..Steps]
    /\ idx \in [Worker -> Replica]
    /\ threads \in [Worker -> [Replica -> ReplicaThread]]
    /\ coord \in [Worker -> BOOLEAN]
    /\ value \in [Worker -> [Replica -> [of : Worker \X {1}, updates : Seq(SUBSET Contribution)]]]
    /\ pushed \in [Worker -> [{"merged"} -> Seq(SUBSET Contribution)]]

\* All replicas' arguments of the k-th merge call of step s, on one worker and on all.
OwnArgs(w, s, k) == {<<w, q, s, k>> : q \in Replica}
AllArgs(s, k) == {<<v, q, s, k>> : v \in Worker, q \in Replica}
IsCall(n, s, k) == n = (s - 1) * MergeCalls + (k - 1) + 1

Updates(w) == value[w][1].updates
Merges(w) == pushed[w]["merged"]
\* The merge calls that are over in the current step.
Made(w) == Len(Updates(w)) - (step[w] - 1) * MergeCalls

MSCountInv(w) ==
    /\ Made(w) \in 0..MergeCalls
    /\ pc[w] = "call" => Made(w) = 0
    /\ Len(Merges(w)) = Len(Updates(w)) + (IF pc[w] = "reduce" THEN 1 ELSE 0)
    /\ coord[w] => pc[w] \in {"wait", "clear", "finally", "join", "finished"} /\ fault # MS!NoFault
    /\ pc[w] = "finished" /\ ~coord[w] => step[w] = Steps
MSSumInv(w) ==
    /\ \A r \in Replica : value[w][r] = value[w][1]
    /\ \A n \in 1..Len(Updates(w)) : \E s \in 1..Steps, k \in 1..MergeCalls :
            IsCall(n, s, k) /\ Updates(w)[n] = AllArgs(s, k)
    /\ \A n \in 1..Len(Merges(w)) : \E s \in 1..Steps, k \in 1..MergeCalls :
            IsCall(n, s, k) /\ Merges(w)[n] = OwnArgs(w, s, k)

\* A replica that the main thread has not woken since the k-th merge ...
Behind(w, r, t, k) ==
    /\ ~t.has_paused /\ ~t.done
    /\ Len(t.main_result) = IF k = 0 THEN 0 ELSE k - 1
    /\ k # 0 => t.merge_result = AllArgs(step[w], k)
Fresh(w, r, t, k) ==
    Behind(w, r, t, k) /\ ~t.should_run /\ t.at = IF k = 0 THEN "start" ELSE "merge_call"
\* ... one that is at its next merge call, or has ended ...
Returned(w, r, t, k) == t.done /\ k = MS!LastCall(w, r)
Stopped(w, r, t, k) ==
    /\ ~t.should_run /\ Len(t.main_result) = k
    /\ \/ /\ t.at = "merge_call" /\ ~t.done
          /\ k < MergeCalls /\ t.merge_args = {<<w, r, step[w], k + 1>>}
       \/ t.at = "ended" /\ (coord[w] \/ Returned(w, r, t, k))
Paused(w, r, t, k) ==
    Stopped(w, r, t, k) /\ ~t.has_paused /\ (t.at = "ended" => Returned(w, r, t, k))
Signalled(w, r, t, k) ==
    Stopped(w, r, t, k) /\ t.has_paused /\ (coord[w] => t.at = "ended")
\* ... and the one that the main thread waits for.
Active(w, r, t, k) ==
    \/ /\ Behind(w, r, t, k) /\ t.should_run /\ ~coord[w]
       /\ t.at \in IF k = 0 THEN {"start", "starting"} ELSE {"merge_call", "resuming"}
    \/ /\ t.at = "running" /\ ~coord[w] /\ ~t.should_run /\ ~t.has_paused /\ ~t.done
       /\ Len(t.main_result) = k
    \/ /\ t.at = "ending" /\ (coord[w] \/ Returned(w, r, t, k))
       /\ ~t.should_run /\ ~t.has_paused /\ Len(t.main_result) = k
    \/ Signalled(w, r, t, k)

MSThreadInv(w, r, t, k) ==
    /\ pc[w] # "call" => \A i \in 1..Len(t.main_result) : t.main_result[i] = AllArgs(step[w], i)
    /\ pc[w] = "call" => t.at = "ended" \/ (t.at = "start" /\ ~t.should_run)
    /\ pc[w] \in {"set", "wait", "clear"} =>
        /\ r < idx[w] => Paused(w, r, t, k)
        /\ r > idx[w] => Fresh(w, r, t, k)
        /\ r = idx[w] /\ pc[w] = "set" => Fresh(w, r, t, k)
        /\ r = idx[w] /\ pc[w] = "wait" => Active(w, r, t, k)
        /\ r = idx[w] /\ pc[w] = "clear" => Signalled(w, r, t, k)
    /\ pc[w] \in {"paused", "reduce"} => Paused(w, r, t, k)
    /\ pc[w] = "reduce" => t.at = "merge_call"
    /\ pc[w] \in {"finally", "join", "finished"} =>
        IF coord[w] THEN t.at # "running" ELSE t.at = "ended" /\ Returned(w, r, t, k)

MSLocal(w) ==
    MSCountInv(w) /\ MSSumInv(w) /\ \A r \in Replica : MSThreadInv(w, r, threads[w][r], Made(w))
MSInv == MSTypeOK /\ \A w \in Worker : MSLocal(w)

LEMMA MSFacts ==
  ASSUME MSInv, NEW w \in Worker
  PROVE  /\ MSTypeOK /\ MSLocal(w) /\ MSCountInv(w) /\ MSSumInv(w)
         /\ {Replicas, MergeCalls, Steps} \subseteq Nat \ {0} /\ 1 \in Replica
         /\ Updates(w) \in Seq(SUBSET Contribution) /\ Merges(w) \in Seq(SUBSET Contribution)
         /\ Made(w) \in 0..MergeCalls
         /\ \A r \in Replica : /\ threads[w][r] \in ReplicaThread
                               /\ MSThreadInv(w, r, threads[w][r], Made(w))
  <1>1. /\ MSTypeOK /\ MSLocal(w) /\ MSCountInv(w) /\ MSSumInv(w)
        /\ \A r \in Replica : MSThreadInv(w, r, threads[w][r], Made(w))
    BY DEF MSInv, MSLocal
  <1>2. {Replicas, MergeCalls, Steps} \subseteq Nat \ {0} /\ 1 \in Replica
    BY CountsAssumption DEF Replica
  <1>3. /\ Updates(w) \in Seq(SUBSET Contribution) /\ Merges(w) \in Seq(SUBSET Contribution)
        /\ \A r \in Replica : threads[w][r] \in ReplicaThread
    <2>1. value[w][1] \in [of : Worker \X {1}, updates : Seq(SUBSET Contribution)]
      BY <1>1, <1>2 DEF MSTypeOK
    <2>2. Updates(w) \in Seq(SUBSET Contribution)
      BY <2>1 DEF Updates
    <2>3. Merges(w) \in Seq(SUBSET Contribution)
      BY <1>1 DEF MSTypeOK, Merges
    <2>4. \A r \in Replica : threads[w][r] \in ReplicaThread
      BY <1>1 DEF MSTypeOK
    <2> QED BY <2>2, <2>3, <2>4
  <1> QED BY <1>1, <1>2, <1>3 DEF MSCountInv

LEMMA MSPlace ==
  ASSUME MSInv, NEW w \in Worker
  PROVE  /\ MSTypeOK /\ step[w] \in 1..Steps /\ idx[w] \in Replica /\ coord[w] \in BOOLEAN
         /\ pc[w] \in MSPc /\ pc \in [Worker -> MSPc] /\ idx \in [Worker -> Replica]
         /\ threads \in [Worker -> [Replica -> ReplicaThread]] /\ coord \in [Worker -> BOOLEAN]
         /\ Replicas \in Nat \ {0} /\ MergeCalls \in Nat \ {0} /\ Steps \in Nat \ {0}
         /\ \A r \in Replica : r \in Nat \ {0} /\ r <= Replicas
         /\ idx[w] \in Nat \ {0} /\ idx[w] <= Replicas
  <1>1. /\ MSTypeOK /\ step[w] \in 1..Steps /\ idx[w] \in Replica /\ coord[w] \in BOOLEAN
        /\ pc[w] \in MSPc /\ pc \in [Worker -> MSPc] /\ idx \in [Worker -> Replica]
        /\ threads \in [Worker -> [Replica -> ReplicaThread]] /\ coord \in [Worker -> BOOLEAN]
    BY DEF MSInv, MSTypeOK
  <1>2. Replicas \in Nat \ {0} /\ MergeCalls \in Nat \ {0} /\ Steps \in Nat \ {0}
    BY CountsAssumption
  <1>3. \A r \in Replica : r \in Nat \ {0} /\ r <= Replicas
    BY <1>2 DEF Replica
  <1> QED BY <1>1, <1>2, <1>3

\* A thread's part depends on the main thread's position and the coordinator only.
LEMMA MSThreadFrame ==
  ASSUME NEW w \in Worker, NEW r \in Replica, NEW t, NEW k, MSThreadInv(w, r, t, k),
         UNCHANGED <<fault, pc[w], step[w], idx[w], coord[w]>>
  PROVE  MSThreadInv(w, r, t, k)'
  <1>1. Returned(w, r, t, k)' <=> Returned(w, r, t, k)
    BY DEF Returned, MS!LastCall, MS!Faulty
  <1>2. /\ Stopped(w, r, t, k)' <=> Stopped(w, r, t, k)
        /\ Behind(w, r, t, k)' <=> Behind(w, r, t, k)
    BY <1>1 DEF Stopped, Behind
  <1>3. /\ Paused(w, r, t, k)' <=> Paused(w, r, t, k)
        /\ Signalled(w, r, t, k)' <=> Signalled(w, r, t, k)
        /\ Fresh(w, r, t, k)' <=> Fresh(w, r, t, k)
    BY <1>1, <1>2 DEF Paused, Signalled, Fresh
  <1>4. Active(w, r, t, k)' <=> Active(w, r, t, k)
    BY <1>1, <1>2, <1>3 DEF Active
  <1> QED BY <1>1, <1>3, <1>4 DEF MSThreadInv

\* Whatever one worker does, the others' parts stay.
LEMMA MSOthers ==
  ASSUME MSInv, NEW w \in Worker, MSTypeOK', UNCHANGED fault,
         \A v \in Worker : v # w => UNCHANGED <<pc[v], step[v], idx[v], threads[v], coord[v],
                                                value[v], pushed[v]>>,
         MSCountInv(w)', MSSumInv(w)',
         \A r \in Replica : \A t, k : t = threads'[w][r] /\ k = Made(w)' => MSThreadInv(w, r, t, k)'
  PROVE  MSInv'
  <1>1. ASSUME NEW v \in Worker, v # w PROVE MSLocal(v)'
    <2>1. UNCHANGED <<pc[v], step[v], idx[v], threads[v], coord[v], value[v], pushed[v], fault>>
      BY <1>1
    <2>2. Updates(v)' = Updates(v) /\ Merges(v)' = Merges(v) /\ Made(v)' = Made(v)
      BY <2>1 DEF Updates, Merges, Made
    <2>3. MSCountInv(v)'
      BY <2>1, <2>2, MSFacts DEF MSCountInv, MS!NoFault
    <2>4. MSSumInv(v)'
      BY <2>1, <2>2, MSFacts DEF MSSumInv
    <2>5. ASSUME NEW r \in Replica PROVE MSThreadInv(v, r, threads[v][r], Made(v))'
      <3>1. PICK t, k : t = threads[v][r] /\ k = Made(v)
        OBVIOUS
      <3>2. MSThreadInv(v, r, t, k)
        BY <3>1, MSFacts
      <3>3. MSThreadInv(v, r, t, k)'
        BY <2>1, <3>2, MSThreadFrame
      <3>4. t = threads'[v][r] /\ k = Made(v)'
        BY <2>1, <2>2, <3>1
      <3> QED BY <3>3, <3>4
    <2> QED BY <2>3, <2>4, <2>5 DEF MSLocal
  <1>2. MSLocal(w)'
    <2>1. ASSUME NEW r \in Replica PROVE MSThreadInv(w, r, threads[w][r], Made(w))'
      OBVIOUS
    <2> QED BY <2>1 DEF MSLocal
  <1> QED BY <1>1, <1>2 DEF MSInv

\* One replica's thread moves.
LEMMA MSThreadMoves ==
  ASSUME MSInv, NEW w \in Worker, NEW r \in Replica, NEW new \in ReplicaThread,
         NEW k, k = Made(w),
         threads' = [threads EXCEPT ![w][r] = new],
         UNCHANGED <<fault, pc, step, idx, coord, value, pushed>>,
         MSThreadInv(w, r, new, k)
  PROVE  MSInv'
  <1>1. /\ threads' \in [Worker -> [Replica -> ReplicaThread]] /\ threads'[w][r] = new
        /\ \A q \in Replica : q # r => threads'[w][q] = threads[w][q]
        /\ \A v \in Worker : v # w => threads'[v] = threads[v]
    <2>1. threads \in [Worker -> [Replica -> ReplicaThread]]
      BY DEF MSInv, MSTypeOK
    <2> QED BY <2>1, ExceptType
  <1>2. MSTypeOK'
    BY <1>1 DEF MSInv, MSTypeOK
  <1>3. Updates(w)' = Updates(w) /\ Merges(w)' = Merges(w) /\ Made(w)' = Made(w)
    BY DEF Updates, Merges, Made
  <1>4. MSCountInv(w)' /\ MSSumInv(w)'
    <2>1. MSCountInv(w) /\ MSSumInv(w)
      BY MSFacts
    <2>2. MSCountInv(w)'
      BY <1>3, <2>1 DEF MSCountInv, MS!NoFault
    <2>3. MSSumInv(w)'
      BY <1>3, <2>1 DEF MSSumInv
    <2> QED BY <2>2, <2>3
  <1>5. ASSUME NEW q \in Replica, NEW t, NEW j, t = threads'[w][q], j = Made(w)'
        PROVE  MSThreadInv(w, q, t, j)'
    <2>1. MSThreadInv(w, q, t, j)
      <3>1. CASE q = r
        BY <1>1, <1>3, <1>5, <3>1
      <3>2. CASE q # r
        BY <1>1, <1>3, <1>5, <3>2, MSFacts
      <3> QED BY <3>1, <3>2
    <2> QED BY <2>1, MSThreadFrame
  <1> QED BY <1>1, <1>2, <1>4, <1>5, MSOthers

LEMMA MSThreadSteps ==
  ASSUME MSInv, NEW w \in Worker, NEW r \in Replica,
         \/ MS!ShouldRunWait(w, r) \/ MS!ShouldRunClear(w, r) \/ MS!_merge_call(w, r)
         \/ MS!MainFnReturns(w, r) \/ MS!ThreadEnds(w, r)
  PROVE  MSInv'
  <1>1. PICK t \in ReplicaThread, k \in 0..MergeCalls :
            t = threads[w][r] /\ k = Made(w) /\ MSThreadInv(w, r, t, k)
    BY MSFacts
  <1>2. UNCHANGED <<fault, pc, step, idx, coord, value, pushed>>
    BY DEF MS!ShouldRunWait, MS!ShouldRunClear, MS!_merge_call, MS!MainFnReturns, MS!ThreadEnds,
           MS!mainvars, MS!core
  <1>3. /\ step[w] \in 1..Steps /\ idx[w] \in Replica /\ coord[w] \in BOOLEAN /\ MergeCalls \in Nat \ {0}
        /\ pc[w] \in {"call", "set", "wait", "clear", "paused", "reduce", "finally", "join", "finished"}
        /\ r \in Nat /\ idx[w] \in Nat
    BY MSPlace DEF MSPc
  <1> USE DEF ReplicaThread
  <1>4. CASE MS!ShouldRunWait(w, r)
    <2>1. PICK new : new = [t EXCEPT !.at = IF t.at = "start" THEN "starting" ELSE "resuming"]
      OBVIOUS
    <2>2. /\ threads' = [threads EXCEPT ![w][r] = new] /\ new \in ReplicaThread
          /\ t.at \in {"start", "merge_call"} /\ t.should_run
      BY <1>1, <1>4, <2>1 DEF MS!ShouldRunWait, MS!ThreadGoes
    <2>3. MSThreadInv(w, r, new, k)
      BY <1>1, <1>3, <2>1, <2>2
         DEF MSThreadInv, Fresh, Paused, Signalled, Stopped, Active, Behind, Returned
    <2> QED BY <1>1, <1>2, <2>2, <2>3, MSThreadMoves
  <1>5. CASE MS!ThreadEnds(w, r)
    <2>1. PICK new : new = [t EXCEPT !.at = "ended", !.has_paused = TRUE]
      OBVIOUS
    <2>2. threads' = [threads EXCEPT ![w][r] = new] /\ new \in ReplicaThread /\ t.at = "ending"
      BY <1>1, <1>5, <2>1 DEF MS!ThreadEnds, MS!ThreadGoes, MS!ThreadAt
    <2>3. MSThreadInv(w, r, new, k)
      BY <1>1, <1>3, <2>1, <2>2
         DEF MSThreadInv, Fresh, Paused, Signalled, Stopped, Active, Behind, Returned
    <2> QED BY <1>1, <1>2, <2>2, <2>3, MSThreadMoves
  <1>6. CASE MS!MainFnReturns(w, r)
    <2>1. PICK new : new = [t EXCEPT !.at = "ending", !.done = TRUE]
      OBVIOUS
    <2>2. /\ threads' = [threads EXCEPT ![w][r] = new] /\ new \in ReplicaThread /\ t.at = "running"
          /\ Len(t.main_result) = MS!LastCall(w, r)
      BY <1>1, <1>6, <2>1 DEF MS!MainFnReturns, MS!ThreadGoes, MS!ThreadAt, MS!CallsMade
    <2>3. MSThreadInv(w, r, new, k)
      BY <1>1, <1>3, <2>1, <2>2
         DEF MSThreadInv, Fresh, Paused, Signalled, Stopped, Active, Behind, Returned
    <2> QED BY <1>1, <1>2, <2>2, <2>3, MSThreadMoves
  <1>7. CASE MS!_merge_call(w, r)
    <2>1. PICK new : new = [t EXCEPT !.at = "merge_call", !.has_paused = TRUE,
                                     !.merge_args = {<<w, r, step[w], k + 1>>}]
      OBVIOUS
    <2>2. t.at = "running" /\ Len(t.main_result) < MS!LastCall(w, r)
      BY <1>1, <1>7 DEF MS!_merge_call, MS!ThreadAt, MS!CallsMade
    <2>3. Len(t.main_result) = k /\ pc[w] = "wait" /\ r = idx[w] /\ ~coord[w]
      BY <1>1, <1>3, <2>2
         DEF MSThreadInv, Fresh, Paused, Signalled, Stopped, Active, Behind, Returned
    <2>4. k < MergeCalls
      BY <1>3, <2>2, <2>3 DEF MS!LastCall
    <2>5. threads' = [threads EXCEPT ![w][r] = new]
      BY <1>1, <1>7, <2>1, <2>3 DEF MS!_merge_call, MS!ThreadGoes, MS!CallsMade
    <2>6. new \in ReplicaThread
      <3>1. {<<w, r, step[w], k + 1>>} \in SUBSET Contribution
        BY <1>3 DEF Contribution
      <3> QED BY <2>1, <3>1
    <2>7. MSThreadInv(w, r, new, k)
      BY <1>1, <1>3, <2>1, <2>2, <2>3, <2>4
         DEF MSThreadInv, Signalled, Stopped, Active, Behind
    <2> QED BY <1>1, <1>2, <2>5, <2>6, <2>7, MSThreadMoves
  <1>8. CASE MS!ShouldRunClear(w, r)
    <2>1. t.at \in {"starting", "resuming"}
      BY <1>1, <1>8 DEF MS!ShouldRunClear
    <2>2. CASE coord[w]
      <3>1. PICK new : new = [t EXCEPT !.should_run = FALSE, !.at = "ending"]
        OBVIOUS
      <3>2. threads' = [threads EXCEPT ![w][r] = new] /\ new \in ReplicaThread
        BY <1>1, <1>8, <2>2, <3>1 DEF MS!ShouldRunClear, MS!ThreadGoes, MS!Cleared
      <3>3. MSThreadInv(w, r, new, k)
        BY <1>1, <1>3, <2>1, <2>2, <3>1
           DEF MSThreadInv, Fresh, Paused, Signalled, Stopped, Active, Behind, Returned
      <3> QED BY <1>1, <1>2, <3>2, <3>3, MSThreadMoves
    <2>3. CASE ~coord[w] /\ t.at = "starting"
      <3>1. PICK new : new = [t EXCEPT !.should_run = FALSE, !.at = "running"]
        OBVIOUS
      <3>2. threads' = [threads EXCEPT ![w][r] = new] /\ new \in ReplicaThread
        BY <1>1, <1>8, <2>3, <3>1 DEF MS!ShouldRunClear, MS!ThreadGoes, MS!Cleared
      <3>3. MSThreadInv(w, r, new, k)
        BY <1>1, <1>3, <2>3, <3>1
           DEF MSThreadInv, Fresh, Paused, Signalled, Stopped, Active, Behind, Returned
      <3> QED BY <1>1, <1>2, <3>2, <3>3, MSThreadMoves
    <2>4. CASE ~coord[w] /\ t.at = "resuming"
      <3>1. /\ pc[w] = "wait" /\ r = idx[w] /\ k # 0 /\ t.merge_result = AllArgs(step[w], k)
            /\ Len(t.main_result) = k - 1 /\ ~t.has_paused /\ ~t.done
            /\ \A i \in 1..Len(t.main_result) : t.main_result[i] = AllArgs(step[w], i)
        BY <1>1, <1>3, <2>4
           DEF MSThreadInv, Fresh, Paused, Signalled, Stopped, Active, Behind, Returned
      <3>2. PICK more : more = Append(t.main_result, t.merge_result)
        OBVIOUS
      <3>3. /\ more \in Seq(SUBSET Contribution) /\ Len(more) = k
            /\ \A i \in 1..Len(more) : more[i] = AllArgs(step[w], i)
        <4>1. t.main_result \in Seq(SUBSET Contribution) /\ t.merge_result \in SUBSET Contribution
          OBVIOUS
        <4>2. /\ more \in Seq(SUBSET Contribution) /\ Len(more) = Len(t.main_result) + 1
              /\ more[Len(t.main_result) + 1] = t.merge_result
              /\ \A i \in 1..Len(t.main_result) : more[i] = t.main_result[i]
              /\ \A i \in 1..(Len(t.main_result) + 1) : i \in 1..Len(t.main_result) \/ i = Len(t.main_result) + 1
          BY <3>2, <4>1, AppendFacts
        <4> QED BY <3>1, <4>2
      <3>4. PICK new : new = [t EXCEPT !.should_run = FALSE, !.at = "running", !.main_result = more]
        OBVIOUS
      <3>5. threads' = [threads EXCEPT ![w][r] = new] /\ new \in ReplicaThread
        BY <1>1, <1>8, <2>4, <3>2, <3>3, <3>4 DEF MS!ShouldRunClear, MS!ThreadGoes, MS!Cleared
      <3>6. MSThreadInv(w, r, new, k)
        BY <1>3, <2>4, <3>1, <3>3, <3>4 DEF MSThreadInv, Active
      <3> QED BY <1>1, <1>2, <3>5, <3>6, MSThreadMoves
    <2> QED BY <2>1, <2>2, <2>3, <2>4
  <1> QED BY <1>4, <1>5, <1>6, <1>7, <1>8

\* A step of a worker in which nothing is merged: what a thread's part of the
\* invariant needs is what its new state and the main thread's new place are.
LEMMA MSNothingMerged ==
  ASSUME MSInv, NEW w \in Worker, UNCHANGED <<fault, step, value, pushed>>, MSTypeOK',
         \A v \in Worker : v # w => UNCHANGED <<pc[v], idx[v], threads[v], coord[v]>>,
         pc[w] # "reduce", pc'[w] \notin {"reduce", "call"},
         coord'[w] => pc'[w] \in {"wait", "clear", "finally", "join", "finished"} /\ fault # MS!NoFault,
         pc'[w] = "finished" /\ ~coord'[w] => step[w] = Steps,
         \A r \in Replica : \A t \in ReplicaThread : \A k \in 0..MergeCalls :
            threads[w][r] = t /\ k = Made(w) /\ MSThreadInv(w, r, t, k) =>
                \A new : new = threads'[w][r] => MSThreadInv(w, r, new, k)'
  PROVE  MSInv'
  <1>1. Updates(w)' = Updates(w) /\ Merges(w)' = Merges(w) /\ Made(w)' = Made(w)
    BY DEF Updates, Merges, Made
  <1>2. MSCountInv(w) /\ MSSumInv(w)
    BY MSFacts
  <1>3. MSCountInv(w)'
    BY <1>1, <1>2 DEF MSCountInv, MS!NoFault
  <1>4. MSSumInv(w)'
    BY <1>1, <1>2 DEF MSSumInv
  <1>5. ASSUME NEW r \in Replica, NEW t, NEW k, t = threads'[w][r], k = Made(w)'
        PROVE  MSThreadInv(w, r, t, k)'
    <2>1. PICK old \in ReplicaThread : old = threads[w][r] /\ MSThreadInv(w, r, old, Made(w))
      BY MSFacts
    <2>2. k \in 0..MergeCalls /\ k = Made(w) /\ MSThreadInv(w, r, old, k)
      BY <1>1, <1>5, <2>1, MSFacts
    <2> QED BY <1>5, <2>1, <2>2
  <1> QED BY <1>3, <1>4, <1>5, MSOthers

LEMMA MSRaisesStep ==
  ASSUME MSInv, NEW w \in Worker, NEW r \in Replica, MS!MainFnRaises(w, r) PROVE MSInv'
  <1>1. /\ MSTypeOK /\ step[w] \in 1..Steps /\ idx[w] \in Replica /\ r \in Nat /\ idx[w] \in Nat
        /\ pc[w] \in {"call", "set", "wait", "clear", "paused", "reduce", "finally", "join", "finished"}
        /\ threads \in [Worker -> [Replica -> ReplicaThread]] /\ coord \in [Worker -> BOOLEAN]
    BY MSPlace DEF MSPc
  <1>2. /\ threads[w][r].at = "running" /\ coord' = [coord EXCEPT ![w] = TRUE]
        /\ fault = [kind |-> "raises", replica |-> r]
        /\ threads' = [threads EXCEPT ![w][r] = [threads[w][r] EXCEPT !.at = "ending"]]
        /\ UNCHANGED <<fault, pc, step, idx, value, pushed>>
    BY DEF MS!MainFnRaises, MS!ThreadAt, MS!Faulty, MS!ThreadGoes, MS!mainvars, MS!core
  <1>3. pc[w] = "wait" /\ r = idx[w]
    <2>1. PICK t \in ReplicaThread, k \in 0..MergeCalls :
              t = threads[w][r] /\ k = Made(w) /\ MSThreadInv(w, r, t, k)
      BY MSFacts
    <2> QED BY <1>1, <1>2, <2>1
            DEF MSThreadInv, Fresh, Paused, Signalled, Stopped, Behind, ReplicaThread,
                MSCountInv
  <1>4. PICK new : new = [threads[w][r] EXCEPT !.at = "ending"]
    OBVIOUS
  <1>5. new \in ReplicaThread
    <2>1. threads[w][r] \in ReplicaThread
      BY <1>1
    <2> QED BY <1>4, <2>1 DEF ReplicaThread
  <1>6. /\ threads' \in [Worker -> [Replica -> ReplicaThread]] /\ threads'[w][r] = new
        /\ \A q \in Replica : q # r => threads'[w][q] = threads[w][q]
        /\ \A v \in Worker : v # w => threads'[v] = threads[v]
    BY <1>1, <1>2, <1>4, <1>5, ExceptType
  <1>7. MSTypeOK' /\ coord'[w] = TRUE /\ \A v \in Worker : v # w => coord'[v] = coord[v]
    BY <1>1, <1>2, <1>6 DEF MSTypeOK
  <1>8. ASSUME NEW q \in Replica, NEW t \in ReplicaThread, NEW k \in 0..MergeCalls,
               threads[w][q] = t, MSThreadInv(w, q, t, k), NEW nt, nt = threads'[w][q]
        PROVE  MSThreadInv(w, q, nt, k)'
    <2>1. q \in Nat /\ (Returned(w, q, t, k)' <=> Returned(w, q, t, k))
      BY <1>2 DEF Returned, MS!LastCall, MS!Faulty, Replica
    <2>2. CASE q = r
      <3>1. Len(t.main_result) = k /\ ~t.should_run /\ ~t.has_paused
            /\ \A i \in 1..Len(t.main_result) : t.main_result[i] = AllArgs(step[w], i)
        BY <1>1, <1>2, <1>3, <1>8, <2>2
           DEF MSThreadInv, Active, Signalled, Stopped, Behind
      <3>2. /\ nt.main_result = t.main_result /\ nt.should_run = t.should_run
            /\ nt.has_paused = t.has_paused /\ nt.at = "ending"
        BY <1>4, <1>6, <1>8, <2>2 DEF ReplicaThread
      <3> QED BY <1>1, <1>2, <1>3, <1>7, <2>2, <3>1, <3>2 DEF MSThreadInv, Active
    <2>3. CASE q # r
      BY <1>1, <1>2, <1>3, <1>6, <1>7, <1>8, <2>1, <2>3
         DEF MSThreadInv, Paused, Stopped, Fresh, Behind
    <2> QED BY <2>2, <2>3
  <1>9. fault # MS!NoFault
    BY <1>2 DEF MS!NoFault
  <1>10. pc'[w] = "wait" /\ \A v \in Worker : v # w => UNCHANGED <<pc[v], idx[v], threads[v], coord[v]>>
    BY <1>2, <1>3, <1>6, <1>7
  <1> QED BY <1>2, <1>3, <1>7, <1>8, <1>9, <1>10, MSNothingMerged

\* The main thread of w touches one replica's thread.
LEMMA MSOneThread ==
  ASSUME MSInv, NEW w \in Worker, NEW i \in Replica, NEW new \in ReplicaThread,
         threads' = [threads EXCEPT ![w][i] = new]
  PROVE  /\ threads' \in [Worker -> [Replica -> ReplicaThread]] /\ threads'[w][i] = new
         /\ \A q \in Replica : q # i => threads'[w][q] = threads[w][q]
         /\ \A v \in Worker : v # w => threads'[v] = threads[v]
  <1>1. threads \in [Worker -> [Replica -> ReplicaThread]]
    BY MSPlace
  <1> QED BY <1>1, ExceptType

LEMMA MSStartThreadsStep ==
  ASSUME MSInv, NEW w \in Worker, MS!StartThreads(w) PROVE MSInv'
  <1>1. /\ pc[w] = "call" /\ pc' = [pc EXCEPT ![w] = "set"] /\ idx' = [idx EXCEPT ![w] = 1]
        /\ threads' = [threads EXCEPT ![w] = [r \in Replica |-> MS!NewThread]]
        /\ UNCHANGED <<fault, step, coord, value, pushed>>
    BY DEF MS!StartThreads, MS!MainGoes, MS!Replica, Replica, MS!core
  <1>2. MS!NewThread \in ReplicaThread
    <2>1. << >> \in Seq(SUBSET Contribution) /\ {} \in SUBSET Contribution
      BY EmptySequences
    <2> QED BY <2>1 DEF MS!NewThread, ReplicaThread
  <1>3. /\ threads' \in [Worker -> [Replica -> ReplicaThread]]
        /\ \A r \in Replica : threads'[w][r] = MS!NewThread
        /\ \A v \in Worker : v # w => threads'[v] = threads[v]
    <2>1. [r \in Replica |-> MS!NewThread] \in [Replica -> ReplicaThread]
      BY <1>2
    <2> QED BY <1>1, <2>1, MSPlace
  <1>4. /\ pc' \in [Worker -> MSPc] /\ idx' \in [Worker -> Replica]
        /\ pc'[w] = "set" /\ idx'[w] = 1
        /\ \A v \in Worker : v # w => UNCHANGED <<pc[v], idx[v], threads[v], coord[v]>>
    BY <1>1, <1>3, MSPlace, MSFacts DEF MSPc
  <1>5. MSTypeOK'
    BY <1>1, <1>3, <1>4, MSPlace DEF MSTypeOK
  <1>6. ~coord[w] /\ Made(w) = 0
    BY <1>1, MSFacts DEF MSCountInv
  <1>7. ASSUME NEW r \in Replica, NEW k \in 0..MergeCalls, k = Made(w), NEW new, new = threads'[w][r]
        PROVE  MSThreadInv(w, r, new, k)'
    <2>1. /\ new.at = "start" /\ ~new.should_run /\ ~new.has_paused /\ ~new.done
          /\ Len(new.main_result) = 0
      BY <1>3, <1>7 DEF MS!NewThread
    <2>2. Fresh(w, r, new, k)'
      BY <1>6, <1>7, <2>1 DEF Fresh, Behind
    <2>3. ~(r < 1) /\ \A i \in 1..0 : FALSE
      BY MSPlace
    <2> QED BY <1>4, <2>1, <2>2, <2>3 DEF MSThreadInv
  <1> QED BY <1>1, <1>4, <1>5, <1>6, <1>7, MSNothingMerged

LEMMA MSHandshakeSteps ==
  ASSUME MSInv, NEW w \in Worker,
         MS!ShouldRunSet(w) \/ MS!HasPausedWait(w) \/ MS!HasPausedClear(w)
  PROVE  MSInv'
  <1>1. /\ MSTypeOK /\ idx[w] \in Replica /\ coord[w] \in BOOLEAN
        /\ pc \in [Worker -> MSPc] /\ idx \in [Worker -> Replica]
        /\ Replicas \in Nat \ {0} /\ \A r \in Replica : r \in Nat \ {0} /\ r <= Replicas
        /\ MSCountInv(w)
    BY MSPlace, MSFacts
  <1>2. PICK i \in Replica : i = idx[w]
    BY <1>1
  <1>3. i \in Nat \ {0} /\ i <= Replicas /\ threads[w][i] \in ReplicaThread
    BY <1>1, MSFacts
  <1>4. CASE MS!ShouldRunSet(w)
    <2>1. PICK new : new = [threads[w][i] EXCEPT !.should_run = TRUE]
      OBVIOUS
    <2>2. /\ pc[w] = "set" /\ pc' = [pc EXCEPT ![w] = "wait"]
          /\ threads' = [threads EXCEPT ![w][i] = new]
          /\ UNCHANGED <<fault, step, idx, coord, value, pushed>>
      BY <1>2, <1>4, <2>1 DEF MS!ShouldRunSet, MS!MainGoes, MS!core
    <2>3. new \in ReplicaThread
      BY <1>3, <2>1 DEF ReplicaThread
    <2>4. /\ threads' \in [Worker -> [Replica -> ReplicaThread]] /\ threads'[w][i] = new
          /\ \A q \in Replica : q # i => threads'[w][q] = threads[w][q]
          /\ \A v \in Worker : v # w => threads'[v] = threads[v]
      BY <2>2, <2>3, MSOneThread
    <2>5. /\ pc' \in [Worker -> MSPc] /\ pc'[w] = "wait"
          /\ \A v \in Worker : v # w => UNCHANGED <<pc[v], idx[v], threads[v], coord[v]>>
      BY <1>1, <2>2, <2>4 DEF MSPc
    <2>6. MSTypeOK'
      BY <1>1, <2>2, <2>4, <2>5 DEF MSTypeOK
    <2>7. ~coord[w]
      BY <1>1, <2>2 DEF MSCountInv
    <2>8. ASSUME NEW r \in Replica, NEW t \in ReplicaThread, NEW k \in 0..MergeCalls,
                 threads[w][r] = t, MSThreadInv(w, r, t, k), NEW nt, nt = threads'[w][r]
          PROVE  MSThreadInv(w, r, nt, k)'
      <3>1. r \in Nat \ {0} /\ (Returned(w, r, t, k)' <=> Returned(w, r, t, k))
        BY <1>1, <2>2 DEF Returned, MS!LastCall, MS!Faulty
      <3>2. CASE r = i
        <4>1. Fresh(w, r, t, k) /\ nt = [t EXCEPT !.should_run = TRUE]
              /\ \A j \in 1..Len(t.main_result) : t.main_result[j] = AllArgs(step[w], j)
          BY <1>2, <2>1, <2>2, <2>4, <2>8, <3>2 DEF MSThreadInv
        <4>2. Active(w, r, nt, k)'
          BY <2>2, <2>7, <4>1 DEF Fresh, Behind, Active, ReplicaThread
        <4>3. nt.main_result = t.main_result
          BY <4>1 DEF ReplicaThread
        <4> QED BY <1>2, <2>2, <2>5, <3>1, <3>2, <4>1, <4>2, <4>3 DEF MSThreadInv
      <3>3. CASE r # i
        <4>1. nt = t
          BY <2>4, <2>8, <3>3
        <4> QED BY <1>2, <1>3, <2>2, <2>5, <2>8, <3>1, <3>3, <4>1
                DEF MSThreadInv, Paused, Stopped, Fresh, Behind
      <3> QED BY <3>2, <3>3
    <2> QED BY <2>2, <2>5, <2>6, <2>7, <2>8, MSNothingMerged
  <1>5. CASE MS!HasPausedWait(w)
    <2>1. /\ pc[w] = "wait" /\ pc' = [pc EXCEPT ![w] = "clear"] /\ threads[w][i].has_paused
          /\ UNCHANGED <<fault, step, idx, threads, coord, value, pushed>>
      BY <1>2, <1>5 DEF MS!HasPausedWait, MS!MainGoes, MS!core
    <2>2. /\ pc' \in [Worker -> MSPc] /\ pc'[w] = "clear"
          /\ \A v \in Worker : v # w => UNCHANGED <<pc[v], idx[v], threads[v], coord[v]>>
      BY <1>1, <2>1 DEF MSPc
    <2>3. MSTypeOK'
      BY <1>1, <2>1, <2>2 DEF MSTypeOK
    <2>4. coord[w] => fault # MS!NoFault
      BY <1>1 DEF MSCountInv
    <2>5. ASSUME NEW r \in Replica, NEW t \in ReplicaThread, NEW k \in 0..MergeCalls,
                 threads[w][r] = t, MSThreadInv(w, r, t, k), NEW nt, nt = threads'[w][r]
          PROVE  MSThreadInv(w, r, nt, k)'
      <3>1. /\ r \in Nat \ {0} /\ (Returned(w, r, t, k)' <=> Returned(w, r, t, k))
            /\ (Signalled(w, r, t, k)' <=> Signalled(w, r, t, k))
        BY <1>1, <2>1 DEF Returned, MS!LastCall, MS!Faulty, Signalled, Stopped
      <3>2. r = i => Signalled(w, r, t, k)
        BY <1>2, <2>1, <2>5 DEF MSThreadInv, Active, Behind
      <3>3. nt = t
        BY <2>1, <2>5
      <3> QED BY <1>2, <1>3, <2>1, <2>2, <2>5, <3>1, <3>2, <3>3
              DEF MSThreadInv, Paused, Stopped, Fresh, Behind
    <2> QED BY <2>1, <2>2, <2>3, <2>4, <2>5, MSNothingMerged
  <1>6. CASE MS!HasPausedClear(w)
    <2>1. PICK new : new = [threads[w][i] EXCEPT !.has_paused = FALSE]
      OBVIOUS
    <2>2. /\ pc[w] = "clear" /\ threads' = [threads EXCEPT ![w][i] = new]
          /\ UNCHANGED <<fault, step, coord, value, pushed>>
          /\ \/ coord[w] /\ pc' = [pc EXCEPT ![w] = "finally"] /\ UNCHANGED idx
             \/ ~coord[w] /\ i < Replicas /\ pc' = [pc EXCEPT ![w] = "set"]
                /\ idx' = [idx EXCEPT ![w] = i + 1]
             \/ ~coord[w] /\ i = Replicas /\ pc' = [pc EXCEPT ![w] = "paused"] /\ UNCHANGED idx
      BY <1>2, <1>6, <2>1 DEF MS!HasPausedClear, MS!MainGoes, MS!core
    <2>3. new \in ReplicaThread
      BY <1>3, <2>1 DEF ReplicaThread
    <2>4. /\ threads' \in [Worker -> [Replica -> ReplicaThread]] /\ threads'[w][i] = new
          /\ \A q \in Replica : q # i => threads'[w][q] = threads[w][q]
          /\ \A v \in Worker : v # w => threads'[v] = threads[v]
      BY <2>2, <2>3, MSOneThread
    <2>5. i < Replicas => i + 1 \in Replica
      BY <1>1, <1>3 DEF Replica
    <2>6. /\ pc' \in [Worker -> MSPc] /\ idx' \in [Worker -> Replica]
          /\ \/ coord[w] /\ pc'[w] = "finally"
             \/ ~coord[w] /\ pc'[w] = "set" /\ idx'[w] = i + 1
             \/ ~coord[w] /\ i = Replicas /\ pc'[w] = "paused"
          /\ \A v \in Worker : v # w => UNCHANGED <<pc[v], idx[v], threads[v], coord[v]>>
      BY <1>1, <2>2, <2>4, <2>5 DEF MSPc
    <2>7. MSTypeOK'
      BY <1>1, <2>2, <2>4, <2>6 DEF MSTypeOK
    <2>8. coord[w] => fault # MS!NoFault
      BY <1>1 DEF MSCountInv
    <2>9. ASSUME NEW r \in Replica, NEW t \in ReplicaThread, NEW k \in 0..MergeCalls,
                 threads[w][r] = t, MSThreadInv(w, r, t, k), NEW nt, nt = threads'[w][r]
          PROVE  MSThreadInv(w, r, nt, k)'
      <3>1. r \in Nat \ {0} /\ r <= Replicas /\ (\A x : Returned(w, r, x, k)' <=> Returned(w, r, x, k))
        BY <1>1, <2>2 DEF Returned, MS!LastCall, MS!Faulty
      <3>2. \A j \in 1..Len(t.main_result) : t.main_result[j] = AllArgs(step[w], j)
        BY <2>2, <2>9 DEF MSThreadInv
      <3>3. /\ nt.main_result = t.main_result /\ nt.at = t.at /\ nt.done = t.done
            /\ nt.merge_args = t.merge_args /\ nt.merge_result = t.merge_result
            /\ nt.should_run = t.should_run /\ (r # i => nt = t) /\ (r = i => ~nt.has_paused)
        BY <2>1, <2>4, <2>9 DEF ReplicaThread
      <3>4. /\ r < i => Paused(w, r, t, k)
            /\ r > i => Fresh(w, r, t, k)
            /\ r = i => Signalled(w, r, t, k)
            /\ r < i \/ r > i \/ r = i
        BY <1>1, <1>2, <1>3, <2>2, <2>9, <3>1 DEF MSThreadInv
      <3>5. CASE coord[w]
        <4>1. t.at # "running"
          BY <3>4 DEF Paused, Stopped, Fresh, Signalled
        <4> QED BY <2>2, <2>6, <3>2, <3>3, <3>5, <4>1 DEF MSThreadInv
      <3>6. CASE ~coord[w]
        <4>1. r <= i => Paused(w, r, nt, k)'
          BY <1>3, <2>2, <3>1, <3>3, <3>4, <3>6 DEF Paused, Signalled, Stopped, Returned
        <4>2. r > i => Fresh(w, r, nt, k)'
          BY <1>3, <2>2, <3>1, <3>3, <3>4 DEF Fresh, Behind
        <4> QED BY <1>3, <2>2, <2>6, <3>1, <3>2, <3>3, <3>6, <4>1, <4>2 DEF MSThreadInv
      <3> QED BY <3>5, <3>6
    <2> QED BY <2>2, <2>6, <2>7, <2>8, <2>9, MSNothingMerged
  <1> QED BY <1>4, <1>5, <1>6

LEMMA MSEndSteps ==
  ASSUME MSInv, NEW w \in Worker,
         \/ MS!AllDone(w) \/ MS!RaiseRuntimeError(w) \/ MS!Finally(w)
         \/ MS!Join(w) /\ (coord[w] \/ step[w] = Steps)
  PROVE  MSInv'
  <1>1. /\ MSTypeOK /\ coord[w] \in BOOLEAN /\ pc \in [Worker -> MSPc]
        /\ threads \in [Worker -> [Replica -> ReplicaThread]] /\ coord \in [Worker -> BOOLEAN]
        /\ Steps \in Nat /\ step[w] \in Nat
    BY MSPlace
  <1>2. /\ MSCountInv(w) /\ \A r \in Replica : /\ threads[w][r] \in ReplicaThread
                                               /\ MSThreadInv(w, r, threads[w][r], Made(w))
    BY MSFacts
  <1>3. Replica = MS!Replica
    BY DEF Replica, MS!Replica
  <1>4. ASSUME UNCHANGED <<fault, step>>, NEW r \in Replica, NEW k, NEW t
        PROVE  Returned(w, r, t, k)' <=> Returned(w, r, t, k)
    BY <1>4 DEF Returned, MS!LastCall, MS!Faulty
  <1>5. CASE MS!AllDone(w)
    <2>1. /\ pc[w] = "paused" /\ pc' = [pc EXCEPT ![w] = "finally"]
          /\ UNCHANGED <<fault, step, idx, threads, coord, value, pushed>>
          /\ \A r \in Replica : threads[w][r].done
      BY <1>3, <1>5 DEF MS!AllDone, MS!MainGoes, MS!DoneReplicas, MS!core
    <2>2. /\ pc' \in [Worker -> MSPc] /\ pc'[w] = "finally" /\ ~coord[w]
          /\ \A v \in Worker : v # w => UNCHANGED <<pc[v], idx[v], threads[v], coord[v]>>
      BY <1>1, <1>2, <2>1 DEF MSPc, MSCountInv
    <2>3. MSTypeOK'
      BY <1>1, <2>1, <2>2 DEF MSTypeOK
    <2>4. ASSUME NEW r \in Replica, NEW t \in ReplicaThread, NEW k \in 0..MergeCalls,
                 threads[w][r] = t, MSThreadInv(w, r, t, k)
          PROVE  MSThreadInv(w, r, t, k)'
      <3>1. Paused(w, r, t, k) /\ t.done /\ \A i \in 1..Len(t.main_result) : t.main_result[i] = AllArgs(step[w], i)
        BY <2>1, <2>4 DEF MSThreadInv
      <3>2. t.at = "ended" /\ Returned(w, r, t, k)
        BY <3>1 DEF Paused, Stopped
      <3>3. Returned(w, r, t, k)'
        BY <1>4, <2>1, <3>2
      <3> QED BY <2>1, <2>2, <3>1, <3>2, <3>3 DEF MSThreadInv
    <2> QED BY <2>1, <2>2, <2>3, <2>4, MSNothingMerged
  <1>6. CASE MS!RaiseRuntimeError(w)
    <2>1. /\ pc[w] = "paused" /\ pc' = [pc EXCEPT ![w] = "finally"]
          /\ coord' = [coord EXCEPT ![w] = TRUE]
          /\ UNCHANGED <<fault, step, idx, threads, value, pushed>>
          /\ (\E r \in Replica : threads[w][r].done) /\ (\E r \in Replica : ~threads[w][r].done)
      BY <1>3, <1>6 DEF MS!RaiseRuntimeError, MS!MainGoes, MS!DoneReplicas, MS!core
    <2>2. /\ pc' \in [Worker -> MSPc] /\ pc'[w] = "finally" /\ coord'[w] /\ ~coord[w]
          /\ coord' \in [Worker -> BOOLEAN]
          /\ \A v \in Worker : v # w => UNCHANGED <<pc[v], idx[v], threads[v], coord[v]>>
      BY <1>1, <1>2, <2>1 DEF MSPc, MSCountInv
    <2>3. MSTypeOK'
      BY <1>1, <2>1, <2>2 DEF MSTypeOK
    <2>4. fault # MS!NoFault
      <3>1. PICK q \in Replica, r \in Replica : threads[w][q].done /\ ~threads[w][r].done
        BY <2>1
      <3>2. PICK k : k = Made(w)
        OBVIOUS
      <3>3. Paused(w, q, threads[w][q], k) /\ Paused(w, r, threads[w][r], k)
        BY <1>2, <2>1, <3>1, <3>2 DEF MSThreadInv
      <3>4. k = MS!LastCall(w, q) /\ k < MergeCalls
        BY <2>2, <3>1, <3>3 DEF Paused, Stopped, Returned
      <3>5. k \in Nat /\ MergeCalls \in Nat
        BY <3>2, MSFacts
      <3>6. MS!Faulty(w, q, "fewer")
        BY <3>4, <3>5 DEF MS!LastCall
      <3> QED BY <3>6 DEF MS!Faulty, MS!NoFault
    <2>5. ASSUME NEW r \in Replica, NEW t \in ReplicaThread, NEW k \in 0..MergeCalls,
                 threads[w][r] = t, MSThreadInv(w, r, t, k), NEW nt, nt = threads'[w][r]
          PROVE  MSThreadInv(w, r, nt, k)'
      <3>1. Paused(w, r, t, k) /\ \A i \in 1..Len(t.main_result) : t.main_result[i] = AllArgs(step[w], i)
        BY <2>1, <2>5 DEF MSThreadInv
      <3>2. t.at # "running"
        BY <3>1 DEF Paused, Stopped
      <3>3. nt = t
        BY <2>1, <2>5
      <3> QED BY <2>1, <2>2, <3>1, <3>2, <3>3 DEF MSThreadInv
    <2>6. UNCHANGED <<fault, step, value, pushed>> /\ pc[w] = "paused"
      BY <2>1
    <2> QED BY <2>2, <2>3, <2>4, <2>5, <2>6, MSNothingMerged
  <1>7. CASE MS!Finally(w)
    <2>1. /\ pc[w] = "finally" /\ pc' = [pc EXCEPT ![w] = "join"]
          /\ threads' = [threads EXCEPT ![w] = [r \in Replica |-> [threads[w][r] EXCEPT !.should_run = TRUE]]]
          /\ UNCHANGED <<fault, step, idx, coord, value, pushed>>
      BY <1>3, <1>7 DEF MS!Finally, MS!MainGoes, MS!core
    <2>2. /\ [r \in Replica |-> [threads[w][r] EXCEPT !.should_run = TRUE]] \in [Replica -> ReplicaThread]
      BY <1>2 DEF ReplicaThread
    <2>3. /\ threads' \in [Worker -> [Replica -> ReplicaThread]]
          /\ \A v \in Worker : v # w => threads'[v] = threads[v]
          /\ \A r \in Replica : threads'[w][r] = [threads[w][r] EXCEPT !.should_run = TRUE]
      BY <1>1, <2>1, <2>2
    <2>4. /\ pc' \in [Worker -> MSPc] /\ pc'[w] = "join"
          /\ \A v \in Worker : v # w => UNCHANGED <<pc[v], idx[v], threads[v], coord[v]>>
      BY <1>1, <2>1, <2>3 DEF MSPc
    <2>5. MSTypeOK'
      BY <1>1, <2>1, <2>3, <2>4 DEF MSTypeOK
    <2>6. ASSUME NEW r \in Replica, NEW t \in ReplicaThread, NEW k \in 0..MergeCalls,
                 threads[w][r] = t, MSThreadInv(w, r, t, k), NEW nt, nt = threads'[w][r]
          PROVE  MSThreadInv(w, r, nt, k)'
      <3>1. nt.at = t.at /\ nt.done = t.done /\ nt.main_result = t.main_result
        BY <2>3, <2>6 DEF ReplicaThread
      <3>2. Returned(w, r, nt, k)' <=> Returned(w, r, t, k)
        BY <1>4, <2>1, <3>1 DEF Returned
      <3> QED BY <2>1, <2>4, <2>6, <3>1, <3>2 DEF MSThreadInv
    <2> QED BY <1>2, <2>1, <2>4, <2>5, <2>6, MSNothingMerged DEF MSCountInv
  <1>8. CASE MS!Join(w) /\ (coord[w] \/ step[w] = Steps)
    <2>1. /\ pc[w] = "join" /\ pc' = [pc EXCEPT ![w] = "finished"]
          /\ UNCHANGED <<fault, step, idx, threads, coord, value, pushed>>
      BY <1>1, <1>8 DEF MS!Join, MS!MainGoes, MS!core
    <2>2. /\ pc' \in [Worker -> MSPc] /\ pc'[w] = "finished"
          /\ \A v \in Worker : v # w => UNCHANGED <<pc[v], idx[v], threads[v], coord[v]>>
      BY <1>1, <2>1 DEF MSPc
    <2>3. MSTypeOK'
      BY <1>1, <2>1, <2>2 DEF MSTypeOK
    <2>4. ASSUME NEW r \in Replica, NEW t \in ReplicaThread, NEW k \in 0..MergeCalls,
                 threads[w][r] = t, MSThreadInv(w, r, t, k)
          PROVE  MSThreadInv(w, r, t, k)'
      <3>1. Returned(w, r, t, k)' <=> Returned(w, r, t, k)
        BY <1>4, <2>1
      <3> QED BY <2>1, <2>2, <2>4, <3>1 DEF MSThreadInv
    <2> QED BY <1>2, <1>8, <2>1, <2>2, <2>3, <2>4, MSNothingMerged DEF MSCountInv
  <1> QED BY <1>5, <1>6, <1>7, <1>8

\* After the last merge call of a step comes the first of the next.
LEMMA MSNextStepStep ==
  ASSUME MSInv, NEW w \in Worker, MS!Join(w), ~coord[w], step[w] < Steps PROVE MSInv'
  <1>1. /\ MSTypeOK /\ coord[w] \in BOOLEAN /\ pc \in [Worker -> MSPc]
        /\ MergeCalls \in Nat \ {0} /\ Steps \in Nat \ {0} /\ step[w] \in 1..Steps
        /\ step \in [Worker -> 1..Steps]
    BY MSPlace DEF MSTypeOK
  <1>2. /\ MSCountInv(w) /\ MSSumInv(w) /\ 1 \in Replica
        /\ \A r \in Replica : MSThreadInv(w, r, threads[w][r], Made(w))
    BY MSFacts
  <1>3. /\ pc[w] = "join" /\ pc' = [pc EXCEPT ![w] = "call"]
        /\ step' = [step EXCEPT ![w] = @ + 1]
        /\ UNCHANGED <<fault, idx, threads, coord, value, pushed>>
        /\ \A r \in Replica : threads[w][r].at = "ended"
    <2>1. \/ step[w] < Steps /\ MS!MainGoes(w, "join", "call") /\ step' = [step EXCEPT ![w] = @ + 1]
          \/ step[w] = Steps
      BY DEF MS!Join
    <2>2. step[w] # Steps
      BY <1>1
    <2>3. pc[w] = "join" /\ pc' = [pc EXCEPT ![w] = "call"] /\ step' = [step EXCEPT ![w] = @ + 1]
      BY <2>1, <2>2 DEF MS!MainGoes
    <2> QED BY <2>3 DEF MS!Join, MS!ThreadAt, MS!Replica, Replica, MS!core
  <1>4. /\ pc' \in [Worker -> MSPc] /\ pc'[w] = "call" /\ step'[w] = step[w] + 1
        /\ step' \in [Worker -> 1..Steps]
        /\ \A v \in Worker : v # w => UNCHANGED <<pc[v], step[v]>>
    BY <1>1, <1>3 DEF MSPc
  <1>5. MSTypeOK'
    BY <1>1, <1>3, <1>4 DEF MSTypeOK
  <1>6. Made(w) = MergeCalls
    <2>1. Returned(w, 1, threads[w][1], Made(w))
      BY <1>2, <1>3 DEF MSThreadInv
    <2> QED BY <1>1, <2>1 DEF Returned, MS!LastCall, MS!Faulty
  <1>7. Updates(w)' = Updates(w) /\ Merges(w)' = Merges(w)
    BY <1>3 DEF Updates, Merges
  <1>8. Made(w)' = 0
    <2>1. Len(Updates(w)) \in Nat
      BY MSFacts
    <2>2. PICK before \in Nat : before = (step[w] - 1) * MergeCalls
      BY <1>1
    <2>3. step[w] * MergeCalls = before + MergeCalls
      BY <1>1, <2>2
    <2>4. step'[w] - 1 = step[w]
      BY <1>1, <1>4
    <2>5. Made(w)' = Len(Updates(w)) - step[w] * MergeCalls
      BY <1>7, <2>4 DEF Made
    <2>6. Len(Updates(w)) - before = MergeCalls
      BY <1>6, <2>2 DEF Made
    <2> QED BY <1>1, <2>1, <2>2, <2>3, <2>5, <2>6
  <1>9. MSCountInv(w)'
    BY <1>1, <1>2, <1>3, <1>4, <1>7, <1>8 DEF MSCountInv
  <1>10. MSSumInv(w)'
    BY <1>2, <1>3, <1>7 DEF MSSumInv
  <1>11. ASSUME NEW r \in Replica, NEW t, NEW k, t = threads'[w][r] PROVE MSThreadInv(w, r, t, k)'
    BY <1>3, <1>4, <1>11 DEF MSThreadInv
  <1> QED BY <1>3, <1>4, <1>5, <1>9, <1>10, <1>11, MSOthers

\* All replicas of w are at their next merge call.
LEMMA MSAtMerge ==
  ASSUME MSInv, NEW w \in Worker, pc[w] = "paused" \/ pc[w] = "reduce",
         \A r \in Replica : ~threads[w][r].done
  PROVE  /\ Made(w) \in Nat /\ Made(w) < MergeCalls /\ Made(w) + 1 \in 1..MergeCalls
         /\ step[w] \in 1..Steps /\ step[w] \in Nat \ {0}
         /\ IsCall(Len(Updates(w)) + 1, step[w], Made(w) + 1)
         /\ \A r \in Replica :
                /\ Paused(w, r, threads[w][r], Made(w)) /\ threads[w][r].at = "merge_call"
                /\ threads[w][r].merge_args = {<<w, r, step[w], Made(w) + 1>>}
  <1>1. /\ 1 \in Replica /\ Made(w) \in 0..MergeCalls
        /\ \A r \in Replica : MSThreadInv(w, r, threads[w][r], Made(w))
        /\ Len(Updates(w)) \in Nat
    BY MSFacts
  <1>2. step[w] \in 1..Steps /\ MergeCalls \in Nat \ {0} /\ Steps \in Nat
    BY MSPlace
  <1>3. ASSUME NEW r \in Replica
        PROVE  /\ Paused(w, r, threads[w][r], Made(w)) /\ threads[w][r].at = "merge_call"
               /\ threads[w][r].merge_args = {<<w, r, step[w], Made(w) + 1>>} /\ Made(w) < MergeCalls
    <2>1. Paused(w, r, threads[w][r], Made(w))
      BY <1>1 DEF MSThreadInv
    <2> QED BY <2>1 DEF Paused, Stopped, Returned
  <1>4. PICK before \in Nat : before = (step[w] - 1) * MergeCalls
    BY <1>2
  <1>5. IsCall(Len(Updates(w)) + 1, step[w], Made(w) + 1)
    <2>1. Made(w) = Len(Updates(w)) - before
      BY <1>4 DEF Made
    <2>2. Len(Updates(w)) + 1 = before + ((Made(w) + 1) - 1) + 1
      BY <1>1, <1>4, <2>1
    <2> QED BY <1>4, <2>2 DEF IsCall
  <1> QED BY <1>1, <1>2, <1>3, <1>5

LEMMA MSMergeFnStep ==
  ASSUME MSInv, NEW w \in Worker, MS!MergeFn(w) PROVE MSInv'
  <1>1. /\ MSTypeOK /\ coord[w] \in BOOLEAN /\ pc \in [Worker -> MSPc]
    BY MSPlace
  <1>2. /\ MSCountInv(w) /\ MSSumInv(w) /\ 1 \in Replica
        /\ Merges(w) \in Seq(SUBSET Contribution) /\ Updates(w) \in Seq(SUBSET Contribution)
        /\ Made(w) \in 0..MergeCalls
        /\ \A r \in Replica : MSThreadInv(w, r, threads[w][r], Made(w))
    BY MSFacts
  <1>3. /\ pc[w] = "paused" /\ pc' = [pc EXCEPT ![w] = "reduce"]
        /\ \A r \in Replica : ~threads[w][r].done
        /\ pushed' = [pushed EXCEPT ![w]["merged"] = Append(@, MS!_simple_reduce(w))]
        /\ UNCHANGED <<fault, step, idx, threads, coord, value>>
    BY DEF MS!MergeFn, MS!MainGoes, MS!DoneReplicas, MS!reduce_implementation, MS!push_pull_async,
           MS!Merged, MS!Replica, Replica
  <1>4. PICK k \in Nat : /\ k = Made(w) /\ k < MergeCalls /\ k + 1 \in 1..MergeCalls
                         /\ step[w] \in 1..Steps /\ step[w] \in Nat \ {0}
                         /\ IsCall(Len(Updates(w)) + 1, step[w], k + 1)
                         /\ \A r \in Replica :
                            /\ Paused(w, r, threads[w][r], k) /\ threads[w][r].at = "merge_call"
                            /\ threads[w][r].merge_args = {<<w, r, step[w], k + 1>>}
    BY <1>3, MSAtMerge
  <1>5. MS!_simple_reduce(w) = OwnArgs(w, step[w], k + 1)
    <2>1. MS!_simple_reduce(w) = UNION {threads[w][r].merge_args : r \in Replica}
      BY DEF MS!_simple_reduce, MS!Replica, Replica
    <2> QED BY <1>4, <2>1 DEF OwnArgs
  <1>6. OwnArgs(w, step[w], k + 1) \in SUBSET Contribution
    BY <1>4 DEF OwnArgs, Contribution
  <1>7. PICK args \in SUBSET Contribution : args = OwnArgs(w, step[w], k + 1)
    BY <1>6
  <1>8. /\ Merges(w)' = Append(Merges(w), args) /\ \A v \in Worker : v # w => pushed'[v] = pushed[v]
        /\ pushed' \in [Worker -> [{"merged"} -> Seq(SUBSET Contribution)]]
    <2>1. pushed' = [pushed EXCEPT ![w]["merged"] = Append(@, args)]
      BY <1>3, <1>5, <1>7
    <2>2. pushed \in [Worker -> [{"merged"} -> Seq(SUBSET Contribution)]]
      BY <1>1 DEF MSTypeOK
    <2>3. Append(Merges(w), args) \in Seq(SUBSET Contribution)
      BY <1>2, <1>7, AppendFacts
    <2>4. pushed' = [pushed EXCEPT ![w]["merged"] = Append(Merges(w), args)]
      BY <2>1, <2>2 DEF Merges
    <2> QED BY <2>2, <2>3, <2>4, ExceptType DEF Merges
  <1>9. /\ pc' \in [Worker -> MSPc] /\ pc'[w] = "reduce"
        /\ \A v \in Worker : v # w => UNCHANGED <<pc[v], step[v], idx[v], threads[v], coord[v],
                                                  value[v], pushed[v]>>
    BY <1>1, <1>3, <1>8 DEF MSPc
  <1>10. MSTypeOK'
    BY <1>1, <1>3, <1>8, <1>9 DEF MSTypeOK
  <1>11. Updates(w)' = Updates(w) /\ Made(w)' = k
    BY <1>3, <1>4 DEF Updates, Made
  <1>12. /\ Len(Merges(w)) \in Nat /\ Len(Merges(w)') = Len(Merges(w)) + 1
         /\ Merges(w)'[Len(Merges(w)) + 1] = args
         /\ \A n \in 1..Len(Merges(w)) : Merges(w)'[n] = Merges(w)[n]
         /\ \A n \in 1..(Len(Merges(w)) + 1) : n \in 1..Len(Merges(w)) \/ n = Len(Merges(w)) + 1
    BY <1>2, <1>7, <1>8, AppendFacts
  <1>13. Len(Merges(w)) = Len(Updates(w)) /\ ~coord[w]
    BY <1>2, <1>3 DEF MSCountInv
  <1>14. MSCountInv(w)'
    <2>1. Made(w)' \in 0..MergeCalls
      BY <1>2, <1>4, <1>11
    <2> QED BY <1>2, <1>3, <1>9, <1>11, <1>12, <1>13, <2>1 DEF MSCountInv
  <1>15. MSSumInv(w)'
    <2>1. ASSUME NEW n \in 1..Len(Merges(w)')
          PROVE  \E s \in 1..Steps, j \in 1..MergeCalls :
                    IsCall(n, s, j) /\ Merges(w)'[n] = OwnArgs(w, s, j)
      <3>1. CASE n \in 1..Len(Merges(w))
        BY <1>2, <1>12, <3>1 DEF MSSumInv
      <3>2. CASE n = Len(Merges(w)) + 1
        <4>1. IsCall(n, step[w], k + 1) /\ Merges(w)'[n] = OwnArgs(w, step[w], k + 1)
          BY <1>4, <1>7, <1>12, <1>13, <3>2
        <4> QED BY <1>4, <4>1
      <3> QED BY <1>12, <3>1, <3>2
    <2> QED BY <1>2, <1>3, <1>11, <2>1 DEF MSSumInv
  <1>16. ASSUME NEW r \in Replica, NEW t, NEW j, t = threads'[w][r], j = Made(w)'
         PROVE  MSThreadInv(w, r, t, j)'
    <2>1. /\ t = threads[w][r] /\ j = k /\ Paused(w, r, t, k) /\ t.at = "merge_call"
          /\ MSThreadInv(w, r, t, k)
      BY <1>2, <1>3, <1>4, <1>11, <1>16
    <2>2. Paused(w, r, t, k)'
      BY <1>3, <2>1 DEF Paused, Stopped, Returned, MS!LastCall, MS!Faulty
    <2> QED BY <1>3, <1>9, <2>1, <2>2 DEF MSThreadInv
  <1> QED BY <1>3, <1>9, <1>10, <1>14, <1>15, <1>16, MSOthers

\* What the core returns is every replica's argument of this call, and no other.
LEMMA MSOutput ==
  ASSUME MSInv, NEW w \in Worker, pc[w] = "reduce", MS!Done("merged", Len(Merges(w)))
  PROVE  UNION MS!Output(w, "merged") = AllArgs(step[w], Made(w) + 1)
  <1>1. \A r \in Replica : ~threads[w][r].done
    <2> SUFFICES ASSUME NEW r \in Replica PROVE ~threads[w][r].done
      OBVIOUS
    <2>1. MSThreadInv(w, r, threads[w][r], Made(w))
      BY MSFacts
    <2> QED BY <2>1 DEF MSThreadInv, Paused, Stopped
  <1>2. PICK k \in Nat, n \in Nat :
            /\ k = Made(w) /\ k < MergeCalls /\ n = Len(Merges(w))
            /\ step[w] \in 1..Steps /\ IsCall(n, step[w], k + 1)
    <2>1. Len(Merges(w)) = Len(Updates(w)) + 1 /\ Len(Merges(w)) \in Nat
      BY MSFacts DEF MSCountInv
    <2> QED BY <1>1, <2>1, MSAtMerge
  <1>3. /\ MergeCalls \in Nat \ {0} /\ Steps \in Nat \ {0} /\ n \in Nat
        /\ n >= 1
    <2>1. MergeCalls \in Nat \ {0} /\ Steps \in Nat \ {0} /\ Len(Merges(w)) \in Nat
      BY MSFacts
    <2>2. Len(Merges(w)) = Len(Updates(w)) + 1 /\ Len(Updates(w)) \in Nat
      BY MSFacts DEF MSCountInv
    <2> QED BY <1>2, <2>1, <2>2
  <1>4. ASSUME NEW v \in Worker
        PROVE  pushed[v]["merged"][n] = OwnArgs(v, step[w], k + 1) /\ Len(pushed[v]["merged"]) >= n
    <2>1. Len(Merges(v)) >= n
      BY <1>2 DEF MS!Done, Merges
    <2>2. Len(Merges(v)) \in Nat /\ MSSumInv(v)
      BY MSFacts
    <2>3. n \in 1..Len(Merges(v))
      BY <1>3, <2>1, <2>2
    <2>4. PICK s \in 1..Steps, j \in 1..MergeCalls :
              IsCall(n, s, j) /\ Merges(v)[n] = OwnArgs(v, s, j)
      BY <2>2, <2>3 DEF MSSumInv
    <2>5. PICK b \in 0..(MergeCalls - 1) : b = j - 1
      BY <1>3
    <2>6. s \in Nat \ {0} /\ step[w] \in Nat \ {0} /\ k \in 0..(MergeCalls - 1) /\ j = b + 1
      BY <1>2, <1>3, <2>5
    <2>7. (s - 1) * MergeCalls + b = (step[w] - 1) * MergeCalls + k
      <3>1. PICK x \in Nat, y \in Nat : x = (s - 1) * MergeCalls /\ y = (step[w] - 1) * MergeCalls
        <4>1. \A a \in Nat \ {0} : (a - 1) * MergeCalls \in Nat
          BY <1>3
        <4> QED BY <2>6, <4>1
      <3>2. n = x + (j - 1) + 1
        BY <2>4, <3>1 DEF IsCall
      <3>3. n = y + ((k + 1) - 1) + 1
        BY <1>2, <3>1 DEF IsCall
      <3>4. x + b = y + k
        BY <2>5, <2>6, <3>2, <3>3
      <3> QED BY <3>1, <3>4
    <2>8. PICK c \in Nat \ {0} : c = step[w]
      BY <2>6
    <2>9. s = c /\ b = k
      <3>1. (s - 1) * MergeCalls + b = (c - 1) * MergeCalls + k
        BY <2>7, <2>8
      <3> QED BY <1>3, <2>5, <2>6, <3>1, OneDecomposition
    <2> QED BY <2>1, <2>4, <2>6, <2>8, <2>9 DEF Merges
  <1>5. MS!Output(w, "merged") = {OwnArgs(v, step[w], k + 1) : v \in Worker}
    <2>1. MS!Output(w, "merged") = {pushed[v]["merged"][n] : v \in {u \in Worker : Len(pushed[u]["merged"]) >= n}}
      BY <1>2 DEF MS!Output, Merges
    <2>2. {u \in Worker : Len(pushed[u]["merged"]) >= n} = Worker
      BY <1>4
    <2> QED BY <1>4, <2>1, <2>2
  <1>6. UNION {OwnArgs(v, step[w], k + 1) : v \in Worker} = AllArgs(step[w], k + 1)
    BY DEF OwnArgs, AllArgs
  <1> QED BY <1>2, <1>5, <1>6

LEMMA MSMergeResultStep ==
  ASSUME MSInv, NEW w \in Worker, MS!MergeResult(w) PROVE MSInv'
  <1>1. /\ MSTypeOK /\ coord[w] \in BOOLEAN /\ pc \in [Worker -> MSPc] /\ idx \in [Worker -> Replica]
        /\ threads \in [Worker -> [Replica -> ReplicaThread]]
        /\ MergeCalls \in Nat \ {0} /\ \A r \in Replica : r \in Nat \ {0}
    BY MSPlace
  <1>2. /\ MSCountInv(w) /\ MSSumInv(w) /\ 1 \in Replica
        /\ Updates(w) \in Seq(SUBSET Contribution)
        /\ \A r \in Replica : /\ threads[w][r] \in ReplicaThread
                              /\ MSThreadInv(w, r, threads[w][r], Made(w))
    BY MSFacts
  <1>3. PICK sum : sum = UNION MS!Output(w, "merged")
    OBVIOUS
  <1>4. /\ pc[w] = "reduce" /\ pc' = [pc EXCEPT ![w] = "set"] /\ idx' = [idx EXCEPT ![w] = 1]
        /\ MS!Done("merged", Len(Merges(w)))
        /\ value' = [value EXCEPT ![w] = [r \in Replica |-> [value[w][r] EXCEPT !.updates = Append(@, sum)]]]
        /\ threads' = [threads EXCEPT ![w] = [r \in Replica |-> [threads[w][r] EXCEPT !.merge_result = sum]]]
        /\ UNCHANGED <<fault, step, coord, pushed>>
    BY <1>3 DEF MS!MergeResult, MS!MainGoes, MS!synchronize, MS!_update, MS!Merged, MS!Replica, Replica,
                Merges
  <1>5. \A r \in Replica : Paused(w, r, threads[w][r], Made(w)) /\ ~threads[w][r].done
    <2> SUFFICES ASSUME NEW r \in Replica
                 PROVE  Paused(w, r, threads[w][r], Made(w)) /\ ~threads[w][r].done
      OBVIOUS
    <2>1. Paused(w, r, threads[w][r], Made(w)) /\ threads[w][r].at = "merge_call"
      BY <1>2, <1>4 DEF MSThreadInv
    <2> QED BY <2>1 DEF Paused, Stopped
  <1>6. PICK k \in Nat : /\ k = Made(w) /\ k < MergeCalls /\ k + 1 \in 1..MergeCalls
                         /\ step[w] \in 1..Steps /\ step[w] \in Nat \ {0}
                         /\ IsCall(Len(Updates(w)) + 1, step[w], k + 1)
                         /\ \A r \in Replica :
                            Paused(w, r, threads[w][r], k) /\ threads[w][r].at = "merge_call"
    BY <1>4, <1>5, MSAtMerge
  <1>7. sum = AllArgs(step[w], k + 1)
    BY <1>3, <1>4, <1>6, MSOutput
  <1>8. sum \in SUBSET Contribution
    BY <1>6, <1>7 DEF AllArgs, Contribution
  <1>9. /\ value' \in [Worker -> [Replica -> [of : Worker \X {1}, updates : Seq(SUBSET Contribution)]]]
        /\ \A v \in Worker : v # w => value'[v] = value[v]
        /\ \A r \in Replica : value'[w][r] = [value[w][1] EXCEPT !.updates = Append(Updates(w), sum)]
    <2> DEFINE C == [of : Worker \X {1}, updates : Seq(SUBSET Contribution)]
    <2>1. value \in [Worker -> [Replica -> C]]
      BY <1>1 DEF MSTypeOK
    <2>2. \A r \in Replica : value[w][r] = value[w][1]
      BY <1>2 DEF MSSumInv
    <2>3. PICK one \in C : one = [value[w][1] EXCEPT !.updates = Append(Updates(w), sum)]
      <3>1. value[w][1] \in C
        BY <1>2, <2>1
      <3>2. Append(Updates(w), sum) \in Seq(SUBSET Contribution)
        BY <1>2, <1>8, AppendFacts
      <3> QED BY <3>1, <3>2
    <2>4. \A r \in Replica : [value[w][r] EXCEPT !.updates = Append(@, sum)] = one
      BY <2>2, <2>3 DEF Updates
    <2>5. value' = [value EXCEPT ![w] = [r \in Replica |-> one]]
      BY <1>4, <2>4
    <2> HIDE DEF C
    <2>6. /\ value' \in [Worker -> [Replica -> C]] /\ \A r \in Replica : value'[w][r] = one
          /\ \A v \in Worker : v # w => value'[v] = value[v]
      BY <2>1, <2>3, <2>5
    <2> QED BY <2>3, <2>6 DEF C
  <1>10. /\ threads' \in [Worker -> [Replica -> ReplicaThread]]
         /\ \A v \in Worker : v # w => threads'[v] = threads[v]
         /\ \A r \in Replica : threads'[w][r] = [threads[w][r] EXCEPT !.merge_result = sum]
    <2>1. [r \in Replica |-> [threads[w][r] EXCEPT !.merge_result = sum]] \in [Replica -> ReplicaThread]
      <3>1. ASSUME NEW r \in Replica PROVE [threads[w][r] EXCEPT !.merge_result = sum] \in ReplicaThread
        <4>1. threads[w][r] \in ReplicaThread
          BY <1>2
        <4> QED BY <1>8, <4>1 DEF ReplicaThread
      <3> QED BY <3>1
    <2> QED BY <1>1, <1>4, <2>1
  <1>11. /\ pc' \in [Worker -> MSPc] /\ idx' \in [Worker -> Replica] /\ pc'[w] = "set" /\ idx'[w] = 1
         /\ \A v \in Worker : v # w => UNCHANGED <<pc[v], step[v], idx[v], threads[v], coord[v],
                                                   value[v], pushed[v]>>
    BY <1>1, <1>2, <1>4, <1>9, <1>10 DEF MSPc
  <1>12. MSTypeOK'
    BY <1>1, <1>4, <1>9, <1>10, <1>11 DEF MSTypeOK
  <1>13. Updates(w)' = Append(Updates(w), sum) /\ Merges(w)' = Merges(w)
    <2>1. value[w][1] \in [of : Worker \X {1}, updates : Seq(SUBSET Contribution)]
      BY <1>1, <1>2 DEF MSTypeOK
    <2> QED BY <1>2, <1>4, <1>9, <2>1 DEF Updates, Merges
  <1>14. /\ Len(Updates(w)) \in Nat /\ Len(Updates(w)') = Len(Updates(w)) + 1
         /\ Updates(w)'[Len(Updates(w)) + 1] = sum
         /\ \A n \in 1..Len(Updates(w)) : Updates(w)'[n] = Updates(w)[n]
         /\ \A n \in 1..(Len(Updates(w)) + 1) : n \in 1..Len(Updates(w)) \/ n = Len(Updates(w)) + 1
    BY <1>2, <1>8, <1>13, AppendFacts
  <1>15. Made(w)' = k + 1
    <2>1. PICK before \in Nat : before = (step[w] - 1) * MergeCalls
      BY <1>1, <1>6
    <2>2. k = Len(Updates(w)) - before /\ Made(w)' = Len(Updates(w)') - before
      BY <1>4, <1>6, <2>1 DEF Made
    <2> QED BY <1>14, <2>2
  <1>16. MSCountInv(w)'
    BY <1>1, <1>2, <1>4, <1>6, <1>11, <1>13, <1>14, <1>15 DEF MSCountInv
  <1>17. MSSumInv(w)'
    <2>1. ASSUME NEW n \in 1..Len(Updates(w)')
          PROVE  \E s \in 1..Steps, j \in 1..MergeCalls :
                    IsCall(n, s, j) /\ Updates(w)'[n] = AllArgs(s, j)
      <3>1. CASE n \in 1..Len(Updates(w))
        BY <1>2, <1>14, <3>1 DEF MSSumInv
      <3>2. CASE n = Len(Updates(w)) + 1
        <4>1. IsCall(n, step[w], k + 1) /\ Updates(w)'[n] = AllArgs(step[w], k + 1)
          BY <1>6, <1>7, <1>14, <3>2
        <4> QED BY <1>6, <4>1
      <3> QED BY <1>14, <3>1, <3>2
    <2>2. \A r \in Replica : value'[w][r] = value'[w][1]
      BY <1>2, <1>9
    <2> QED BY <1>2, <1>13, <2>1, <2>2 DEF MSSumInv
  <1>18. ASSUME NEW r \in Replica, NEW t, NEW j, t = threads'[w][r], j = Made(w)'
         PROVE  MSThreadInv(w, r, t, j)'
    <2>1. PICK old \in ReplicaThread :
            /\ old = threads[w][r] /\ Paused(w, r, old, k) /\ old.at = "merge_call"
            /\ \A i \in 1..Len(old.main_result) : old.main_result[i] = AllArgs(step[w], i)
      BY <1>2, <1>4, <1>6 DEF MSThreadInv
    <2>2. /\ t.main_result = old.main_result /\ t.at = "merge_call" /\ t.merge_result = sum
          /\ t.has_paused = old.has_paused /\ t.done = old.done /\ t.should_run = old.should_run
      BY <1>10, <1>18, <2>1 DEF ReplicaThread
    <2>3. j = k + 1 /\ j # 0 /\ j - 1 = k
      BY <1>6, <1>15, <1>18
    <2>4. ~old.has_paused /\ ~old.done /\ ~old.should_run /\ Len(old.main_result) = k
      BY <2>1 DEF Paused, Stopped
    <2>5. Fresh(w, r, t, j)'
      BY <1>4, <1>7, <2>2, <2>3, <2>4 DEF Fresh, Behind
    <2>6. ~(r < 1)
      BY <1>1
    <2> QED BY <1>4, <1>11, <2>1, <2>2, <2>5, <2>6 DEF MSThreadInv
  <1> QED BY <1>4, <1>11, <1>12, <1>16, <1>17, <1>18, MSOthers

LEMMA MSInitial == MS!MSInit => MSInv
  <1> SUFFICES ASSUME MS!MSInit PROVE MSInv
    OBVIOUS
  <1>1. /\ {Replicas, MergeCalls, Steps} \subseteq Nat \ {0} /\ 1 \in Replica
        /\ \A r \in Replica : r \in Nat
    BY CountsAssumption DEF Replica
  <1>2. << >> \in Seq(SUBSET Contribution) /\ Len(<< >>) = 0 /\ {} \in SUBSET Contribution
    BY EmptySequences
  <1>3. MS!NewThread \in ReplicaThread
    BY <1>2 DEF MS!NewThread, ReplicaThread
  <1>4. /\ pc = [w \in Worker |-> "call"] /\ step = [w \in Worker |-> 1] /\ idx = [w \in Worker |-> 1]
        /\ threads = [w \in Worker |-> [r \in Replica |-> MS!NewThread]]
        /\ coord = [w \in Worker |-> FALSE]
        /\ value = [w \in Worker |-> [r \in Replica |-> [of |-> <<w, 1>>, updates |-> << >>]]]
        /\ pushed = [w \in Worker |-> [n \in {"merged"} |-> << >>]]
        /\ fault \in {MS!NoFault} \cup [kind : {"raises", "fewer"}, replica : Replica]
    BY DEF MS!MSInit, MS!CoreInit, MS!Merged, MS!Replica, Replica, MS!_create_variable,
           MS!_get_variable_creator_initial_value
  <1>5. MSTypeOK
    <2>1. fault \in [kind : {"none", "raises", "fewer"}, replica : Nat]
      BY <1>1, <1>4 DEF MS!NoFault
    <2>2. /\ pc \in [Worker -> MSPc] /\ step \in [Worker -> 1..Steps] /\ idx \in [Worker -> Replica]
          /\ coord \in [Worker -> BOOLEAN]
      BY <1>1, <1>4 DEF MSPc
    <2>3. threads \in [Worker -> [Replica -> ReplicaThread]]
      BY <1>3, <1>4
    <2>4. value \in [Worker -> [Replica -> [of : Worker \X {1}, updates : Seq(SUBSET Contribution)]]]
      BY <1>2, <1>4
    <2>5. pushed \in [Worker -> [{"merged"} -> Seq(SUBSET Contribution)]]
      BY <1>2, <1>4
    <2> QED BY <2>1, <2>2, <2>3, <2>4, <2>5 DEF MSTypeOK
  <1>6. ASSUME NEW w \in Worker PROVE MSLocal(w)
    <2>1. Updates(w) = << >> /\ Merges(w) = << >>
      BY <1>1, <1>4 DEF Updates, Merges
    <2>2. Made(w) = 0
      BY <1>1, <1>2, <1>4, <2>1 DEF Made
    <2>3. MSCountInv(w)
      BY <1>1, <1>2, <1>4, <2>1, <2>2 DEF MSCountInv
    <2>4. \A n \in 1..0 : FALSE
      OBVIOUS
    <2>5. \A r \in Replica : value[w][r] = value[w][1]
      BY <1>1, <1>4
    <2>6. MSSumInv(w)
      BY <1>2, <2>1, <2>4, <2>5 DEF MSSumInv
    <2>7. \A r \in Replica : MSThreadInv(w, r, threads[w][r], Made(w))
      BY <1>4 DEF MSThreadInv, MS!NewThread
    <2> QED BY <2>3, <2>6, <2>7 DEF MSLocal
  <1> QED BY <1>5, <1>6 DEF MSInv

LEMMA MSStutter == MSInv /\ UNCHANGED vars => MSInv'
  <1> SUFFICES ASSUME MSInv, UNCHANGED vars PROVE MSInv'
    OBVIOUS
  <1>1. UNCHANGED <<fault, pc, step, idx, threads, coord, value, pushed>>
    BY DEF vars, shared, tfonly, msonly, core
  <1>2. MSTypeOK'
    BY <1>1, MSPlace DEF MSInv, MSTypeOK
  <1>3. ASSUME NEW w \in Worker PROVE MSLocal(w)'
    <2>1. Updates(w)' = Updates(w) /\ Merges(w)' = Merges(w) /\ Made(w)' = Made(w)
      BY <1>1 DEF Updates, Merges, Made
    <2>2. MSCountInv(w)' /\ MSSumInv(w)'
      <3>1. MSCountInv(w) /\ MSSumInv(w)
        BY MSFacts
      <3>2. MSCountInv(w)'
        BY <1>1, <2>1, <3>1 DEF MSCountInv, MS!NoFault
      <3>3. MSSumInv(w)'
        BY <1>1, <2>1, <3>1 DEF MSSumInv
      <3> QED BY <3>2, <3>3
    <2>3. ASSUME NEW r \in Replica PROVE MSThreadInv(w, r, threads[w][r], Made(w))'
      <3>1. PICK t, k : t = threads[w][r] /\ k = Made(w)
        OBVIOUS
      <3>2. MSThreadInv(w, r, t, k)
        BY <3>1, MSFacts
      <3>3. MSThreadInv(w, r, t, k)'
        BY <1>1, <3>2, MSThreadFrame
      <3> QED BY <1>1, <2>1, <3>1, <3>3
    <2> QED BY <2>2, <2>3 DEF MSLocal
  <1> QED BY <1>2, <1>3 DEF MSInv

MSJob == plugin = "mirrored" => MSInv

LEMMA MSJobInductive == MSJob /\ [Next]_vars => MSJob'
  <1> SUFFICES ASSUME MSJob, [Next]_vars, plugin' = "mirrored" PROVE MSInv'
    BY DEF MSJob
  <1>1. MSInv
    BY PluginStays DEF MSJob
  <1>2. CASE Next
    <2>1. \E w \in Worker : MS!MainThread(w) \/ \E r \in Replica : MS!ReplicaThread(w, r)
      BY <1>2, PluginStays
         DEF Next, Runs, TorchRuns, DDPRuns, HalfRuns, MXRuns, TFRuns, CBMain, CBPoller, CBCore,
             MSMain, MSReplica, Replica
    <2>2. ASSUME NEW w \in Worker, MS!MainThread(w) PROVE MSInv'
      <3>1. CASE MS!Join(w)
        <4>1. coord[w] \/ step[w] = Steps \/ (~coord[w] /\ step[w] < Steps)
          BY <3>1 DEF MS!Join
        <4> QED BY <1>1, <3>1, <4>1, MSEndSteps, MSNextStepStep
      <3>2. CASE ~MS!Join(w)
        BY <1>1, <2>2, <3>2, MSStartThreadsStep, MSHandshakeSteps, MSEndSteps, MSMergeFnStep,
           MSMergeResultStep DEF MS!MainThread
      <3> QED BY <3>1, <3>2
    <2>3. ASSUME NEW w \in Worker, NEW r \in Replica, MS!ReplicaThread(w, r) PROVE MSInv'
      BY <1>1, <2>3, MSThreadSteps, MSRaisesStep DEF MS!ReplicaThread
    <2> QED BY <2>1, <2>2, <2>3
  <1>3. CASE UNCHANGED vars
    BY <1>1, <1>3, MSStutter
  <1> QED BY <1>2, <1>3

LEMMA MSAgrees == MSInv => MS!MergedFromOneCall /\ MS!MirroredCopiesAgree
  <1> SUFFICES ASSUME MSInv PROVE MS!MergedFromOneCall /\ MS!MirroredCopiesAgree
    OBVIOUS
  <1>1. Replica = MS!Replica
    BY DEF Replica, MS!Replica
  <1>2. MS!MergedFromOneCall
    <2> SUFFICES ASSUME NEW w \in Worker, NEW r \in Replica, pc[w] # "call",
                        NEW k \in 1..Len(threads[w][r].main_result)
                 PROVE  threads[w][r].main_result[k] = {<<v, q, step[w], k>> : v \in Worker, q \in Replica}
      BY <1>1 DEF MS!MergedFromOneCall, MS!CallsMade
    <2>1. MSThreadInv(w, r, threads[w][r], Made(w))
      BY MSFacts
    <2> QED BY <2>1 DEF MSThreadInv, AllArgs
  <1>3. MS!MirroredCopiesAgree
    <2> DEFINE Sums(us) ==
          \A u \in 1..Len(us) : \E s \in 1..Steps, k \in 1..MergeCalls :
             /\ u = (s - 1) * MergeCalls + k
             /\ us[u] = {<<v, q, s, k>> : v \in Worker, q \in MS!Replica}
    <2> SUFFICES ASSUME NEW w \in Worker, NEW r \in MS!Replica
                 PROVE  /\ value[w][r] = value[w][1]
                        /\ Sums(value[w][r].updates)
                        /\ pc[w] = "finished" /\ fault = MS!NoFault =>
                              Len(value[w][r].updates) = Steps * MergeCalls
      BY DEF MS!MirroredCopiesAgree
    <2>1. value[w][r] = value[w][1] /\ value[w][r].updates = Updates(w)
      BY <1>1, MSFacts DEF MSSumInv, Updates
    <2>2. Sums(Updates(w))
      <3> SUFFICES ASSUME NEW u \in 1..Len(Updates(w))
                   PROVE  \E s \in 1..Steps, k \in 1..MergeCalls :
                             /\ u = (s - 1) * MergeCalls + k
                             /\ Updates(w)[u] = {<<v, q, s, k>> : v \in Worker, q \in MS!Replica}
        OBVIOUS
      <3>1. PICK s \in 1..Steps, k \in 1..MergeCalls : IsCall(u, s, k) /\ Updates(w)[u] = AllArgs(s, k)
        BY MSFacts DEF MSSumInv
      <3>2. MergeCalls \in Nat \ {0} /\ Steps \in Nat \ {0}
        BY MSPlace
      <3>3. PICK x \in Nat : x = (s - 1) * MergeCalls
        <4>1. \A a \in Nat \ {0} : (a - 1) * MergeCalls \in Nat
          BY <3>2
        <4>2. s \in Nat \ {0}
          BY <3>2
        <4> QED BY <4>1, <4>2
      <3>4. u = x + (k - 1) + 1
        BY <3>1, <3>3 DEF IsCall
      <3>5. u = x + k
        BY <3>2, <3>3, <3>4
      <3>6. u = (s - 1) * MergeCalls + k
        BY <3>3, <3>5
      <3>7. Updates(w)[u] = {<<v, q, s, k>> : v \in Worker, q \in MS!Replica}
        BY <1>1, <3>1 DEF AllArgs
      <3> QED BY <3>6, <3>7
    <2>3. ASSUME pc[w] = "finished", fault = MS!NoFault PROVE Len(Updates(w)) = Steps * MergeCalls
      <3>1. ~coord[w] /\ step[w] = Steps
        BY <2>3, MSFacts DEF MSCountInv
      <3>2. 1 \in Replica /\ MSThreadInv(w, 1, threads[w][1], Made(w))
        BY MSFacts
      <3>3. Made(w) = MS!LastCall(w, 1)
        BY <2>3, <3>1, <3>2 DEF MSThreadInv, Returned
      <3>4. Made(w) = MergeCalls
        BY <2>3, <3>3 DEF MS!LastCall, MS!Faulty, MS!NoFault
      <3>5. MergeCalls \in Nat \ {0} /\ Steps \in Nat \ {0}
        BY MSPlace
      <3>6. PICK x \in Nat : x = (Steps - 1) * MergeCalls
        BY <3>5
      <3>7. Steps * MergeCalls = x + MergeCalls
        BY <3>5, <3>6
      <3>8. Len(Updates(w)) - x = MergeCalls /\ Len(Updates(w)) \in Nat
        BY <3>1, <3>4, <3>6, MSFacts DEF Made
      <3> QED BY <3>5, <3>6, <3>7, <3>8
    <2> HIDE DEF Sums
    <2>4. Sums(value[w][r].updates)
      BY <2>1, <2>2, Zenon
    <2>5. pc[w] = "finished" /\ fault = MS!NoFault =>
              Len(value[w][r].updates) = Steps * MergeCalls
      BY <2>1, <2>3, Zenon
    <2> QED BY <2>1, <2>4, <2>5
  <1> QED BY <1>2, <1>3

-----------------------------------------------------------------------------
(* TensorFlow: one broadcast, then one averaged update per step.            *)

TFVar == Range(Param)
TFSum == SUBSET (Worker \X Nat)
TFCopy == [of : Worker \cup {"zero"}, updates : Seq(TFSum)]
TFName == {TF!GradientOf(p) : p \in TFVar} \cup {TF!VariableOf(p) : p \in TFVar}
TFPc == {"broadcast", "broadcasting", "compute", "aggregate", "next", "finished"}
TFStage == {"idle", "push", "sum", "averaged", "bcast", "received"}

TFTypeOK ==
    /\ mode \in {"session", "keras", "tape"} /\ dependent \subseteq TFVar
    /\ pc \in [Worker -> TFPc]
    /\ step \in [Worker -> Nat \ {0}]
    /\ stage \in [Worker -> [TFVar -> TFStage]]
    /\ broadcast_done \in [Worker -> BOOLEAN]
    /\ grad \in [Worker -> [TFVar -> TFSum]]
    /\ value \in [Worker -> [TFVar -> TFCopy]]
    /\ pushed \in [Worker -> [TFName -> Seq(TFSum \cup TFCopy)]]

\* The first n updates, each with the contributions of all workers.
AllOf(k) == {<<v, k>> : v \in Worker}
Averages(us, n) == Len(us) = n /\ \A k \in 1..n : us[k] = AllOf(k)

\* The update of the current step has been made, its gradient has been pushed.
BatchOver(w) == pc[w] \in {"next", "finished"} \/ (mode # "session" /\ pc[w] \in {"broadcast", "broadcasting"})
TFApplied(w, p, st) ==
    IF p \notin dependent THEN 0
    ELSE IF BatchOver(w) \/ (pc[w] = "aggregate" /\ st = "idle") THEN step[w] ELSE step[w] - 1
TFPushes(w, p, st) ==
    IF p \notin dependent THEN 0
    ELSE IF BatchOver(w) \/ (pc[w] = "aggregate" /\ st # "push") THEN step[w] ELSE step[w] - 1
\* How many updates the broadcast variable has had.
TFEarly(p) == IF p \in dependent /\ mode # "session" THEN 1 ELSE 0

\* A worker is done with the broadcast of a variable, or has pushed it.
Assigned(w, st) == broadcast_done[w] \/ (pc[w] = "broadcasting" /\ st = "idle")
Sent(w, st) == broadcast_done[w] \/ (pc[w] = "broadcasting" /\ st \in {"idle", "received"})

TFMainInv(w) ==
    IF broadcast_done[w] THEN pc[w] \notin {"broadcast", "broadcasting"}
    ELSE step[w] = 1 /\ pc[w] \in IF mode = "session" THEN {"broadcast", "broadcasting"}
                                  ELSE {"broadcast", "broadcasting", "compute", "aggregate"}
TFStageInv(w, p, st, g) ==
    /\ pc[w] \notin {"aggregate", "broadcasting"} => st = "idle"
    /\ pc[w] = "aggregate" => /\ st \in {"idle", "push", "sum", "averaged"}
                              /\ (p \notin dependent => st = "idle")
    /\ pc[w] = "broadcasting" => st \in {"bcast", "received", "idle"}
    /\ st = "push" => g = {<<w, step[w]>>}
    /\ st = "averaged" => g = AllOf(step[w])
TFCopyInv(w, p, st, val) ==
    /\ Averages(val.updates, TFApplied(w, p, st))
    /\ w = Root \/ Assigned(w, st) => val.of = Root
TFGradInv(w, p, st, gs) ==
    Len(gs) = TFPushes(w, p, st) /\ \A n \in 1..Len(gs) : gs[n] = {<<w, n>>}
TFSentInv(w, p, st, vs) ==
    /\ Len(vs) = IF Sent(w, st) THEN 1 ELSE 0
    /\ Sent(w, st) => IF w = Root THEN vs[1].of = Root /\ Averages(vs[1].updates, TFEarly(p)) /\ vs[1] \in TFCopy
                      ELSE vs[1] = TF!Zero

VarInv(w, p, st, g, val, gs, vs) ==
    TFStageInv(w, p, st, g) /\ TFCopyInv(w, p, st, val) /\ TFGradInv(w, p, st, gs) /\ TFSentInv(w, p, st, vs)

\* What the core has of one variable.
Grads(w, p) == pushed[w][TF!GradientOf(p)]
Sents(w, p) == pushed[w][TF!VariableOf(p)]

TFVarInv(w, p) == VarInv(w, p, stage[w][p], grad[w][p], value[w][p], Grads(w, p), Sents(w, p))
TFInv == TFTypeOK /\ \A w \in Worker : TFMainInv(w) /\ \A p \in TFVar : TFVarInv(w, p)

LEMMA TFFacts ==
  ASSUME TFInv, NEW w \in Worker
  PROVE  /\ TFTypeOK /\ TFMainInv(w) /\ mode \in {"session", "keras", "tape"} /\ dependent \subseteq TFVar
         /\ pc[w] \in TFPc /\ step[w] \in Nat \ {0} /\ broadcast_done[w] \in BOOLEAN
         /\ \A p \in TFVar : TFVarInv(w, p)
  BY DEF TFInv, TFTypeOK

LEMMA TFNames ==
  /\ \A p \in TFVar : TF!GradientOf(p) \in TFName /\ TF!VariableOf(p) \in TFName
  /\ \A p, q \in TFVar : /\ TF!GradientOf(p) # TF!VariableOf(q)
                         /\ TF!GradientOf(p) = TF!GradientOf(q) => p = q
                         /\ TF!VariableOf(p) = TF!VariableOf(q) => p = q
  BY DEF TFName, TF!GradientOf, TF!VariableOf

LEMMA TFTypes ==
  ASSUME TFTypeOK, NEW w \in Worker, NEW p \in TFVar
  PROVE  /\ stage[w][p] \in TFStage /\ grad[w][p] \in TFSum /\ value[w][p] \in TFCopy
         /\ Grads(w, p) \in Seq(TFSum \cup TFCopy) /\ Sents(w, p) \in Seq(TFSum \cup TFCopy)
  <1>1. stage[w][p] \in TFStage /\ grad[w][p] \in TFSum /\ value[w][p] \in TFCopy
    BY DEF TFTypeOK
  <1>2. PICK m \in TFName, n \in TFName : m = TF!GradientOf(p) /\ n = TF!VariableOf(p)
    BY TFNames
  <1>3. pushed[w][m] \in Seq(TFSum \cup TFCopy) /\ pushed[w][n] \in Seq(TFSum \cup TFCopy)
    BY DEF TFTypeOK
  <1> QED BY <1>1, <1>2, <1>3 DEF Grads, Sents

LEMMA TFVarFrame ==
  ASSUME NEW w \in Worker, NEW p \in TFVar, NEW st, NEW g, NEW val, NEW gs, NEW vs,
         VarInv(w, p, st, g, val, gs, vs),
         UNCHANGED <<mode, dependent, pc[w], step[w], broadcast_done[w]>>
  PROVE  VarInv(w, p, st, g, val, gs, vs)'
  <1>1. /\ TFApplied(w, p, st)' = TFApplied(w, p, st) /\ TFPushes(w, p, st)' = TFPushes(w, p, st)
        /\ TFEarly(p)' = TFEarly(p) /\ (Assigned(w, st)' <=> Assigned(w, st))
        /\ (Sent(w, st)' <=> Sent(w, st))
    BY DEF TFApplied, TFPushes, TFEarly, Assigned, Sent, BatchOver
  <1>2. TFStageInv(w, p, st, g)'
    BY DEF VarInv, TFStageInv
  <1>3. TFCopyInv(w, p, st, val)'
    BY <1>1 DEF VarInv, TFCopyInv, Averages
  <1>4. TFGradInv(w, p, st, gs)'
    BY <1>1 DEF VarInv, TFGradInv
  <1>5. TFSentInv(w, p, st, vs)'
    BY <1>1 DEF VarInv, TFSentInv, Averages
  <1> QED BY <1>2, <1>3, <1>4, <1>5 DEF VarInv

LEMMA TFVarStays ==
  ASSUME TFInv, NEW w \in Worker, NEW p \in TFVar,
         UNCHANGED <<mode, dependent, pc[w], step[w], broadcast_done[w], stage[w][p], grad[w][p],
                     value[w][p], Grads(w, p), Sents(w, p)>>
  PROVE  TFVarInv(w, p)'
  <1>1. PICK st, g, val, gs, vs : /\ st = stage[w][p] /\ g = grad[w][p] /\ val = value[w][p]
                                  /\ gs = Grads(w, p) /\ vs = Sents(w, p)
    OBVIOUS
  <1>2. VarInv(w, p, st, g, val, gs, vs)
    <2>1. TFVarInv(w, p)
      BY TFFacts
    <2> QED BY <1>1, <2>1 DEF TFVarInv
  <1>3. VarInv(w, p, st, g, val, gs, vs)'
    BY <1>2, TFVarFrame
  <1>4. /\ st = stage'[w][p] /\ g = grad'[w][p] /\ val = value'[w][p]
        /\ gs = Grads(w, p)' /\ vs = Sents(w, p)'
    BY <1>1
  <1> QED BY <1>3, <1>4 DEF TFVarInv

\* One variable of one worker moves on.
LEMMA TFOneVariable ==
  ASSUME TFInv, NEW w \in Worker, NEW p \in TFVar, TFTypeOK',
         UNCHANGED <<mode, dependent, pc, step, broadcast_done>>,
         \A v \in Worker, q \in TFVar : v # w \/ q # p =>
            UNCHANGED <<stage[v][q], grad[v][q], value[v][q], Grads(v, q), Sents(v, q)>>,
         NEW st, NEW g, NEW val, NEW gs, NEW vs,
         st = stage'[w][p], g = grad'[w][p], val = value'[w][p], gs = Grads(w, p)', vs = Sents(w, p)',
         VarInv(w, p, st, g, val, gs, vs)
  PROVE  TFInv'
  <1>1. TFVarInv(w, p)'
    <2>1. VarInv(w, p, st, g, val, gs, vs)'
      BY TFVarFrame
    <2> QED BY <2>1 DEF TFVarInv
  <1>2. ASSUME NEW v \in Worker, NEW q \in TFVar, v # w \/ q # p PROVE TFVarInv(v, q)'
    BY <1>2, TFVarStays
  <1>3. ASSUME NEW v \in Worker PROVE TFMainInv(v)'
    <2>1. TFMainInv(v)
      BY TFFacts
    <2> QED BY <2>1 DEF TFMainInv
  <1> QED BY <1>1, <1>2, <1>3 DEF TFInv

\* One worker moves on, without a change of its variables.
LEMMA TFOneWorker ==
  ASSUME TFInv, NEW w \in Worker, TFTypeOK',
         UNCHANGED <<mode, dependent, value, pushed>>,
         \A v \in Worker : v # w => UNCHANGED <<pc[v], step[v], broadcast_done[v], stage[v], grad[v]>>,
         TFMainInv(w)', \A p \in TFVar : TFVarInv(w, p)'
  PROVE  TFInv'
  <1>1. ASSUME NEW v \in Worker, v # w, NEW q \in TFVar PROVE TFVarInv(v, q)'
    <2>1. UNCHANGED <<pc[v], step[v], broadcast_done[v], stage[v], grad[v]>>
      BY <1>1
    <2>2. UNCHANGED <<stage[v][q], grad[v][q], value[v][q], Grads(v, q), Sents(v, q)>>
      BY <2>1 DEF Grads, Sents
    <2> QED BY <2>1, <2>2, TFVarStays
  <1>2. ASSUME NEW v \in Worker, v # w PROVE TFMainInv(v)'
    <2>1. UNCHANGED <<pc[v], step[v], broadcast_done[v]>>
      BY <1>2
    <2>2. TFMainInv(v)
      BY TFFacts
    <2> QED BY <2>1, <2>2 DEF TFMainInv
  <1> QED BY <1>1, <1>2 DEF TFInv

\* One variable's part of the invariant, with a name for each piece of its state.
LEMMA TFParts ==
  ASSUME TFInv, NEW w \in Worker, NEW p \in TFVar
  PROVE  \E st \in TFStage, g \in TFSum, val \in TFCopy,
            gs \in Seq(TFSum \cup TFCopy), vs \in Seq(TFSum \cup TFCopy) :
            /\ st = stage[w][p] /\ g = grad[w][p] /\ val = value[w][p]
            /\ gs = Grads(w, p) /\ vs = Sents(w, p)
            /\ VarInv(w, p, st, g, val, gs, vs)
  <1>1. TFTypeOK /\ TFVarInv(w, p)
    BY TFFacts
  <1> QED BY <1>1, TFTypes DEF TFVarInv

\* A worker's move that neither counts as an update nor as a push of a variable.
LEMMA TFSameCounts ==
  ASSUME TFInv, NEW w \in Worker, NEW p \in TFVar, UNCHANGED <<mode, dependent, value, pushed>>,
         TFStageInv(w, p, stage[w][p], grad[w][p])',
         TFApplied(w, p, stage[w][p])' = TFApplied(w, p, stage[w][p]),
         TFPushes(w, p, stage[w][p])' = TFPushes(w, p, stage[w][p]),
         Sent(w, stage[w][p])' <=> Sent(w, stage[w][p]),
         Assigned(w, stage[w][p])' => Assigned(w, stage[w][p])
  PROVE  TFVarInv(w, p)'
  <1>1. PICK st \in TFStage, g \in TFSum, val \in TFCopy,
             gs \in Seq(TFSum \cup TFCopy), vs \in Seq(TFSum \cup TFCopy) :
            /\ st = stage[w][p] /\ g = grad[w][p] /\ val = value[w][p]
            /\ gs = Grads(w, p) /\ vs = Sents(w, p)
            /\ VarInv(w, p, st, g, val, gs, vs)
    BY TFParts
  <1>2. PICK nst, ng : nst = stage'[w][p] /\ ng = grad'[w][p]
    OBVIOUS
  <1>3. val = value'[w][p] /\ gs = Grads(w, p)' /\ vs = Sents(w, p)'
    BY <1>1 DEF Grads, Sents
  <1>4. /\ TFStageInv(w, p, nst, ng)'
        /\ TFApplied(w, p, nst)' = TFApplied(w, p, st) /\ TFPushes(w, p, nst)' = TFPushes(w, p, st)
        /\ (Sent(w, nst)' <=> Sent(w, st)) /\ (Assigned(w, nst)' => Assigned(w, st))
        /\ TFEarly(p)' = TFEarly(p)
    BY <1>1, <1>2 DEF TFEarly
  <1>5. TFCopyInv(w, p, nst, val)'
    BY <1>1, <1>4 DEF VarInv, TFCopyInv, Averages
  <1>6. TFGradInv(w, p, nst, gs)'
    BY <1>1, <1>4 DEF VarInv, TFGradInv
  <1>7. TFSentInv(w, p, nst, vs)'
    BY <1>1, <1>4 DEF VarInv, TFSentInv, Averages
  <1>8. VarInv(w, p, nst, ng, val, gs, vs)'
    BY <1>4, <1>5, <1>6, <1>7 DEF VarInv
  <1> QED BY <1>2, <1>3, <1>8 DEF TFVarInv

LEMMA TFWorkerSteps ==
  ASSUME TFInv, NEW w \in Worker,
         \/ TF!ComputeGradients(w) \/ TF!BatchEnds(w) \/ TF!StartBroadcast(w)
         \/ TF!BroadcastEnds(w) \/ TF!NextStep(w)
  PROVE  TFInv'
  <1>1. /\ TFTypeOK /\ TFMainInv(w) /\ mode \in {"session", "keras", "tape"} /\ dependent \subseteq TFVar
        /\ pc[w] \in TFPc /\ step[w] \in Nat \ {0} /\ broadcast_done[w] \in BOOLEAN
    BY TFFacts
  <1>2. /\ pc \in [Worker -> TFPc] /\ step \in [Worker -> Nat \ {0}]
        /\ stage \in [Worker -> [TFVar -> TFStage]] /\ broadcast_done \in [Worker -> BOOLEAN]
        /\ grad \in [Worker -> [TFVar -> TFSum]]
    BY <1>1 DEF TFTypeOK
  <1>3. TFVar = TF!Var
    BY DEF TFVar, TF!Var, Range, TF!Range
  <1>4. \A p \in TFVar : TFStageInv(w, p, stage[w][p], grad[w][p])
    BY TFFacts DEF TFVarInv, VarInv
  <1>5. CASE TF!ComputeGradients(w)
    <2>1. /\ pc[w] = "compute" /\ pc' = [pc EXCEPT ![w] = "aggregate"]
          /\ grad' = [grad EXCEPT ![w] = [p \in TFVar |-> IF p \in dependent THEN {<<w, step[w]>>} ELSE {}]]
          /\ stage' = [stage EXCEPT ![w] = [p \in TFVar |-> IF p \in dependent THEN "push" ELSE "idle"]]
          /\ UNCHANGED <<mode, dependent, step, broadcast_done, value, pushed>>
      BY <1>3, <1>5 DEF TF!ComputeGradients, TF!None, TF!choice, TF!core
    <2>2. /\ [p \in TFVar |-> IF p \in dependent THEN {<<w, step[w]>>} ELSE {}] \in [TFVar -> TFSum]
          /\ [p \in TFVar |-> IF p \in dependent THEN "push" ELSE "idle"] \in [TFVar -> TFStage]
      BY <1>1 DEF TFSum, TFStage
    <2>3. /\ pc' \in [Worker -> TFPc] /\ grad' \in [Worker -> [TFVar -> TFSum]]
          /\ stage' \in [Worker -> [TFVar -> TFStage]] /\ pc'[w] = "aggregate"
          /\ \A v \in Worker : v # w => UNCHANGED <<pc[v], step[v], broadcast_done[v], stage[v], grad[v]>>
          /\ \A p \in TFVar : /\ stage'[w][p] = IF p \in dependent THEN "push" ELSE "idle"
                              /\ p \in dependent => grad'[w][p] = {<<w, step[w]>>}
      BY <1>2, <2>1, <2>2 DEF TFPc
    <2>4. TFTypeOK'
      BY <1>1, <2>1, <2>3 DEF TFTypeOK
    <2>5. TFMainInv(w)'
      BY <1>1, <2>1, <2>3 DEF TFMainInv
    <2>6. ASSUME NEW p \in TFVar PROVE TFVarInv(w, p)'
      <3>1. stage[w][p] = "idle"
        BY <1>4, <2>1 DEF TFStageInv
      <3>2. TFStageInv(w, p, stage[w][p], grad[w][p])'
        BY <2>1, <2>3 DEF TFStageInv
      <3>3. /\ TFApplied(w, p, stage[w][p])' = TFApplied(w, p, stage[w][p])
            /\ TFPushes(w, p, stage[w][p])' = TFPushes(w, p, stage[w][p])
        BY <2>1, <2>3, <3>1 DEF TFApplied, TFPushes, BatchOver
      <3>4. /\ (Sent(w, stage[w][p])' <=> Sent(w, stage[w][p]))
            /\ (Assigned(w, stage[w][p])' => Assigned(w, stage[w][p]))
        BY <2>1, <2>3 DEF Sent, Assigned
      <3> QED BY <2>1, <3>2, <3>3, <3>4, TFSameCounts
    <2> QED BY <2>1, <2>3, <2>4, <2>5, <2>6, TFOneWorker
  <1>6. CASE TF!BatchEnds(w)
    <2>1. /\ pc[w] = "aggregate" /\ \A p \in TFVar : stage[w][p] = "idle"
          /\ pc' = [pc EXCEPT ![w] = IF mode # "session" /\ ~broadcast_done[w] THEN "broadcast" ELSE "next"]
          /\ UNCHANGED <<mode, dependent, step, stage, broadcast_done, grad, value, pushed>>
      BY <1>3, <1>6 DEF TF!BatchEnds, TF!AfterBatch, TF!choice, TF!core
    <2>2. /\ pc' \in [Worker -> TFPc]
          /\ pc'[w] = IF mode # "session" /\ ~broadcast_done[w] THEN "broadcast" ELSE "next"
          /\ \A v \in Worker : v # w => UNCHANGED <<pc[v], step[v], broadcast_done[v], stage[v], grad[v]>>
      BY <1>2, <2>1 DEF TFPc
    <2>3. TFTypeOK'
      BY <1>1, <2>1, <2>2 DEF TFTypeOK
    <2>4. TFMainInv(w)'
      BY <1>1, <2>1, <2>2 DEF TFMainInv
    <2>5. ASSUME NEW p \in TFVar PROVE TFVarInv(w, p)'
      <3>1. stage[w][p] = "idle"
        BY <2>1
      <3>2. TFStageInv(w, p, stage[w][p], grad[w][p])'
        BY <2>1, <2>2, <3>1 DEF TFStageInv
      <3>3. /\ TFApplied(w, p, stage[w][p])' = TFApplied(w, p, stage[w][p])
            /\ TFPushes(w, p, stage[w][p])' = TFPushes(w, p, stage[w][p])
        BY <1>1, <2>1, <2>2, <3>1 DEF TFApplied, TFPushes, BatchOver
      <3>4. /\ (Sent(w, stage[w][p])' <=> Sent(w, stage[w][p]))
            /\ (Assigned(w, stage[w][p])' => Assigned(w, stage[w][p]))
        BY <2>1, <2>2 DEF Sent, Assigned
      <3> QED BY <2>1, <3>2, <3>3, <3>4, TFSameCounts
    <2> QED BY <2>1, <2>2, <2>3, <2>4, <2>5, TFOneWorker
  <1>7. CASE TF!StartBroadcast(w)
    <2>1. /\ pc[w] = "broadcast" /\ pc' = [pc EXCEPT ![w] = "broadcasting"]
          /\ stage' = [stage EXCEPT ![w] = [p \in TFVar |-> "bcast"]]
          /\ UNCHANGED <<mode, dependent, step, broadcast_done, grad, value, pushed>>
      BY <1>3, <1>7 DEF TF!StartBroadcast, TF!choice, TF!core
    <2>2. [p \in TFVar |-> "bcast"] \in [TFVar -> TFStage]
      BY DEF TFStage
    <2>3. /\ pc' \in [Worker -> TFPc] /\ pc'[w] = "broadcasting"
          /\ stage' \in [Worker -> [TFVar -> TFStage]] /\ \A p \in TFVar : stage'[w][p] = "bcast"
          /\ \A v \in Worker : v # w => UNCHANGED <<pc[v], step[v], broadcast_done[v], stage[v], grad[v]>>
      BY <1>2, <2>1, <2>2 DEF TFPc
    <2>4. TFTypeOK'
      BY <1>1, <2>1, <2>3 DEF TFTypeOK
    <2>5. TFMainInv(w)' /\ ~broadcast_done[w]
      BY <1>1, <2>1, <2>3 DEF TFMainInv
    <2>6. ASSUME NEW p \in TFVar PROVE TFVarInv(w, p)'
      <3>1. TFStageInv(w, p, stage[w][p], grad[w][p])'
        BY <2>1, <2>3 DEF TFStageInv
      <3>2. /\ TFApplied(w, p, stage[w][p])' = TFApplied(w, p, stage[w][p])
            /\ TFPushes(w, p, stage[w][p])' = TFPushes(w, p, stage[w][p])
        BY <2>1, <2>3 DEF TFApplied, TFPushes, BatchOver
      <3>3. /\ (Sent(w, stage[w][p])' <=> Sent(w, stage[w][p]))
            /\ (Assigned(w, stage[w][p])' => Assigned(w, stage[w][p]))
        BY <2>1, <2>3, <2>5 DEF Sent, Assigned
      <3> QED BY <2>1, <3>1, <3>2, <3>3, TFSameCounts
    <2> QED BY <2>1, <2>3, <2>4, <2>5, <2>6, TFOneWorker
  <1>8. CASE TF!BroadcastEnds(w)
    <2>1. /\ pc[w] = "broadcasting" /\ \A p \in TFVar : stage[w][p] = "idle"
          /\ broadcast_done' = [broadcast_done EXCEPT ![w] = TRUE]
          /\ pc' = [pc EXCEPT ![w] = IF mode = "session" THEN "compute" ELSE "next"]
          /\ UNCHANGED <<mode, dependent, step, stage, grad, value, pushed>>
      BY <1>3, <1>8 DEF TF!BroadcastEnds, TF!choice, TF!core
    <2>2. /\ pc' \in [Worker -> TFPc] /\ pc'[w] = IF mode = "session" THEN "compute" ELSE "next"
          /\ broadcast_done' \in [Worker -> BOOLEAN] /\ broadcast_done'[w] = TRUE
          /\ \A v \in Worker : v # w => UNCHANGED <<pc[v], step[v], broadcast_done[v], stage[v], grad[v]>>
      BY <1>2, <2>1 DEF TFPc
    <2>3. TFTypeOK'
      BY <1>1, <2>1, <2>2 DEF TFTypeOK
    <2>4. TFMainInv(w)'
      BY <1>1, <2>1, <2>2 DEF TFMainInv
    <2>5. ASSUME NEW p \in TFVar PROVE TFVarInv(w, p)'
      <3>1. stage[w][p] = "idle"
        BY <2>1
      <3>2. TFStageInv(w, p, stage[w][p], grad[w][p])'
        BY <2>1, <2>2, <3>1 DEF TFStageInv
      <3>3. /\ TFApplied(w, p, stage[w][p])' = TFApplied(w, p, stage[w][p])
            /\ TFPushes(w, p, stage[w][p])' = TFPushes(w, p, stage[w][p])
        BY <1>1, <2>1, <2>2, <3>1 DEF TFApplied, TFPushes, BatchOver
      <3>4. /\ (Sent(w, stage[w][p])' <=> Sent(w, stage[w][p]))
            /\ (Assigned(w, stage[w][p])' => Assigned(w, stage[w][p]))
        BY <2>1, <2>2, <3>1 DEF Sent, Assigned
      <3> QED BY <2>1, <3>2, <3>3, <3>4, TFSameCounts
    <2> QED BY <2>1, <2>2, <2>3, <2>4, <2>5, TFOneWorker
  <1>9. CASE TF!NextStep(w)
    <2>1. /\ pc[w] = "next"
          /\ \/ step' = [step EXCEPT ![w] = @ + 1] /\ pc' = [pc EXCEPT ![w] = "compute"]
             \/ pc' = [pc EXCEPT ![w] = "finished"] /\ UNCHANGED step
          /\ UNCHANGED <<mode, dependent, stage, broadcast_done, grad, value, pushed>>
      BY <1>9 DEF TF!NextStep, TF!choice, TF!core
    <2>2. /\ pc' \in [Worker -> TFPc] /\ step' \in [Worker -> Nat \ {0}]
          /\ \/ step'[w] = step[w] + 1 /\ pc'[w] = "compute"
             \/ step'[w] = step[w] /\ pc'[w] = "finished"
          /\ \A v \in Worker : v # w => UNCHANGED <<pc[v], step[v], broadcast_done[v], stage[v], grad[v]>>
      <3>1. CASE step' = [step EXCEPT ![w] = @ + 1] /\ pc' = [pc EXCEPT ![w] = "compute"]
        <4>1. step[w] + 1 \in Nat \ {0} /\ "compute" \in TFPc
          BY <1>1 DEF TFPc
        <4> QED BY <1>2, <2>1, <3>1, <4>1
      <3>2. CASE pc' = [pc EXCEPT ![w] = "finished"] /\ UNCHANGED step
        <4>1. "finished" \in TFPc
          BY DEF TFPc
        <4> QED BY <1>2, <2>1, <3>2, <4>1
      <3> QED BY <2>1, <3>1, <3>2
    <2>3. TFTypeOK'
      BY <1>1, <2>1, <2>2 DEF TFTypeOK
    <2>4. TFMainInv(w)' /\ broadcast_done[w]
      BY <1>1, <2>1, <2>2 DEF TFMainInv
    <2>5. ASSUME NEW p \in TFVar PROVE TFVarInv(w, p)'
      <3>1. stage[w][p] = "idle"
        BY <1>4, <2>1 DEF TFStageInv
      <3>2. TFStageInv(w, p, stage[w][p], grad[w][p])'
        BY <2>1, <2>2, <3>1 DEF TFStageInv
      <3>3. /\ TFApplied(w, p, stage[w][p])' = TFApplied(w, p, stage[w][p])
            /\ TFPushes(w, p, stage[w][p])' = TFPushes(w, p, stage[w][p])
        BY <1>1, <2>1, <2>2, <3>1 DEF TFApplied, TFPushes, BatchOver
      <3>4. /\ (Sent(w, stage[w][p])' <=> Sent(w, stage[w][p]))
            /\ (Assigned(w, stage[w][p])' => Assigned(w, stage[w][p]))
        BY <2>1, <2>2, <2>4 DEF Sent, Assigned
      <3> QED BY <2>1, <3>2, <3>3, <3>4, TFSameCounts
    <2> QED BY <2>1, <2>2, <2>3, <2>4, <2>5, TFOneWorker
  <1> QED BY <1>5, <1>6, <1>7, <1>8, <1>9

\* What one operation adds to what the core has.
LEMMA TFPush ==
  ASSUME TFTypeOK, NEW w \in Worker, NEW n \in TFName, NEW e \in TFSum \cup TFCopy, Pushing(w, n, e)
  PROVE  /\ pushed' \in [Worker -> [TFName -> Seq(TFSum \cup TFCopy)]]
         /\ pushed'[w][n] = Append(pushed[w][n], e)
         /\ \A v \in Worker, m \in TFName : v # w \/ m # n => pushed'[v][m] = pushed[v][m]
  <1>1. pushed \in [Worker -> [TFName -> Seq(TFSum \cup TFCopy)]]
    BY DEF TFTypeOK
  <1>2. PICK s \in Seq(TFSum \cup TFCopy) : s = pushed[w][n]
    BY <1>1
  <1>3. PICK more \in Seq(TFSum \cup TFCopy) : more = Append(s, e)
    BY <1>2, AppendFacts
  <1>4. pushed' = [pushed EXCEPT ![w][n] = more]
    BY <1>1, <1>2, <1>3 DEF Pushing
  <1>5. /\ pushed' \in [Worker -> [TFName -> Seq(TFSum \cup TFCopy)]] /\ pushed'[w][n] = more
        /\ \A m \in TFName : m # n => pushed'[w][m] = pushed[w][m]
        /\ \A v \in Worker : v # w => pushed'[v] = pushed[v]
    BY <1>1, <1>4, ExceptType
  <1> QED BY <1>2, <1>3, <1>5

LEMMA TFPushGradientStep ==
  ASSUME TFInv, NEW w \in Worker, NEW p \in TFVar, TF!PushGradient(w, p) PROVE TFInv'
  <1>1. /\ TFTypeOK /\ pc[w] \in TFPc /\ step[w] \in Nat \ {0}
        /\ stage \in [Worker -> [TFVar -> TFStage]]
    BY TFFacts DEF TFTypeOK
  <1>2. PICK st \in TFStage, g \in TFSum, val \in TFCopy,
             gs \in Seq(TFSum \cup TFCopy), vs \in Seq(TFSum \cup TFCopy) :
            /\ st = stage[w][p] /\ g = grad[w][p] /\ val = value[w][p]
            /\ gs = Grads(w, p) /\ vs = Sents(w, p)
            /\ VarInv(w, p, st, g, val, gs, vs)
    BY TFParts
  <1>3. /\ st = "push" /\ stage' = [stage EXCEPT ![w][p] = "sum"]
        /\ Pushing(w, TF!GradientOf(p), g)
        /\ UNCHANGED <<mode, dependent, pc, step, broadcast_done, grad, value>>
    BY <1>2 DEF TF!PushGradient, TF!At, TF!push_pull_async, TF!choice, Pushing
  <1>4. PICK name \in TFName : name = TF!GradientOf(p)
    BY TFNames
  <1>5. PICK all : all = TFSum \cup TFCopy
    OBVIOUS
  <1>6. /\ pushed' \in [Worker -> [TFName -> Seq(all)]]
        /\ pushed'[w][name] = Append(pushed[w][name], g)
        /\ \A v \in Worker, m \in TFName : v # w \/ m # name => pushed'[v][m] = pushed[v][m]
    <2>1. g \in TFSum \cup TFCopy
      OBVIOUS
    <2> QED BY <1>1, <1>3, <1>4, <1>5, <2>1, TFPush
  <1>7. /\ Grads(w, p)' = Append(gs, g) /\ Sents(w, p)' = vs
        /\ \A v \in Worker, q \in TFVar : v # w \/ q # p => UNCHANGED <<Grads(v, q), Sents(v, q)>>
    BY <1>2, <1>4, <1>6, TFNames DEF Grads, Sents
  <1>8. /\ stage' \in [Worker -> [TFVar -> TFStage]] /\ stage'[w][p] = "sum"
        /\ \A v \in Worker, q \in TFVar : v # w \/ q # p => stage'[v][q] = stage[v][q]
    <2>1. "sum" \in TFStage
      BY DEF TFStage
    <2> QED BY <1>1, <1>3, <2>1, ExceptType
  <1>9. TFTypeOK'
    BY <1>1, <1>3, <1>5, <1>6, <1>8 DEF TFTypeOK
  <1>10. pc[w] = "aggregate" /\ p \in dependent /\ g = {<<w, step[w]>>}
    BY <1>2, <1>3 DEF VarInv, TFStageInv
  <1>11. PICK more : more = Append(gs, g)
    OBVIOUS
  <1>12. /\ Len(gs) \in Nat /\ Len(more) = Len(gs) + 1 /\ more[Len(gs) + 1] = g
         /\ \A n \in 1..Len(gs) : more[n] = gs[n]
         /\ \A n \in 1..(Len(gs) + 1) : n \in 1..Len(gs) \/ n = Len(gs) + 1
    <2>1. g \in TFSum \cup TFCopy
      OBVIOUS
    <2> QED BY <1>2, <1>11, <2>1, AppendFacts
  <1>13. Len(gs) = step[w] - 1 /\ \A n \in 1..Len(gs) : gs[n] = {<<w, n>>}
    BY <1>2, <1>3, <1>10 DEF VarInv, TFGradInv, TFPushes, BatchOver
  <1>14. TFGradInv(w, p, "sum", more)
    <2>1. TFPushes(w, p, "sum") = step[w] /\ Len(more) = step[w]
      BY <1>1, <1>10, <1>12, <1>13 DEF TFPushes
    <2>2. ASSUME NEW n \in 1..Len(more) PROVE more[n] = {<<w, n>>}
      <3>1. CASE n \in 1..Len(gs)
        BY <1>12, <1>13, <3>1
      <3>2. CASE n = Len(gs) + 1
        <4>1. n = step[w]
          BY <1>1, <1>13, <3>2
        <4> QED BY <1>10, <1>12, <3>2, <4>1
      <3> QED BY <1>12, <3>1, <3>2
    <2> QED BY <2>1, <2>2 DEF TFGradInv
  <1>15. TFCopyInv(w, p, "sum", val)
    <2>1. TFApplied(w, p, "sum") = TFApplied(w, p, st) /\ (Assigned(w, "sum") <=> Assigned(w, st))
      BY <1>3, <1>10 DEF TFApplied, Assigned
    <2> QED BY <1>2, <2>1 DEF VarInv, TFCopyInv
  <1>16. TFSentInv(w, p, "sum", vs)
    <2>1. Sent(w, "sum") <=> Sent(w, st)
      BY <1>3, <1>10 DEF Sent
    <2> QED BY <1>2, <2>1 DEF VarInv, TFSentInv
  <1>17. VarInv(w, p, "sum", g, val, more, vs)
    BY <1>10, <1>14, <1>15, <1>16 DEF VarInv, TFStageInv
  <1>18. PICK nst : nst = "sum"
    OBVIOUS
  <1>19. \A v \in Worker, q \in TFVar : v # w \/ q # p =>
            UNCHANGED <<stage[v][q], grad[v][q], value[v][q], Grads(v, q), Sents(v, q)>>
    BY <1>3, <1>7, <1>8
  <1>20. /\ VarInv(w, p, nst, g, val, more, vs) /\ nst = stage'[w][p] /\ g = grad'[w][p]
         /\ val = value'[w][p] /\ more = Grads(w, p)' /\ vs = Sents(w, p)'
    BY <1>2, <1>3, <1>7, <1>8, <1>11, <1>17, <1>18
  <1> QED BY <1>3, <1>9, <1>19, <1>20, TFOneVariable

LEMMA TFAveragedStep ==
  ASSUME TFInv, NEW w \in Worker, NEW p \in TFVar, TF!AveragedGradient(w, p) PROVE TFInv'
  <1>1. /\ TFTypeOK /\ pc[w] \in TFPc /\ step[w] \in Nat \ {0}
        /\ stage \in [Worker -> [TFVar -> TFStage]] /\ grad \in [Worker -> [TFVar -> TFSum]]
    BY TFFacts DEF TFTypeOK
  <1>2. PICK st \in TFStage, g \in TFSum, val \in TFCopy,
             gs \in Seq(TFSum \cup TFCopy), vs \in Seq(TFSum \cup TFCopy) :
            /\ st = stage[w][p] /\ g = grad[w][p] /\ val = value[w][p]
            /\ gs = Grads(w, p) /\ vs = Sents(w, p)
            /\ VarInv(w, p, st, g, val, gs, vs)
    BY TFParts
  <1>3. PICK sum : sum = UNION TF!Output(w, TF!GradientOf(p))
    OBVIOUS
  <1>4. /\ st = "sum" /\ stage' = [stage EXCEPT ![w][p] = "averaged"]
        /\ TF!Done(TF!GradientOf(p), Len(Grads(w, p)))
        /\ grad' = [grad EXCEPT ![w][p] = sum]
        /\ UNCHANGED <<mode, dependent, pc, step, broadcast_done, value, pushed>>
    BY <1>2, <1>3 DEF TF!AveragedGradient, TF!At, TF!synchronize, TF!choice, Grads
  <1>5. pc[w] = "aggregate" /\ p \in dependent
    BY <1>2, <1>4 DEF VarInv, TFStageInv
  <1>6. Len(gs) = step[w]
    BY <1>2, <1>4, <1>5 DEF VarInv, TFGradInv, TFPushes
  <1>7. ASSUME NEW v \in Worker PROVE Len(Grads(v, p)) >= step[w] /\ Grads(v, p)[step[w]] = {<<v, step[w]>>}
    <2>1. Len(Grads(v, p)) >= step[w]
      BY <1>2, <1>4, <1>6 DEF TF!Done, Grads
    <2>2. Len(Grads(v, p)) \in Nat
      BY <1>1, TFTypes
    <2>3. TFGradInv(v, p, stage[v][p], Grads(v, p))
      BY TFFacts DEF TFVarInv, VarInv
    <2> QED BY <1>1, <2>1, <2>2, <2>3 DEF TFGradInv
  <1>8. sum = AllOf(step[w])
    <2>1. TF!Output(w, TF!GradientOf(p)) = {Grads(v, p)[step[w]] : v \in {u \in Worker : Len(Grads(u, p)) >= step[w]}}
      BY <1>2, <1>6 DEF TF!Output, Grads
    <2>2. {u \in Worker : Len(Grads(u, p)) >= step[w]} = Worker
      BY <1>7
    <2>3. TF!Output(w, TF!GradientOf(p)) = {{<<v, step[w]>>} : v \in Worker}
      BY <1>7, <2>1, <2>2
    <2> QED BY <1>3, <2>3 DEF AllOf
  <1>9. sum \in TFSum
    BY <1>1, <1>8 DEF AllOf, TFSum
  <1>10. /\ stage' \in [Worker -> [TFVar -> TFStage]] /\ stage'[w][p] = "averaged"
         /\ \A v \in Worker, q \in TFVar : v # w \/ q # p => stage'[v][q] = stage[v][q]
    <2>1. "averaged" \in TFStage
      BY DEF TFStage
    <2> QED BY <1>1, <1>4, <2>1, ExceptType
  <1>11. /\ grad' \in [Worker -> [TFVar -> TFSum]] /\ grad'[w][p] = sum
         /\ \A v \in Worker, q \in TFVar : v # w \/ q # p => grad'[v][q] = grad[v][q]
    BY <1>1, <1>4, <1>9, ExceptType
  <1>12. TFTypeOK'
    BY <1>1, <1>4, <1>10, <1>11 DEF TFTypeOK
  <1>13. /\ \A v \in Worker, q \in TFVar : UNCHANGED <<Grads(v, q), Sents(v, q)>>
         /\ Grads(w, p)' = gs /\ Sents(w, p)' = vs
    BY <1>2, <1>4 DEF Grads, Sents
  <1>14. /\ TFApplied(w, p, "averaged") = TFApplied(w, p, st) /\ TFPushes(w, p, "averaged") = TFPushes(w, p, st)
         /\ (Assigned(w, "averaged") <=> Assigned(w, st)) /\ (Sent(w, "averaged") <=> Sent(w, st))
    BY <1>4, <1>5 DEF TFApplied, TFPushes, Assigned, Sent
  <1>15. VarInv(w, p, "averaged", sum, val, gs, vs)
    <2>1. TFStageInv(w, p, "averaged", sum)
      BY <1>5, <1>8 DEF TFStageInv
    <2>2. TFCopyInv(w, p, "averaged", val)
      BY <1>2, <1>14 DEF VarInv, TFCopyInv
    <2>3. TFGradInv(w, p, "averaged", gs)
      BY <1>2, <1>14 DEF VarInv, TFGradInv
    <2>4. TFSentInv(w, p, "averaged", vs)
      BY <1>2, <1>14 DEF VarInv, TFSentInv
    <2> QED BY <2>1, <2>2, <2>3, <2>4 DEF VarInv
  <1>16. \A v \in Worker, q \in TFVar : v # w \/ q # p =>
            UNCHANGED <<stage[v][q], grad[v][q], value[v][q], Grads(v, q), Sents(v, q)>>
    BY <1>4, <1>10, <1>11, <1>13
  <1>17. PICK nst : nst = "averaged"
    OBVIOUS
  <1>18. VarInv(w, p, nst, sum, val, gs, vs) /\ nst = stage'[w][p] /\ val = value'[w][p]
    BY <1>2, <1>4, <1>10, <1>15, <1>17
  <1> QED BY <1>4, <1>11, <1>12, <1>13, <1>16, <1>18, TFOneVariable

LEMMA TFApplyStep ==
  ASSUME TFInv, NEW w \in Worker, NEW p \in TFVar, TF!ApplyGradient(w, p) PROVE TFInv'
  <1>1. /\ TFTypeOK /\ pc[w] \in TFPc /\ step[w] \in Nat \ {0}
        /\ stage \in [Worker -> [TFVar -> TFStage]] /\ value \in [Worker -> [TFVar -> TFCopy]]
    BY TFFacts DEF TFTypeOK
  <1>2. PICK st \in TFStage, g \in TFSum, val \in TFCopy,
             gs \in Seq(TFSum \cup TFCopy), vs \in Seq(TFSum \cup TFCopy) :
            /\ st = stage[w][p] /\ g = grad[w][p] /\ val = value[w][p]
            /\ gs = Grads(w, p) /\ vs = Sents(w, p)
            /\ VarInv(w, p, st, g, val, gs, vs)
    BY TFParts
  <1>3. PICK us \in Seq(TFSum) : us = val.updates
    BY DEF TFCopy
  <1>4. PICK more \in Seq(TFSum) : more = Append(us, g)
    BY AppendFacts
  <1>5. PICK nval \in TFCopy : nval = [val EXCEPT !.updates = more]
    BY DEF TFCopy
  <1>6. nval.of = val.of /\ nval.updates = more
    BY <1>5 DEF TFCopy
  <1>7. /\ st = "averaged" /\ stage' = [stage EXCEPT ![w][p] = "idle"]
        /\ value' = [value EXCEPT ![w][p].updates = Append(@, g)]
        /\ UNCHANGED <<mode, dependent, pc, step, broadcast_done, grad, pushed>>
    BY <1>2 DEF TF!ApplyGradient, TF!At, TF!choice, TF!core
  <1>8. value' = [value EXCEPT ![w][p] = nval]
    BY <1>1, <1>2, <1>3, <1>4, <1>5, <1>7
  <1>9. /\ value' \in [Worker -> [TFVar -> TFCopy]] /\ value'[w][p] = nval
        /\ \A v \in Worker, q \in TFVar : v # w \/ q # p => value'[v][q] = value[v][q]
    BY <1>1, <1>8, ExceptType
  <1>10. /\ stage' \in [Worker -> [TFVar -> TFStage]] /\ stage'[w][p] = "idle"
         /\ \A v \in Worker, q \in TFVar : v # w \/ q # p => stage'[v][q] = stage[v][q]
    <2>1. "idle" \in TFStage
      BY DEF TFStage
    <2> QED BY <1>1, <1>7, <2>1, ExceptType
  <1>11. TFTypeOK'
    BY <1>1, <1>7, <1>9, <1>10 DEF TFTypeOK
  <1>12. pc[w] = "aggregate" /\ p \in dependent /\ g = AllOf(step[w])
    BY <1>2, <1>7 DEF VarInv, TFStageInv
  <1>13. /\ Len(us) \in Nat /\ Len(more) = Len(us) + 1 /\ more[Len(us) + 1] = g
         /\ \A n \in 1..Len(us) : more[n] = us[n]
         /\ \A n \in 1..(Len(us) + 1) : n \in 1..Len(us) \/ n = Len(us) + 1
    BY <1>4, AppendFacts
  <1>14. Len(us) = step[w] - 1 /\ \A n \in 1..Len(us) : us[n] = AllOf(n)
    BY <1>2, <1>3, <1>7, <1>12 DEF VarInv, TFCopyInv, TFApplied, BatchOver, Averages
  <1>15. Averages(more, step[w])
    <2>1. Len(more) = step[w]
      BY <1>1, <1>13, <1>14
    <2>2. ASSUME NEW n \in 1..step[w] PROVE more[n] = AllOf(n)
      <3>1. CASE n \in 1..Len(us)
        BY <1>13, <1>14, <3>1
      <3>2. CASE n = Len(us) + 1
        <4>1. n = step[w]
          BY <1>1, <1>14, <3>2
        <4> QED BY <1>12, <1>13, <3>2, <4>1
      <3> QED BY <1>13, <2>1, <3>1, <3>2
    <2> QED BY <2>1, <2>2 DEF Averages
  <1>16. /\ TFApplied(w, p, "idle") = step[w] /\ TFPushes(w, p, "idle") = TFPushes(w, p, st)
         /\ (Assigned(w, "idle") <=> Assigned(w, st)) /\ (Sent(w, "idle") <=> Sent(w, st))
    BY <1>7, <1>12 DEF TFApplied, TFPushes, Assigned, Sent
  <1>17. VarInv(w, p, "idle", g, nval, gs, vs)
    <2>1. TFStageInv(w, p, "idle", g)
      BY <1>12 DEF TFStageInv
    <2>2. TFCopyInv(w, p, "idle", nval)
      BY <1>2, <1>6, <1>15, <1>16 DEF VarInv, TFCopyInv
    <2>3. TFGradInv(w, p, "idle", gs)
      BY <1>2, <1>16 DEF VarInv, TFGradInv
    <2>4. TFSentInv(w, p, "idle", vs)
      BY <1>2, <1>16 DEF VarInv, TFSentInv
    <2> QED BY <2>1, <2>2, <2>3, <2>4 DEF VarInv
  <1>18. \A v \in Worker, q \in TFVar : v # w \/ q # p =>
            UNCHANGED <<stage[v][q], grad[v][q], value[v][q], Grads(v, q), Sents(v, q)>>
    BY <1>7, <1>9, <1>10 DEF Grads, Sents
  <1>19. PICK nst : nst = "idle"
    OBVIOUS
  <1>20. /\ VarInv(w, p, nst, g, nval, gs, vs) /\ nst = stage'[w][p] /\ g = grad'[w][p]
         /\ nval = value'[w][p] /\ gs = Grads(w, p)' /\ vs = Sents(w, p)'
    BY <1>2, <1>7, <1>9, <1>10, <1>17, <1>19 DEF Grads, Sents
  <1>21. UNCHANGED <<mode, dependent, pc, step, broadcast_done>>
    BY <1>7
  <1> QED BY <1>11, <1>18, <1>20, <1>21, TFOneVariable

LEMMA TFZero == TF!Zero \in TFCopy /\ TF!Zero.of = "zero" /\ "zero" \notin Worker /\ Root \in Worker
  <1>1. << >> \in Seq(TFSum)
    BY EmptySequences
  <1> QED BY <1>1, RootAssumption DEF TF!Zero, TFCopy

LEMMA TFBroadcastStep ==
  ASSUME TFInv, NEW w \in Worker, NEW p \in TFVar, TF!broadcast(w, p) PROVE TFInv'
  <1>1. /\ TFTypeOK /\ pc[w] \in TFPc /\ step[w] \in Nat \ {0} /\ TFMainInv(w)
        /\ stage \in [Worker -> [TFVar -> TFStage]]
    BY TFFacts DEF TFTypeOK
  <1>2. PICK st \in TFStage, g \in TFSum, val \in TFCopy,
             gs \in Seq(TFSum \cup TFCopy), vs \in Seq(TFSum \cup TFCopy) :
            /\ st = stage[w][p] /\ g = grad[w][p] /\ val = value[w][p]
            /\ gs = Grads(w, p) /\ vs = Sents(w, p)
            /\ VarInv(w, p, st, g, val, gs, vs)
    BY TFParts
  <1>3. PICK e \in TFCopy : e = IF w = Root THEN val ELSE TF!Zero
    BY TFZero
  <1>4. /\ st = "bcast" /\ stage' = [stage EXCEPT ![w][p] = "received"]
        /\ Pushing(w, TF!VariableOf(p), e)
        /\ UNCHANGED <<mode, dependent, pc, step, broadcast_done, grad, value>>
    BY <1>2, <1>3 DEF TF!broadcast, TF!At, TF!push_pull_async, TF!choice, TF!ZeroedUnlessRoot, Pushing
  <1>5. PICK name \in TFName : name = TF!VariableOf(p)
    BY TFNames
  <1>6. /\ pushed' \in [Worker -> [TFName -> Seq(TFSum \cup TFCopy)]]
        /\ pushed'[w][name] = Append(pushed[w][name], e)
        /\ \A v \in Worker, m \in TFName : v # w \/ m # name => pushed'[v][m] = pushed[v][m]
    <2>1. e \in TFSum \cup TFCopy
      OBVIOUS
    <2> QED BY <1>1, <1>4, <1>5, <2>1, TFPush
  <1>7. /\ Sents(w, p)' = Append(vs, e) /\ Grads(w, p)' = gs
        /\ \A v \in Worker, q \in TFVar : v # w \/ q # p => UNCHANGED <<Grads(v, q), Sents(v, q)>>
    BY <1>2, <1>5, <1>6, TFNames DEF Grads, Sents
  <1>8. /\ stage' \in [Worker -> [TFVar -> TFStage]] /\ stage'[w][p] = "received"
        /\ \A v \in Worker, q \in TFVar : v # w \/ q # p => stage'[v][q] = stage[v][q]
    <2>1. "received" \in TFStage
      BY DEF TFStage
    <2> QED BY <1>1, <1>4, <2>1, ExceptType
  <1>9. TFTypeOK'
    BY <1>1, <1>4, <1>6, <1>8 DEF TFTypeOK
  <1>10. pc[w] = "broadcasting" /\ ~broadcast_done[w] /\ step[w] = 1
    <2>1. pc[w] = "broadcasting"
      BY <1>2, <1>4 DEF VarInv, TFStageInv
    <2> QED BY <1>1, <2>1 DEF TFMainInv
  <1>11. PICK more : more = Append(vs, e)
    OBVIOUS
  <1>12. Len(vs) = 0
    BY <1>2, <1>4, <1>10 DEF VarInv, TFSentInv, Sent
  <1>13. Len(more) = 1 /\ more[1] = e
    <2>1. e \in TFSum \cup TFCopy
      OBVIOUS
    <2> QED BY <1>2, <1>11, <1>12, <2>1, AppendFacts
  <1>14. /\ TFApplied(w, p, "received") = TFApplied(w, p, st) /\ TFPushes(w, p, "received") = TFPushes(w, p, st)
         /\ ~Assigned(w, "received") /\ Sent(w, "received") /\ TFApplied(w, p, st) = TFEarly(p)
    BY <1>4, <1>10 DEF TFApplied, TFPushes, Assigned, Sent, TFEarly, BatchOver
  <1>15. VarInv(w, p, "received", g, val, gs, more)
    <2>1. TFStageInv(w, p, "received", g)
      BY <1>10 DEF TFStageInv
    <2>2. TFCopyInv(w, p, "received", val)
      BY <1>2, <1>14 DEF VarInv, TFCopyInv
    <2>3. TFGradInv(w, p, "received", gs)
      BY <1>2, <1>14 DEF VarInv, TFGradInv
    <2>4. TFSentInv(w, p, "received", more)
      <3>1. w = Root => val.of = Root /\ Averages(val.updates, TFEarly(p))
        BY <1>2, <1>14 DEF VarInv, TFCopyInv
      <3> QED BY <1>3, <1>13, <1>14, <3>1 DEF TFSentInv
    <2> QED BY <2>1, <2>2, <2>3, <2>4 DEF VarInv
  <1>16. \A v \in Worker, q \in TFVar : v # w \/ q # p =>
            UNCHANGED <<stage[v][q], grad[v][q], value[v][q], Grads(v, q), Sents(v, q)>>
    BY <1>4, <1>7, <1>8
  <1>17. PICK nst : nst = "received"
    OBVIOUS
  <1>18. /\ VarInv(w, p, nst, g, val, gs, more) /\ nst = stage'[w][p] /\ g = grad'[w][p]
         /\ val = value'[w][p] /\ gs = Grads(w, p)' /\ more = Sents(w, p)'
    BY <1>2, <1>4, <1>7, <1>8, <1>11, <1>15, <1>17
  <1> QED BY <1>4, <1>9, <1>16, <1>18, TFOneVariable

\* The sum of a broadcast is the root's value: all others pushed zeros.
LEMMA TFBroadcastSum ==
  ASSUME TFInv, NEW p \in TFVar, \A v \in Worker : Len(Sents(v, p)) >= 1
  PROVE  \E val \in TFCopy :
            /\ val.of = Root /\ Averages(val.updates, TFEarly(p))
            /\ {Sents(v, p)[1] : v \in Worker} \ {TF!Zero} = {val}
  <1>1. ASSUME NEW v \in Worker
        PROVE  IF v = Root THEN /\ Sents(v, p)[1].of = Root /\ Sents(v, p)[1] \in TFCopy
                                /\ Averages(Sents(v, p)[1].updates, TFEarly(p))
               ELSE Sents(v, p)[1] = TF!Zero
    <2>1. TFSentInv(v, p, stage[v][p], Sents(v, p))
      BY TFFacts DEF TFVarInv, VarInv
    <2>2. Sent(v, stage[v][p])
      BY <2>1 DEF TFSentInv
    <2> QED BY <2>1, <2>2 DEF TFSentInv
  <1>2. PICK val : val = Sents(Root, p)[1]
    OBVIOUS
  <1>3. val \in TFCopy /\ val.of = Root /\ Averages(val.updates, TFEarly(p)) /\ val # TF!Zero
    BY <1>1, <1>2, TFZero
  <1>4. {Sents(v, p)[1] : v \in Worker} \ {TF!Zero} = {val}
    BY <1>1, <1>2, <1>3, TFZero
  <1> QED BY <1>3, <1>4

LEMMA TFAssignStep ==
  ASSUME TFInv, NEW w \in Worker, NEW p \in TFVar, TF!Assign(w, p) PROVE TFInv'
  <1>1. /\ TFTypeOK /\ pc[w] \in TFPc /\ step[w] \in Nat \ {0} /\ TFMainInv(w)
        /\ stage \in [Worker -> [TFVar -> TFStage]] /\ value \in [Worker -> [TFVar -> TFCopy]]
    BY TFFacts DEF TFTypeOK
  <1>2. PICK st \in TFStage, g \in TFSum, val \in TFCopy,
             gs \in Seq(TFSum \cup TFCopy), vs \in Seq(TFSum \cup TFCopy) :
            /\ st = stage[w][p] /\ g = grad[w][p] /\ val = value[w][p]
            /\ gs = Grads(w, p) /\ vs = Sents(w, p)
            /\ VarInv(w, p, st, g, val, gs, vs)
    BY TFParts
  <1>3. PICK sum : sum = TF!Output(w, TF!VariableOf(p)) \ {TF!Zero}
    OBVIOUS
  <1>4. /\ st = "received" /\ stage' = [stage EXCEPT ![w][p] = "idle"]
        /\ TF!Done(TF!VariableOf(p), Len(Sents(w, p)))
        /\ value' = [value EXCEPT ![w][p] = IF TF!Cardinality(sum) = 1 THEN CHOOSE v \in sum : TRUE
                                            ELSE [of |-> "mixture", updates |-> << >>]]
        /\ UNCHANGED <<mode, dependent, pc, step, broadcast_done, grad, pushed>>
    BY <1>2, <1>3 DEF TF!Assign, TF!At, TF!synchronize, TF!choice, Sents
  <1>5. pc[w] = "broadcasting" /\ ~broadcast_done[w] /\ step[w] = 1
    <2>1. pc[w] = "broadcasting"
      BY <1>2, <1>4 DEF VarInv, TFStageInv
    <2> QED BY <1>1, <2>1 DEF TFMainInv
  <1>6. Len(vs) = 1
    BY <1>2, <1>4, <1>5 DEF VarInv, TFSentInv, Sent
  <1>7. \A v \in Worker : Len(Sents(v, p)) >= 1
    BY <1>2, <1>4, <1>6 DEF TF!Done, Sents
  <1>8. sum = {Sents(v, p)[1] : v \in Worker} \ {TF!Zero}
    <2>1. TF!Output(w, TF!VariableOf(p)) = {Sents(v, p)[1] : v \in {u \in Worker : Len(Sents(u, p)) >= 1}}
      BY <1>2, <1>6 DEF TF!Output, Sents
    <2>2. {u \in Worker : Len(Sents(u, p)) >= 1} = Worker
      BY <1>7
    <2> QED BY <1>3, <2>1, <2>2
  <1>9. PICK nval \in TFCopy : nval.of = Root /\ Averages(nval.updates, TFEarly(p)) /\ sum = {nval}
    BY <1>7, <1>8, TFBroadcastSum
  <1>10. value' = [value EXCEPT ![w][p] = nval]
    <2>1. TF!Cardinality(sum) = 1
      <3>1. Cardinality({nval}) = 1
        BY FS_Singleton
      <3> QED BY <1>9, <3>1 DEF TF!Cardinality, Cardinality
    <2>2. (CHOOSE v \in sum : TRUE) = nval
      BY <1>9
    <2> QED BY <1>4, <2>1, <2>2
  <1>11. /\ value' \in [Worker -> [TFVar -> TFCopy]] /\ value'[w][p] = nval
         /\ \A v \in Worker, q \in TFVar : v # w \/ q # p => value'[v][q] = value[v][q]
    BY <1>1, <1>10, ExceptType
  <1>12. /\ stage' \in [Worker -> [TFVar -> TFStage]] /\ stage'[w][p] = "idle"
         /\ \A v \in Worker, q \in TFVar : v # w \/ q # p => stage'[v][q] = stage[v][q]
    <2>1. "idle" \in TFStage
      BY DEF TFStage
    <2> QED BY <1>1, <1>4, <2>1, ExceptType
  <1>13. TFTypeOK'
    BY <1>1, <1>4, <1>11, <1>12 DEF TFTypeOK
  <1>14. /\ TFApplied(w, p, "idle") = TFEarly(p) /\ TFPushes(w, p, "idle") = TFPushes(w, p, st)
         /\ (Sent(w, "idle") <=> Sent(w, st))
    BY <1>4, <1>5 DEF TFApplied, TFPushes, Sent, TFEarly, BatchOver
  <1>15. VarInv(w, p, "idle", g, nval, gs, vs)
    <2>1. TFStageInv(w, p, "idle", g)
      BY <1>5 DEF TFStageInv
    <2>2. TFCopyInv(w, p, "idle", nval)
      BY <1>9, <1>14 DEF TFCopyInv
    <2>3. TFGradInv(w, p, "idle", gs)
      BY <1>2, <1>14 DEF VarInv, TFGradInv
    <2>4. TFSentInv(w, p, "idle", vs)
      BY <1>2, <1>14 DEF VarInv, TFSentInv
    <2> QED BY <2>1, <2>2, <2>3, <2>4 DEF VarInv
  <1>16. \A v \in Worker, q \in TFVar : v # w \/ q # p =>
            UNCHANGED <<stage[v][q], grad[v][q], value[v][q], Grads(v, q), Sents(v, q)>>
    BY <1>4, <1>11, <1>12 DEF Grads, Sents
  <1>17. PICK nst : nst = "idle"
    OBVIOUS
  <1>18. /\ VarInv(w, p, nst, g, nval, gs, vs) /\ nst = stage'[w][p] /\ g = grad'[w][p]
         /\ nval = value'[w][p] /\ gs = Grads(w, p)' /\ vs = Sents(w, p)'
    BY <1>2, <1>4, <1>11, <1>12, <1>15, <1>17 DEF Grads, Sents
  <1>19. UNCHANGED <<mode, dependent, pc, step, broadcast_done>>
    BY <1>4
  <1> QED BY <1>13, <1>16, <1>18, <1>19, TFOneVariable

LEMMA TFInitial == TF!TFInit => TFInv
  <1> SUFFICES ASSUME TF!TFInit PROVE TFInv
    OBVIOUS
  <1>1. TFVar = TF!Var
    BY DEF TFVar, TF!Var, Range, TF!Range
  <1>2. /\ << >> \in Seq(TFSum) /\ << >> \in Seq(TFSum \cup TFCopy) /\ Len(<< >>) = 0 /\ \A n \in 1..0 : FALSE
    BY EmptySequences
  <1>3. /\ mode \in {"session", "keras", "tape"} /\ dependent \subseteq TFVar
        /\ pc = [w \in Worker |-> IF mode = "session" THEN "broadcast" ELSE "compute"]
        /\ step = [w \in Worker |-> 1]
        /\ stage = [w \in Worker |-> [p \in TFVar |-> "idle"]]
        /\ broadcast_done = [w \in Worker |-> FALSE]
        /\ grad = [w \in Worker |-> [p \in TFVar |-> {}]]
        /\ value = [w \in Worker |-> [p \in TFVar |-> [of |-> w, updates |-> << >>]]]
        /\ pushed = [w \in Worker |-> [n \in TFName |-> << >>]]
    BY <1>1 DEF TF!TFInit, TF!CoreInit, TF!None, TFName
  <1>4. TFTypeOK
    <2>1. /\ pc \in [Worker -> TFPc] /\ step \in [Worker -> Nat \ {0}]
          /\ stage \in [Worker -> [TFVar -> TFStage]] /\ broadcast_done \in [Worker -> BOOLEAN]
          /\ grad \in [Worker -> [TFVar -> TFSum]]
      BY <1>3 DEF TFPc, TFStage, TFSum
    <2>2. value \in [Worker -> [TFVar -> TFCopy]]
      BY <1>2, <1>3 DEF TFCopy
    <2>3. pushed \in [Worker -> [TFName -> Seq(TFSum \cup TFCopy)]]
      BY <1>2, <1>3
    <2> QED BY <1>3, <2>1, <2>2, <2>3 DEF TFTypeOK
  <1>5. ASSUME NEW w \in Worker PROVE TFMainInv(w)
    BY <1>3 DEF TFMainInv
  <1>6. ASSUME NEW w \in Worker, NEW p \in TFVar PROVE TFVarInv(w, p)
    <2>1. /\ stage[w][p] = "idle" /\ value[w][p].of = w /\ value[w][p].updates = << >>
          /\ Grads(w, p) = << >> /\ Sents(w, p) = << >>
      BY <1>3, TFNames DEF Grads, Sents
    <2>2. pc[w] \in {"broadcast", "compute"} /\ step[w] = 1 /\ ~broadcast_done[w]
          /\ (pc[w] = "broadcast" => mode = "session")
      BY <1>3
    <2>3. TFApplied(w, p, "idle") = 0 /\ TFPushes(w, p, "idle") = 0
      BY <2>2 DEF TFApplied, TFPushes, BatchOver
    <2>4. ~Assigned(w, "idle") /\ ~Sent(w, "idle")
      BY <2>2 DEF Assigned, Sent
    <2>5. TFStageInv(w, p, stage[w][p], grad[w][p])
      BY <2>1, <2>2 DEF TFStageInv
    <2>6. TFCopyInv(w, p, stage[w][p], value[w][p])
      BY <1>2, <2>1, <2>3, <2>4 DEF TFCopyInv, Averages
    <2>7. TFGradInv(w, p, stage[w][p], Grads(w, p)) /\ TFSentInv(w, p, stage[w][p], Sents(w, p))
      BY <1>2, <2>1, <2>3, <2>4 DEF TFGradInv, TFSentInv
    <2> QED BY <2>5, <2>6, <2>7 DEF TFVarInv, VarInv
  <1> QED BY <1>4, <1>5, <1>6 DEF TFInv

LEMMA TFStutter == TFInv /\ UNCHANGED vars => TFInv'
  <1> SUFFICES ASSUME TFInv, UNCHANGED vars PROVE TFInv'
    OBVIOUS
  <1>1. UNCHANGED <<mode, dependent, pc, step, stage, broadcast_done, grad, value, pushed>>
    BY DEF vars, shared, tfonly, core
  <1>2. TFTypeOK'
    BY <1>1 DEF TFInv, TFTypeOK
  <1>3. ASSUME NEW w \in Worker PROVE TFMainInv(w)'
    BY <1>1, TFFacts DEF TFMainInv
  <1>4. ASSUME NEW w \in Worker, NEW p \in TFVar PROVE TFVarInv(w, p)'
    BY <1>1, TFVarStays DEF Grads, Sents
  <1> QED BY <1>2, <1>3, <1>4 DEF TFInv

TFJob == plugin = "tensorflow" => TFInv

LEMMA TFJobInductive == TFJob /\ [Next]_vars => TFJob'
  <1> SUFFICES ASSUME TFJob, [Next]_vars, plugin' = "tensorflow" PROVE TFInv'
    BY DEF TFJob
  <1>1. TFInv
    BY PluginStays DEF TFJob
  <1>2. TFVar = TF!Var
    BY DEF TFVar, TF!Var, Range, TF!Range
  <1>3. CASE Next
    <2>1. PICK w \in Worker : TF!TFWorker(w)
      BY <1>3, PluginStays
         DEF Next, Runs, TorchRuns, DDPRuns, HalfRuns, MXRuns, TFRuns, CBMain, CBPoller, CBCore,
             MSMain, MSReplica
    <2>2. ASSUME NEW p \in TFVar,
                 \/ TF!PushGradient(w, p) \/ TF!AveragedGradient(w, p) \/ TF!ApplyGradient(w, p)
                 \/ TF!broadcast(w, p) \/ TF!Assign(w, p)
          PROVE  TFInv'
      BY <1>1, <2>2, TFPushGradientStep, TFAveragedStep, TFApplyStep, TFBroadcastStep, TFAssignStep
    <2> QED BY <1>1, <1>2, <2>1, <2>2, TFWorkerSteps DEF TF!TFWorker
  <1>4. CASE UNCHANGED vars
    BY <1>1, <1>4, TFStutter
  <1> QED BY <1>3, <1>4

\* A sequence of that many averages is the function that lists them.
LEMMA TFAgrees == TFInv => TF!ReplicasAgree
  <1> SUFFICES ASSUME TFInv, NEW w \in Worker, broadcast_done[w], pc[w] \in {"next", "finished"},
                      NEW p \in TFVar
               PROVE  value[w][p] =
                        [of |-> Root,
                         updates |-> IF p \in dependent
                                     THEN [k \in 1..step[w] |-> {<<v, k>> : v \in Worker}] ELSE << >>]
    <2>1. TFVar = TF!Var
      BY DEF TFVar, TF!Var, Range, TF!Range
    <2> QED BY <2>1 DEF TF!ReplicasAgree
  <1>1. PICK val \in TFCopy, st \in TFStage : val = value[w][p] /\ TFCopyInv(w, p, st, val)
    <2>1. TFTypeOK /\ TFVarInv(w, p)
      BY TFFacts
    <2> QED BY <2>1, TFTypes DEF TFVarInv, VarInv
  <1>2. PICK us \in Seq(TFSum) : us = val.updates
    BY DEF TFCopy
  <1>3. val.of = Root /\ Averages(us, IF p \in dependent THEN step[w] ELSE 0)
    BY <1>1, <1>2 DEF TFCopyInv, TFApplied, BatchOver, Assigned
  <1>4. val = [of |-> Root, updates |-> us]
    BY <1>2, <1>3 DEF TFCopy
  <1>5. CASE p \in dependent
    <2>1. us = [k \in 1..step[w] |-> us[k]] /\ \A k \in 1..step[w] : us[k] = {<<v, k>> : v \in Worker}
      BY <1>2, <1>3, <1>5 DEF Averages, AllOf
    <2>2. us = [k \in 1..step[w] |-> {<<v, k>> : v \in Worker}]
      BY <2>1
    <2> QED BY <1>1, <1>4, <1>5, <2>2
  <1>6. CASE p \notin dependent
    <2>1. us = << >>
      BY <1>2, <1>3, <1>6, EmptySeq DEF Averages
    <2> QED BY <1>1, <1>4, <1>6, <2>1
  <1> QED BY <1>5, <1>6

\* The replicas of byteps.tensorflow and of its distribution strategy, for all numbers
\* of workers, variables, devices, steps and merge calls: after the broadcast of
\* broadcast_variables() all workers' variables are the root's with the average of all
\* workers' gradients of every step, whatever order the session ran the operations in;
\* the copies on the devices of mirrored_strategy.py are equal, and each merge_call()
\* returns the sum over the same call of all replicas, even when one replica raises or
\* returns early.
THEOREM ReplicasStayEqual == Spec => []ReplicasAgree
  <1>1. Init => TFJob /\ MSJob
    BY TFInitial, MSInitial DEF Init, TFJob, MSJob
  <1>2. TFJob /\ MSJob => ReplicasAgree
    BY TFAgrees, MSAgrees DEF ReplicasAgree, TFJob, MSJob
  <1> QED BY <1>1, <1>2, TFJobInductive, MSJobInductive, PTL DEF Spec

-----------------------------------------------------------------------------
(* DistributedDataParallel: rank 0's buffers, broadcast in every pass.      *)

\* What rank 0's passes before pass b + 1 of step s left in its buffers.
Left(s, b) == IF b > 0 THEN <<Root, s, b>>
              ELSE IF s > 1 THEN <<Root, s - 1, backward_passes_per_step>> ELSE <<Root, 0, 0>>

DDPPc == {"forward", "buffers", "backward", "wait_in_hook", "pass_over", "synchronize", "step",
          "finished"}
DDPBuffers(w) == pushed[w]["buffers"]

DDPTypeOK ==
    /\ pc \in [Worker -> DDPPc]
    /\ step \in [Worker -> Nat \ {0}]
    /\ passes \in [Worker -> 0..(backward_passes_per_step - 1)]
    /\ DOMAIN read = Worker
    /\ buffers \in [Worker -> Worker \X Nat \X Nat]
    /\ DOMAIN pushed = Worker
    /\ \A w \in Worker : "buffers" \in DOMAIN pushed[w]
                         /\ DDPBuffers(w) \in Seq({DDP!Zero} \cup (Worker \X Nat \X Nat))

\* One broadcast for every pass, in which only rank 0's buffers are not zero.
DDPPassInv(w) ==
    /\ pc[w] \in {"synchronize", "step"} => passes[w] = backward_passes_per_step - 1
    /\ pc[w] # "finished" =>
        Len(DDPBuffers(w)) = (step[w] - 1) * backward_passes_per_step + passes[w]
                             + (IF pc[w] = "forward" THEN 0 ELSE 1)
    /\ pc[w] \notin {"forward", "buffers", "finished"} => read[w] = Left(step[w], passes[w])
DDPRootInv(w) ==
    IF w = Root
    THEN /\ pc[w] # "finished" =>
                buffers[w] = IF pc[w] \in {"forward", "buffers"} THEN Left(step[w], passes[w])
                             ELSE <<Root, step[w], passes[w] + 1>>
         /\ \A s \in Nat \ {0}, b \in 0..(backward_passes_per_step - 1) :
                LET n == (s - 1) * backward_passes_per_step + b + 1 IN
                n <= Len(DDPBuffers(w)) => DDPBuffers(w)[n] = Left(s, b)
    ELSE \A n \in 1..Len(DDPBuffers(w)) : DDPBuffers(w)[n] = DDP!Zero

DDPInv == DDPTypeOK /\ \A w \in Worker : DDPPassInv(w) /\ DDPRootInv(w)

LEMMA PassNumber ==
  ASSUME NEW B \in Nat \ {0}, NEW s \in Nat \ {0}, NEW b \in 0..(B - 1)
  PROVE  (s - 1) * B \in Nat /\ (s - 1) * B + b \in Nat /\ (s - 1) * B + b + 1 \in Nat \ {0}
  <1>1. (s - 1) * B \in Nat
    OBVIOUS
  <1> QED BY <1>1

DDPValue == {DDP!Zero} \cup (Worker \X Nat \X Nat)

LEMMA DDPInitial == DDP!DDPInit => DDPInv
  <1> SUFFICES ASSUME DDP!DDPInit PROVE DDPInv
    OBVIOUS
  <1> DEFINE B == backward_passes_per_step
  <1>1. B \in Nat \ {0} /\ 0 \in 0..(B - 1)
    BY CountsAssumption
  <1>2. DOMAIN pushed = Worker
        /\ \A w \in Worker : "buffers" \in DOMAIN pushed[w] /\ DDPBuffers(w) = << >>
    BY DEF DDP!DDPInit, DDP!CoreInit, DDP!Buffers, DDPBuffers
  <1>3. /\ pc = [w \in Worker |-> "forward"] /\ step = [w \in Worker |-> 1]
        /\ passes = [w \in Worker |-> 0]
        /\ buffers = [w \in Worker |-> <<w, 0, 0>>] /\ read = [w \in Worker |-> <<w, 0, 0>>]
    BY DEF DDP!DDPInit
  <1>4. DDPTypeOK
    <2>1. buffers \in [Worker -> Worker \X Nat \X Nat] /\ DOMAIN read = Worker
      BY <1>3
    <2>2. pc \in [Worker -> DDPPc] /\ step \in [Worker -> Nat \ {0}] /\ passes \in [Worker -> 0..(B - 1)]
      BY <1>1, <1>3 DEF DDPPc
    <2>3. \A w \in Worker : DDPBuffers(w) \in Seq({DDP!Zero} \cup (Worker \X Nat \X Nat))
      BY <1>2, EmptySequences
    <2> QED BY <1>2, <2>1, <2>2, <2>3 DEF DDPTypeOK
  <1>5. ASSUME NEW w \in Worker PROVE DDPPassInv(w) /\ DDPRootInv(w)
    <2>1. Len(DDPBuffers(w)) = 0 /\ Left(1, 0) = <<Root, 0, 0>>
      BY <1>2, EmptySequences DEF Left
    <2>2. (step[w] - 1) * B = 0
      BY <1>1, <1>3
    <2>3. \A s \in Nat \ {0}, b \in 0..(B - 1) : ~((s - 1) * B + b + 1 <= 0)
      <3>1. \A s \in Nat \ {0} : (s - 1) * B \in Nat
        BY <1>1
      <3> QED BY <1>1, <3>1
    <2>4. DDPPassInv(w)
      BY <1>3, <2>1, <2>2 DEF DDPPassInv
    <2> QED BY <1>3, <2>1, <2>3, <2>4 DEF DDPRootInv
  <1> QED BY <1>4, <1>5 DEF DDPInv

\* The invariant of a worker whose own part of the state does not change.
LEMMA DDPFrame ==
  ASSUME NEW w \in Worker, DDPPassInv(w), DDPRootInv(w),
         UNCHANGED <<pc[w], step[w], passes[w], buffers[w], read[w], DDPBuffers(w)>>
  PROVE  DDPPassInv(w)' /\ DDPRootInv(w)'
  BY DEF DDPPassInv, DDPRootInv

\* No gradient is pushed under the buffers' name.
LEMMA DDPGradientPushed ==
  ASSUME DDPTypeOK, NEW w \in Worker, NEW p \in Weights, NEW e, DDP!push_pull_async(w, p, e)
  PROVE  /\ DOMAIN pushed' = Worker
         /\ \A v \in Worker : "buffers" \in DOMAIN pushed'[v] /\ DDPBuffers(v)' = DDPBuffers(v)
  <1>1. p # "buffers"
    BY NamesAssumption DEF Weights
  <1> QED BY <1>1 DEF DDP!push_pull_async, DDPTypeOK, DDPBuffers

\* A step that leaves the buffers and their broadcasts alone.
LEMMA DDPQuietStep ==
  ASSUME DDPInv, NEW w \in Worker,
         UNCHANGED <<buffers, read>>,
         pc' \in [Worker -> DDPPc], \A v \in Worker : v # w => pc'[v] = pc[v],
         UNCHANGED <<step, passes>>,
         DOMAIN pushed' = Worker,
         \A v \in Worker : "buffers" \in DOMAIN pushed'[v] /\ DDPBuffers(v)' = DDPBuffers(v),
         pc[w] \notin {"forward", "buffers", "finished"},
         pc'[w] \notin {"forward", "buffers", "finished"},
         pc'[w] \in {"synchronize", "step"} => passes[w] = backward_passes_per_step - 1
  PROVE  DDPInv'
  <1>1. DDPTypeOK'
    BY DEF DDPInv, DDPTypeOK
  <1>2. ASSUME NEW v \in Worker PROVE DDPPassInv(v)' /\ DDPRootInv(v)'
    <2>1. CASE v # w
      BY <2>1, DDPFrame DEF DDPInv
    <2>2. CASE v = w
      <3>1. DDPPassInv(w) /\ DDPRootInv(w)
        BY DEF DDPInv
      <3>2. DDPPassInv(w)'
        BY <3>1 DEF DDPPassInv
      <3>3. DDPRootInv(w)'
        BY <3>1 DEF DDPRootInv
      <3> QED BY <2>2, <3>2, <3>3
    <2> QED BY <2>1, <2>2
  <1> QED BY <1>1, <1>2 DEF DDPInv

\* hook, PushMissing and the two waits.
LEMMA DDPQuietSteps ==
  ASSUME DDPInv, NEW w \in Worker,
         DDP!hook(w) \/ DDP!PushMissing(w) \/ DDP!synchronize_in_hook(w) \/ DDP!synchronize_call(w)
  PROVE  DDPInv'
  <1>1. DDPTypeOK /\ DDPPassInv(w) /\ pc \in [Worker -> DDPPc]
    BY DEF DDPInv, DDPTypeOK
  <1>2. DDP!Params = Weights
    BY DEF DDP!Params, Weights, DDP!Range, Range
  <1>3. CASE DDP!hook(w)
    <2>1. PICK p \in Weights :
            DDP!push_pull_async(w, p, DDP!Accumulated(w, p)) \/ UNCHANGED pushed
      BY <1>2, <1>3 DEF DDP!hook, DDP!core
    <2>2. pc[w] = "backward" /\ UNCHANGED <<buffers, read, step, passes>>
          /\ pc' = [pc EXCEPT ![w] = DDP!AfterHook(w)]
      BY <1>3 DEF DDP!hook
    <2>3. DDP!AfterHook(w) \in {"wait_in_hook", "backward", "pass_over"}
      BY DEF DDP!AfterHook
    <2>4. /\ pc' \in [Worker -> DDPPc] /\ \A v \in Worker : v # w => pc'[v] = pc[v]
          /\ pc'[w] \in {"wait_in_hook", "backward", "pass_over"}
      BY <1>1, <2>2, <2>3 DEF DDPPc
    <2>5. /\ DOMAIN pushed' = Worker
          /\ \A v \in Worker : "buffers" \in DOMAIN pushed'[v] /\ DDPBuffers(v)' = DDPBuffers(v)
      <3>1. CASE UNCHANGED pushed
        BY <1>1, <3>1 DEF DDPTypeOK, DDPBuffers
      <3>2. CASE DDP!push_pull_async(w, p, DDP!Accumulated(w, p))
        <4>1. PICK e : e = DDP!Accumulated(w, p)
          OBVIOUS
        <4>2. DDP!push_pull_async(w, p, e)
          BY <3>2, <4>1
        <4> QED BY <1>1, <4>2, DDPGradientPushed
      <3> QED BY <2>1, <3>1, <3>2
    <2> QED BY <2>2, <2>4, <2>5, DDPQuietStep
  <1>4. CASE DDP!PushMissing(w)
    <2>1. PICK p \in Weights : DDP!push_pull_async(w, p, grad[w][p])
      BY <1>2, <1>4 DEF DDP!PushMissing, DDP!Missing
    <2>2. pc[w] = "synchronize" /\ UNCHANGED <<pc, buffers, read, step, passes>>
      BY <1>4 DEF DDP!PushMissing
    <2>3. PICK e : e = grad[w][p]
      OBVIOUS
    <2>4. DDP!push_pull_async(w, p, e)
      BY <2>1, <2>3
    <2>5. /\ DOMAIN pushed' = Worker
          /\ \A v \in Worker : "buffers" \in DOMAIN pushed'[v] /\ DDPBuffers(v)' = DDPBuffers(v)
      BY <1>1, <2>4, DDPGradientPushed
    <2>6. passes[w] = backward_passes_per_step - 1
      BY <1>1, <2>2 DEF DDPPassInv
    <2> QED BY <1>1, <2>2, <2>5, <2>6, DDPQuietStep
  <1>5. CASE DDP!synchronize_in_hook(w) \/ DDP!synchronize_call(w)
    <2>1. UNCHANGED <<pushed, buffers, read, step, passes>>
      BY <1>5 DEF DDP!synchronize_in_hook, DDP!synchronize_call, DDP!AllArrived
    <2>2. \/ /\ pc[w] = "wait_in_hook"
             /\ pc' = [pc EXCEPT ![w] = "backward"] \/ pc' = [pc EXCEPT ![w] = "pass_over"]
          \/ pc[w] = "synchronize" /\ pc' = [pc EXCEPT ![w] = "step"]
      BY <1>5 DEF DDP!synchronize_in_hook, DDP!synchronize_call, DDP!AllArrived
    <2>3. /\ pc' \in [Worker -> DDPPc] /\ \A v \in Worker : v # w => pc'[v] = pc[v]
          /\ \/ pc[w] = "wait_in_hook" /\ pc'[w] \in {"backward", "pass_over"}
             \/ pc[w] = "synchronize" /\ pc'[w] = "step"
      BY <1>1, <2>2 DEF DDPPc
    <2>4. pc'[w] \in {"synchronize", "step"} => passes[w] = backward_passes_per_step - 1
      BY <1>1, <2>3 DEF DDPPassInv
    <2>5. /\ DOMAIN pushed' = Worker
          /\ \A v \in Worker : "buffers" \in DOMAIN pushed'[v] /\ DDPBuffers(v)' = DDPBuffers(v)
      BY <1>1, <2>1 DEF DDPTypeOK, DDPBuffers
    <2> QED BY <2>1, <2>3, <2>4, <2>5, DDPQuietStep
  <1> QED BY <1>3, <1>4, <1>5

\* Everyone else's part of the state, in a step of w that pushes no buffers.
LEMMA DDPOwnStep ==
  ASSUME DDPInv, NEW w \in Worker, DDPTypeOK',
         \A v \in Worker : v # w =>
            UNCHANGED <<pc[v], step[v], passes[v], buffers[v], read[v], DDPBuffers(v)>>,
         DDPPassInv(w)', DDPRootInv(w)'
  PROVE  DDPInv'
  <1>1. ASSUME NEW v \in Worker PROVE DDPPassInv(v)' /\ DDPRootInv(v)'
    <2>1. CASE v # w
      BY <2>1, DDPFrame DEF DDPInv
    <2> QED BY <2>1
  <1> QED BY <1>1 DEF DDPInv

LEMMA DDPSyncParamsStep ==
  ASSUME DDPInv, NEW w \in Worker, DDP!_sync_params(w) PROVE DDPInv'
  <1> DEFINE B == backward_passes_per_step
             s == DDPBuffers(w)
             e == DDP!FilledWithZero(w)
  <1>1. /\ DDPTypeOK /\ DDPPassInv(w) /\ DDPRootInv(w) /\ B \in Nat \ {0}
        /\ pc[w] = "forward" /\ pc' = [pc EXCEPT ![w] = "buffers"]
        /\ pushed' = [pushed EXCEPT ![w]["buffers"] = Append(s, e)]
        /\ UNCHANGED <<step, passes, buffers, read>>
    BY CountsAssumption
       DEF DDPInv, DDP!_sync_params, DDP!push_pull_async, DDP!Buffers, DDPBuffers
  <1>2. s \in Seq(DDPValue) /\ e \in DDPValue
    BY <1>1 DEF DDPTypeOK, DDPValue, DDP!FilledWithZero
  <1>3. /\ Append(s, e) \in Seq(DDPValue) /\ Len(s) \in Nat /\ Len(Append(s, e)) = Len(s) + 1
        /\ Append(s, e)[Len(s) + 1] = e /\ \A i \in 1..Len(s) : Append(s, e)[i] = s[i]
        /\ \A i \in 1..(Len(s) + 1) : i \in 1..Len(s) \/ i = Len(s) + 1
    <2> HIDE DEF s, e
    <2> QED BY <1>2, AppendFacts
  <1>4. /\ DOMAIN pushed' = Worker /\ \A v \in Worker : "buffers" \in DOMAIN pushed'[v]
        /\ DDPBuffers(w)' = Append(s, e)
        /\ \A v \in Worker : v # w => DDPBuffers(v)' = DDPBuffers(v)
    <2> DEFINE c == Append(s, e)
    <2>1. pushed' = [pushed EXCEPT ![w]["buffers"] = c]
      BY <1>1
    <2> HIDE DEF c
    <2>2. /\ DOMAIN pushed' = Worker /\ \A v \in Worker : "buffers" \in DOMAIN pushed'[v]
          /\ pushed'[w]["buffers"] = c
          /\ \A v \in Worker : v # w => pushed'[v] = pushed[v]
      BY <1>1, <2>1 DEF DDPTypeOK
    <2> QED BY <2>2 DEF c, DDPBuffers
  <1>5. /\ pc' \in [Worker -> DDPPc] /\ pc'[w] = "buffers" /\ \A v \in Worker : v # w => pc'[v] = pc[v]
        /\ step[w] \in Nat \ {0} /\ passes[w] \in 0..(B - 1)
    BY <1>1 DEF DDPTypeOK, DDPPc
  <1>6. DDPTypeOK'
    <2>1. \A v \in Worker : DDPBuffers(v)' \in Seq(DDPValue)
      <3> SUFFICES ASSUME NEW v \in Worker PROVE DDPBuffers(v)' \in Seq(DDPValue)
        OBVIOUS
      <3>1. CASE v = w
        BY <1>3, <1>4, <3>1
      <3>2. CASE v # w
        BY <1>1, <1>4, <3>2 DEF DDPTypeOK, DDPValue
      <3> QED BY <3>1, <3>2
    <2> QED BY <1>1, <1>4, <1>5, <2>1 DEF DDPTypeOK, DDPValue
  <1>7. Len(s) = (step[w] - 1) * B + passes[w]
    BY <1>1, <1>5 DEF DDPPassInv
  <1> HIDE DEF s, e
  <1>8. DDPPassInv(w)'
    <2>1. Len(DDPBuffers(w)') = (step[w] - 1) * B + passes[w] + 1
      BY <1>3, <1>4, <1>7
    <2> QED BY <1>1, <1>5, <2>1 DEF DDPPassInv
  <1>9. DDPRootInv(w)'
    <2>1. CASE w # Root
      <3>1. e = DDP!Zero
        BY <2>1 DEF e, DDP!FilledWithZero
      <3>2. \A n \in 1..Len(s) : s[n] = DDP!Zero
        BY <1>1, <2>1 DEF DDPRootInv, s
      <3>3. \A n \in 1..Len(Append(s, e)) : Append(s, e)[n] = DDP!Zero
        BY <1>3, <3>1, <3>2
      <3> QED BY <1>4, <2>1, <3>3 DEF DDPRootInv
    <2>2. CASE w = Root
      <3>1. e = Left(step[w], passes[w]) /\ buffers[w] = Left(step[w], passes[w])
        BY <1>1, <2>2 DEF e, DDP!FilledWithZero, DDPRootInv
      <3>2. ASSUME NEW t \in Nat \ {0}, NEW b \in 0..(B - 1), (t - 1) * B + b + 1 <= Len(Append(s, e))
            PROVE  Append(s, e)[(t - 1) * B + b + 1] = Left(t, b)
        <4>1. (t - 1) * B + b \in Nat /\ (step[w] - 1) * B + passes[w] \in Nat
          BY <1>1, <1>5, PassNumber
        <4>2. CASE (t - 1) * B + b + 1 <= Len(s)
          <5>1. s[(t - 1) * B + b + 1] = Left(t, b)
            BY <1>1, <2>2, <4>2 DEF DDPRootInv, s
          <5>2. (t - 1) * B + b + 1 \in 1..Len(s)
            BY <1>3, <4>1, <4>2
          <5> QED BY <1>3, <5>1, <5>2
        <4>3. CASE ~((t - 1) * B + b + 1 <= Len(s))
          <5>1. (t - 1) * B + b = (step[w] - 1) * B + passes[w]
            BY <1>3, <1>7, <3>2, <4>1, <4>3
          <5>2. t = step[w] /\ b = passes[w]
            <6>1. PICK t1 \in Nat \ {0}, b1 \in 0..(B - 1) : t1 = step[w] /\ b1 = passes[w]
              BY <1>5
            <6>2. (t - 1) * B + b = (t1 - 1) * B + b1
              BY <5>1, <6>1
            <6>3. t = t1 /\ b = b1
              BY <1>1, <6>2, OneDecomposition
            <6> QED BY <6>1, <6>3
          <5> QED BY <1>3, <1>7, <3>1, <5>1, <5>2
        <4> QED BY <4>2, <4>3
      <3>3. \A t \in Nat \ {0}, b \in 0..(B - 1) :
               (t - 1) * B + b + 1 <= Len(DDPBuffers(w)') =>
                  DDPBuffers(w)'[(t - 1) * B + b + 1] = Left(t, b)
        BY <1>4, <3>2
      <3>4. buffers'[w] = Left(step'[w], passes'[w])
        BY <1>1, <3>1
      <3> QED BY <1>5, <2>2, <3>3, <3>4 DEF DDPRootInv, Left
    <2> QED BY <2>1, <2>2
  <1> QED BY <1>1, <1>4, <1>5, <1>6, <1>8, <1>9, DDPOwnStep

LEMMA DDPForwardStep ==
  ASSUME DDPInv, NEW w \in Worker, DDP!forward(w) PROVE DDPInv'
  <1> DEFINE B == backward_passes_per_step
             n == (step[w] - 1) * B + passes[w] + 1
             sum == DDP!Output(w, "buffers") \ {DDP!Zero}
  <1>1. /\ DDPTypeOK /\ DDPPassInv(w) /\ DDPRootInv(w) /\ B \in Nat \ {0}
        /\ pc[w] = "buffers" /\ pc' = [pc EXCEPT ![w] = "backward"]
        /\ UNCHANGED <<step, passes, pushed>>
        /\ \A v \in Worker : Len(DDPBuffers(v)) >= Len(DDPBuffers(w))
        /\ buffers' = [buffers EXCEPT ![w] = <<w, step[w], passes[w] + 1>>]
        /\ read' = [read EXCEPT ![w] =
                IF DDP!Cardinality(sum) = 1 THEN CHOOSE b \in sum : TRUE ELSE <<"mixed", 0, 0>>]
    BY CountsAssumption
       DEF DDPInv, DDP!forward, DDP!synchronize, DDP!Done, DDP!Buffers, DDPBuffers, DDP!Pass
  <1>2. /\ pc' \in [Worker -> DDPPc] /\ pc'[w] = "backward" /\ \A v \in Worker : v # w => pc'[v] = pc[v]
        /\ step[w] \in Nat \ {0} /\ passes[w] \in 0..(B - 1) /\ n \in Nat \ {0}
        /\ DOMAIN read = Worker /\ buffers \in [Worker -> Worker \X Nat \X Nat]
    <2>1. step[w] \in Nat \ {0} /\ passes[w] \in 0..(B - 1)
      BY <1>1 DEF DDPTypeOK
    <2>2. n \in Nat \ {0}
      BY <1>1, <2>1, PassNumber
    <2> QED BY <1>1, <2>1, <2>2 DEF DDPTypeOK, DDPPc
  <1>3. Len(DDPBuffers(w)) = n
    BY <1>1, <1>2 DEF DDPPassInv
  <1>4. \A v \in Worker : Len(DDPBuffers(v)) >= n
        /\ DDPBuffers(v)[n] = IF v = Root THEN Left(step[w], passes[w]) ELSE DDP!Zero
    <2> SUFFICES ASSUME NEW v \in Worker
                 PROVE  /\ Len(DDPBuffers(v)) >= n
                        /\ DDPBuffers(v)[n] = IF v = Root THEN Left(step[w], passes[w]) ELSE DDP!Zero
      OBVIOUS
    <2>1. DDPRootInv(v) /\ Len(DDPBuffers(v)) \in Nat /\ Len(DDPBuffers(v)) >= n
      BY <1>1, <1>3 DEF DDPInv, DDPTypeOK
    <2>2. CASE v # Root
      <3>1. n \in 1..Len(DDPBuffers(v))
        BY <1>2, <2>1
      <3> HIDE DEF n
      <3> QED BY <2>1, <2>2, <3>1 DEF DDPRootInv
    <2>3. CASE v = Root
      BY <1>2, <2>1, <2>3 DEF DDPRootInv
    <2> QED BY <2>1, <2>2, <2>3
  <1>5. DDP!Output(w, "buffers") = {DDPBuffers(v)[n] : v \in Worker}
    <2> HIDE DEF n
    <2> QED BY <1>3, <1>4 DEF DDP!Output, DDPBuffers
  <1>6. Left(step[w], passes[w]) # DDP!Zero
    <2>1. Left(step[w], passes[w])[1] = Root
      BY DEF Left
    <2>2. DDP!Zero[1] = "zero" /\ Root # "zero"
      BY RootAssumption DEF DDP!Zero
    <2> QED BY <2>1, <2>2
  <1>7. sum = {Left(step[w], passes[w])}
    <2> HIDE DEF n
    <2> QED BY <1>4, <1>5, <1>6, RootAssumption
  <1>8. DDP!Cardinality(sum) = 1 /\ (CHOOSE b \in sum : TRUE) = Left(step[w], passes[w])
    <2>1. \A x : Cardinality({x}) = 1
      BY FS_Singleton
    <2> QED BY <1>7, <2>1 DEF DDP!Cardinality, Cardinality
  <1>9. read' = [read EXCEPT ![w] = Left(step[w], passes[w])]
    BY <1>1, <1>8
  <1> HIDE DEF n, sum
  <1>10. /\ read'[w] = Left(step[w], passes[w]) /\ DOMAIN read' = Worker
         /\ \A v \in Worker : v # w => read'[v] = read[v]
    BY <1>2, <1>9
  <1>11. /\ buffers'[w] = <<w, step[w], passes[w] + 1>> /\ buffers' \in [Worker -> Worker \X Nat \X Nat]
         /\ \A v \in Worker : v # w => buffers'[v] = buffers[v]
    <2>1. <<w, step[w], passes[w] + 1>> \in Worker \X Nat \X Nat
      BY <1>2
    <2> QED BY <1>1, <1>2, <2>1
  <1>12. \A v \in Worker : DDPBuffers(v)' = DDPBuffers(v)
    BY <1>1 DEF DDPBuffers
  <1>13. DDPTypeOK'
    BY <1>1, <1>2, <1>10, <1>11, <1>12 DEF DDPTypeOK
  <1>14. DDPPassInv(w)'
    BY <1>1, <1>2, <1>10, <1>12 DEF DDPPassInv
  <1>15. DDPRootInv(w)'
    BY <1>1, <1>2, <1>11, <1>12 DEF DDPRootInv
  <1> QED BY <1>1, <1>2, <1>10, <1>11, <1>12, <1>13, <1>14, <1>15, DDPOwnStep

\* The end of a pass or of a step: pass b + 1 of step s comes next.
LEMMA DDPNextPass ==
  ASSUME DDPInv, NEW w \in Worker, NEW s \in Nat \ {0}, NEW b \in 0..(backward_passes_per_step - 1),
         pc[w] \notin {"forward", "buffers", "finished"},
         pc' = [pc EXCEPT ![w] = "forward"],
         \/ s = step[w] /\ b = passes[w] + 1
         \/ s = step[w] + 1 /\ b = 0 /\ passes[w] = backward_passes_per_step - 1,
         step' \in [Worker -> Nat \ {0}], step'[w] = s,
         passes' \in [Worker -> 0..(backward_passes_per_step - 1)], passes'[w] = b,
         \A v \in Worker : v # w => UNCHANGED <<step[v], passes[v]>>,
         UNCHANGED <<buffers, read, pushed>>
  PROVE  DDPInv'
  <1> DEFINE B == backward_passes_per_step
  <1>1. /\ DDPTypeOK /\ DDPPassInv(w) /\ DDPRootInv(w) /\ B \in Nat \ {0}
        /\ step[w] \in Nat \ {0} /\ passes[w] \in 0..(B - 1)
    BY CountsAssumption DEF DDPInv, DDPTypeOK
  <1>2. pc' \in [Worker -> DDPPc] /\ pc'[w] = "forward" /\ \A v \in Worker : v # w => pc'[v] = pc[v]
    BY <1>1 DEF DDPTypeOK, DDPPc
  <1>3. \A v \in Worker : DDPBuffers(v)' = DDPBuffers(v)
    BY DEF DDPBuffers
  <1>4. DDPTypeOK'
    BY <1>1, <1>2, <1>3 DEF DDPTypeOK
  <1>5. Len(DDPBuffers(w)) = (s - 1) * B + b
    <2>1. Len(DDPBuffers(w)) = (step[w] - 1) * B + passes[w] + 1
      BY <1>1 DEF DDPPassInv
    <2>2. CASE s = step[w]
      <3>1. (s - 1) * B \in Nat /\ b = passes[w] + 1 /\ (step[w] - 1) * B = (s - 1) * B
        BY <1>1, <2>2, PassNumber
      <3> QED BY <1>1, <2>1, <3>1
    <2>3. CASE s = step[w] + 1 /\ b = 0 /\ passes[w] = B - 1
      <3>1. (step[w] - 1) * B \in Nat
        BY <1>1, PassNumber
      <3>2. PICK x \in Nat : x = step[w] - 1
        BY <1>1
      <3>3. s - 1 = x + 1
        BY <1>1, <2>3, <3>2
      <3>4. (x + 1) * B = x * B + B
        BY <1>1
      <3>5. PICK y \in Nat : y = (step[w] - 1) * B
        BY <3>1
      <3>6. (s - 1) * B = y + B
        BY <3>2, <3>3, <3>4, <3>5
      <3>7. (s - 1) * B + b = y + B
        BY <1>1, <2>3, <3>6
      <3>8. Len(DDPBuffers(w)) = y + (B - 1) + 1
        BY <2>1, <2>3, <3>5
      <3>9. y + (B - 1) + 1 = y + B
        BY <1>1
      <3> QED BY <3>7, <3>8, <3>9
    <2> QED BY <2>2, <2>3
  <1>6. DDPPassInv(w)'
    <2>1. Len(DDPBuffers(w)') = (step'[w] - 1) * B + passes'[w] + 0
      <3>1. (s - 1) * B + b \in Nat
        BY <1>1, PassNumber
      <3> QED BY <1>3, <1>5, <3>1
    <2> QED BY <1>2, <2>1 DEF DDPPassInv
  <1>7. DDPRootInv(w)'
    <2>1. CASE w # Root
      BY <1>1, <1>3, <2>1 DEF DDPRootInv
    <2>2. CASE w = Root
      <3>1. buffers[w] = <<Root, step[w], passes[w] + 1>>
        BY <1>1, <2>2 DEF DDPRootInv
      <3>2. Left(s, b) = <<Root, step[w], passes[w] + 1>>
        BY <1>1 DEF Left
      <3>3. buffers'[w] = Left(step'[w], passes'[w])
        BY <3>1, <3>2
      <3>4. \A t \in Nat \ {0}, c \in 0..(B - 1) :
               (t - 1) * B + c + 1 <= Len(DDPBuffers(w)') =>
                  DDPBuffers(w)'[(t - 1) * B + c + 1] = Left(t, c)
        BY <1>1, <1>3, <2>2 DEF DDPRootInv
      <3> QED BY <1>2, <2>2, <3>3, <3>4 DEF DDPRootInv, Left
    <2> QED BY <2>1, <2>2
  <1> QED BY <1>2, <1>3, <1>4, <1>6, <1>7, DDPOwnStep

LEMMA DDPPassOverStep ==
  ASSUME DDPInv, NEW w \in Worker, DDP!PassOver(w) PROVE DDPInv'
  <1>1. /\ DDPTypeOK /\ pc[w] = "pass_over" /\ UNCHANGED <<step, buffers, read, pushed>>
        /\ step \in [Worker -> Nat \ {0}]
        /\ passes \in [Worker -> 0..(backward_passes_per_step - 1)] /\ pc \in [Worker -> DDPPc]
        /\ backward_passes_per_step \in Nat \ {0}
    BY CountsAssumption DEF DDPInv, DDPTypeOK, DDP!PassOver, DDP!core
  <1>2. CASE DDP!require_backward_grad_sync(w)
    <2>1. pc' = [pc EXCEPT ![w] = "synchronize"] /\ UNCHANGED passes
      BY <1>2 DEF DDP!PassOver
    <2>2. passes[w] = backward_passes_per_step - 1
      BY <1>1, <1>2 DEF DDP!require_backward_grad_sync
    <2>3. /\ pc' \in [Worker -> DDPPc] /\ pc'[w] = "synchronize"
          /\ \A v \in Worker : v # w => pc'[v] = pc[v]
      BY <1>1, <2>1 DEF DDPPc
    <2>4. /\ DOMAIN pushed' = Worker
          /\ \A v \in Worker : "buffers" \in DOMAIN pushed'[v] /\ DDPBuffers(v)' = DDPBuffers(v)
      BY <1>1 DEF DDPTypeOK, DDPBuffers
    <2> QED BY <1>1, <2>1, <2>2, <2>3, <2>4, DDPQuietStep
  <1>3. CASE ~DDP!require_backward_grad_sync(w)
    <2>1. pc' = [pc EXCEPT ![w] = "forward"] /\ passes' = [passes EXCEPT ![w] = passes[w] + 1]
      BY <1>3 DEF DDP!PassOver
    <2>2. PICK b \in 0..(backward_passes_per_step - 1) : b = passes[w] + 1
      BY <1>1, <1>3 DEF DDP!require_backward_grad_sync
    <2>3. /\ passes' \in [Worker -> 0..(backward_passes_per_step - 1)] /\ passes'[w] = b
          /\ \A v \in Worker : v # w => passes'[v] = passes[v]
      BY <1>1, <2>1, <2>2
    <2>4. PICK s \in Nat \ {0} : s = step[w]
      BY <1>1
    <2> QED BY <1>1, <2>1, <2>2, <2>3, <2>4, DDPNextPass
  <1> QED BY <1>2, <1>3

LEMMA DDPStepStep ==
  ASSUME DDPInv, NEW w \in Worker, DDP!Step(w) PROVE DDPInv'
  <1>1. /\ DDPTypeOK /\ DDPPassInv(w) /\ DDPRootInv(w) /\ pc[w] = "step"
        /\ UNCHANGED <<buffers, read, pushed>>
        /\ step \in [Worker -> Nat \ {0}]
        /\ passes \in [Worker -> 0..(backward_passes_per_step - 1)] /\ pc \in [Worker -> DDPPc]
        /\ backward_passes_per_step \in Nat \ {0}
        /\ passes' = [passes EXCEPT ![w] = 0]
    BY CountsAssumption DEF DDPInv, DDPTypeOK, DDP!Step, DDP!core
  <1>2. passes[w] = backward_passes_per_step - 1
    BY <1>1 DEF DDPPassInv
  <1>3. /\ passes' \in [Worker -> 0..(backward_passes_per_step - 1)] /\ passes'[w] = 0
        /\ \A v \in Worker : v # w => passes'[v] = passes[v]
        /\ 0 \in 0..(backward_passes_per_step - 1)
    BY <1>1
  <1>4. CASE step[w] < Steps
    <2>1. pc' = [pc EXCEPT ![w] = "forward"] /\ step' = [step EXCEPT ![w] = step[w] + 1]
      BY <1>4 DEF DDP!Step
    <2>2. PICK s \in Nat \ {0} : s = step[w] + 1
      BY <1>1
    <2>3. /\ step' \in [Worker -> Nat \ {0}] /\ step'[w] = s
          /\ \A v \in Worker : v # w => step'[v] = step[v]
      BY <1>1, <2>1, <2>2
    <2> QED BY <1>1, <1>2, <1>3, <2>1, <2>2, <2>3, DDPNextPass
  <1>5. CASE ~(step[w] < Steps)
    <2>1. pc' = [pc EXCEPT ![w] = "finished"] /\ UNCHANGED step
      BY <1>5 DEF DDP!Step
    <2>2. /\ pc' \in [Worker -> DDPPc] /\ pc'[w] = "finished"
          /\ \A v \in Worker : v # w => pc'[v] = pc[v]
      BY <1>1, <2>1 DEF DDPPc
    <2>3. \A v \in Worker : DDPBuffers(v)' = DDPBuffers(v)
      BY <1>1 DEF DDPBuffers
    <2>4. DDPTypeOK'
      BY <1>1, <1>3, <2>1, <2>2, <2>3 DEF DDPTypeOK
    <2>5. DDPPassInv(w)' /\ DDPRootInv(w)'
      BY <1>1, <2>2, <2>3 DEF DDPPassInv, DDPRootInv
    <2> QED BY <1>1, <1>3, <2>1, <2>2, <2>3, <2>4, <2>5, DDPOwnStep
  <1> QED BY <1>4, <1>5

LEMMA DDPStutter == DDPInv /\ UNCHANGED vars => DDPInv'
  <1> SUFFICES ASSUME DDPInv, UNCHANGED vars PROVE DDPInv'
    OBVIOUS
  <1>1. UNCHANGED <<pc, step, passes, read, buffers, pushed>>
    BY DEF vars, shared, ddponly, core
  <1>2. \A v \in Worker : DDPBuffers(v)' = DDPBuffers(v)
    BY <1>1 DEF DDPBuffers
  <1>3. DDPTypeOK'
    BY <1>1, <1>2 DEF DDPInv, DDPTypeOK
  <1> QED BY <1>1, <1>2, <1>3, DDPFrame DEF DDPInv

DDPJob == plugin = "ddp" => DDPInv

LEMMA DDPJobInductive == DDPJob /\ [Next]_vars => DDPJob'
  <1> SUFFICES ASSUME DDPJob, [Next]_vars, plugin' = "ddp" PROVE DDPInv'
    BY DEF DDPJob
  <1>1. ASSUME Next, plugin = "ddp" PROVE \E w \in Worker : DDP!DDPWorker(w)
    BY <1>1 DEF Next, Runs, TorchRuns, DDPRuns, HalfRuns, MXRuns, TFRuns, CBMain, CBPoller, CBCore,
                MSMain, MSReplica
  <1>2. CASE Next
    <2>1. PICK w \in Worker : DDP!DDPWorker(w)
      BY <1>1, <1>2, PluginStays
    <2> QED BY <2>1, PluginStays, DDPSyncParamsStep, DDPForwardStep, DDPQuietSteps, DDPPassOverStep,
               DDPStepStep DEF DDPJob, DDP!DDPWorker
  <1>3. CASE UNCHANGED vars
    BY <1>3, PluginStays, DDPStutter DEF DDPJob
  <1> QED BY <1>2, <1>3

=============================================================================
