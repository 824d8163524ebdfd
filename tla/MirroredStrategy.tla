--------------------------- MODULE MirroredStrategy --------------------------
(* byteps/tensorflow/distribute: MirroredStrategy executed eagerly.  Each   *)
(* step calls the training function once per replica, each in a thread of   *)
(* its own, with the main thread as a conductor: it lets one replica after  *)
(* the other run up to its next merge_call(), reduces what they passed to   *)
(* it over the replicas and then, through the core, over the workers, and   *)
(* gives the result back.  The replicas are handled in the order 1, 2, ...; *)
(* a contribution is <<worker, replica, step, merge call>>, an update the   *)
(* set of contributions added up in it.                                     *)
EXTENDS PushPullCore

CONSTANTS Replicas,     \* num_replicas_in_graph: devices of one worker
    MergeCalls,         \* how often the training function calls merge_call()
    Steps

VARIABLES
    fault,      \* what one replica's function does wrong, on all workers, in the last step
    pc, step,   \* of the main thread
    idx,        \* the replica its loop has come to
    threads,    \* threads[w][r]: the _MirroredReplicaThread of the current step
    coord,      \* coord[w]: the Coordinator has been asked to stop
    value       \* value[w][r]: the variable's copy on a device

msvars == <<fault, pc, step, idx, threads, coord, value, core>>

Replica == 1..Replicas
Merged == "merged"
NoFault == [kind |-> "none", replica |-> 0]

\* _MirroredReplicaThread.__init__: both events start cleared.
NewThread == [at |-> "start", should_run |-> FALSE, has_paused |-> FALSE, done |-> FALSE,
              merge_args |-> {}, merge_result |-> {}, main_result |-> <<>>]

\* Replica 0 has the given initial value, the others copy its variable's.
_get_variable_creator_initial_value(w, r) == [of |-> <<w, 1>>, updates |-> <<>>]
_create_variable(w) == [r \in Replica |-> _get_variable_creator_initial_value(w, r)]

MSInit ==
    /\ fault \in {NoFault} \cup [kind : {"raises", "fewer"}, replica : Replica]
    /\ pc = [w \in Worker |-> "call"]
    /\ step = [w \in Worker |-> 1]
    /\ idx = [w \in Worker |-> 1]
    /\ threads = [w \in Worker |-> [r \in Replica |-> NewThread]]
    /\ coord = [w \in Worker |-> FALSE]
    /\ value = [w \in Worker |-> _create_variable(w)]
    /\ CoreInit({Merged})

MainGoes(w, from, to) == pc[w] = from /\ pc' = [pc EXCEPT ![w] = to]
ThreadAt(w, r, from) == threads[w][r].at = from
ThreadGoes(w, r, to, new) == threads' = [threads EXCEPT ![w][r] = [new EXCEPT !.at = to]]
mainvars == <<pc, step, idx>>

-----------------------------------------------------------------------------
\* The replica's thread: should_run.wait(), in run() or at the end of _merge_call.
ShouldRunWait(w, r) ==
    LET t == threads[w][r] IN
    /\ t.at \in {"start", "merge_call"} /\ t.should_run
    /\ ThreadGoes(w, r, IF t.at = "start" THEN "starting" ELSE "resuming", t)
    /\ UNCHANGED <<fault, mainvars, coord, value, core>>

\* should_run.clear() follows; then a stopped coordinator ends the thread.
NotCleared(t) == t
Cleared(t) == [t EXCEPT !.should_run = FALSE]
ShouldRunClear(w, r) ==
    LET t == threads[w][r]
        resumed == IF t.at = "resuming" /\ ~coord[w]
                   THEN [t EXCEPT !.main_result = Append(@, t.merge_result)] ELSE t IN
    /\ t.at \in {"starting", "resuming"}
    /\ ThreadGoes(w, r, IF coord[w] THEN "ending" ELSE "running", Cleared(resumed))
    /\ UNCHANGED <<fault, mainvars, coord, value, core>>

\* main_fn, up to its next merge_call() or to its end.
Faulty(w, r, kind) == fault = [kind |-> kind, replica |-> r] /\ step[w] = Steps
CallsMade(w, r) == Len(threads[w][r].main_result)
LastCall(w, r) == IF Faulty(w, r, "fewer") THEN MergeCalls - 1 ELSE MergeCalls

_merge_call(w, r) ==
    /\ ThreadAt(w, r, "running") /\ CallsMade(w, r) < LastCall(w, r)
    /\ ~(Faulty(w, r, "raises") /\ CallsMade(w, r) = MergeCalls - 1)
    /\ ThreadGoes(w, r, "merge_call",
            [threads[w][r] EXCEPT !.merge_args = {<<w, r, step[w], CallsMade(w, r) + 1>>},
                                  !.has_paused = TRUE])
    /\ UNCHANGED <<fault, mainvars, coord, value, core>>

MainFnReturns(w, r) ==
    /\ ThreadAt(w, r, "running") /\ CallsMade(w, r) = LastCall(w, r)
    /\ ThreadGoes(w, r, "ending", [threads[w][r] EXCEPT !.done = TRUE])
    /\ UNCHANGED <<fault, mainvars, coord, value, core>>

\* coord.stop_on_exception()
MainFnRaises(w, r) ==
    /\ ThreadAt(w, r, "running") /\ Faulty(w, r, "raises") /\ CallsMade(w, r) = MergeCalls - 1
    /\ coord' = [coord EXCEPT ![w] = TRUE]
    /\ ThreadGoes(w, r, "ending", threads[w][r])
    /\ UNCHANGED <<fault, mainvars, value, core>>

\* finally: has_paused.set()
ThreadEnds(w, r) ==
    /\ ThreadAt(w, r, "ending")
    /\ ThreadGoes(w, r, "ended", [threads[w][r] EXCEPT !.has_paused = TRUE])
    /\ UNCHANGED <<fault, mainvars, coord, value, core>>

ReplicaThread(w, r) ==
    \/ ShouldRunWait(w, r) \/ ShouldRunClear(w, r) \/ _merge_call(w, r)
    \/ MainFnReturns(w, r) \/ MainFnRaises(w, r) \/ ThreadEnds(w, r)

-----------------------------------------------------------------------------
\* The main thread, in _call_for_each_replica: it creates the threads ...
StartThreads(w) ==
    /\ MainGoes(w, "call", "set")
    /\ threads' = [threads EXCEPT ![w] = [r \in Replica |-> NewThread]]
    /\ idx' = [idx EXCEPT ![w] = 1]
    /\ UNCHANGED <<fault, step, coord, value, core>>

\* ... and lets them run in turn: should_run.set(), has_paused.wait(),
\* has_paused.clear().
ShouldRunSet(w) ==
    /\ MainGoes(w, "set", "wait")
    /\ threads' = [threads EXCEPT ![w][idx[w]].should_run = TRUE]
    /\ UNCHANGED <<fault, step, idx, coord, value, core>>

HasPausedWait(w) ==
    /\ MainGoes(w, "wait", "clear") /\ threads[w][idx[w]].has_paused
    /\ UNCHANGED <<fault, step, idx, threads, coord, value, core>>

HasPausedClear(w) ==
    /\ threads' = [threads EXCEPT ![w][idx[w]].has_paused = FALSE]
    /\ \/ coord[w] /\ MainGoes(w, "clear", "finally") /\ UNCHANGED idx
       \/ ~coord[w] /\ idx[w] < Replicas /\ MainGoes(w, "clear", "set")
          /\ idx' = [idx EXCEPT ![w] = @ + 1]
       \/ ~coord[w] /\ idx[w] = Replicas /\ MainGoes(w, "clear", "paused") /\ UNCHANGED idx
    /\ UNCHANGED <<fault, step, coord, value, core>>

\* All have paused.  They are all done, or not all of them are, or they merge:
\* _simple_reduce adds up the replicas' arguments and the core the workers'.
DoneReplicas(w) == {r \in Replica : threads[w][r].done}
AllDone(w) ==
    /\ MainGoes(w, "paused", "finally") /\ DoneReplicas(w) = Replica
    /\ UNCHANGED <<fault, step, idx, threads, coord, value, core>>
RaiseRuntimeError(w) ==
    /\ MainGoes(w, "paused", "finally") /\ DoneReplicas(w) \notin {{}, Replica}
    /\ coord' = [coord EXCEPT ![w] = TRUE]
    /\ UNCHANGED <<fault, step, idx, threads, value, core>>

_simple_reduce(w) == UNION {threads[w][r].merge_args : r \in Replica}
reduce_implementation(w) == push_pull_async(w, Merged, _simple_reduce(w))
MergeFn(w) ==
    /\ MainGoes(w, "paused", "reduce") /\ DoneReplicas(w) = {}
    /\ reduce_implementation(w)
    /\ UNCHANGED <<fault, step, idx, threads, coord, value>>

OnPrimaryOnly(w, sum) == [value[w] EXCEPT ![1].updates = Append(@, sum)]
_update(w, sum) ==
    [r \in Replica |-> [value[w][r] EXCEPT !.updates = Append(@, sum)]]
MergeResult(w) ==
    LET sum == UNION Output(w, Merged) IN
    /\ MainGoes(w, "reduce", "set") /\ synchronize(w, Merged)
    /\ value' = [value EXCEPT ![w] = _update(w, sum)]
    /\ threads' = [threads EXCEPT ![w] =
            [r \in Replica |-> [threads[w][r] EXCEPT !.merge_result = sum]]]
    /\ idx' = [idx EXCEPT ![w] = 1]
    /\ UNCHANGED <<fault, step, coord>>

\* finally: should_run.set() for all, coord.join(threads), which raises what
\* stopped the coordinator.
Finally(w) ==
    /\ MainGoes(w, "finally", "join")
    /\ threads' = [threads EXCEPT ![w] =
            [r \in Replica |-> [threads[w][r] EXCEPT !.should_run = TRUE]]]
    /\ UNCHANGED <<fault, step, idx, coord, value, core>>

Join(w) ==
    /\ \A r \in Replica : ThreadAt(w, r, "ended")
    /\ \/ ~coord[w] /\ step[w] < Steps /\ MainGoes(w, "join", "call")
          /\ step' = [step EXCEPT ![w] = @ + 1]
       \/ (coord[w] \/ step[w] = Steps) /\ MainGoes(w, "join", "finished") /\ UNCHANGED step
    /\ UNCHANGED <<fault, idx, threads, coord, value, core>>

MainThread(w) ==
    \/ StartThreads(w) \/ ShouldRunSet(w) \/ HasPausedWait(w) \/ HasPausedClear(w) \/ AllDone(w)
    \/ RaiseRuntimeError(w) \/ MergeFn(w) \/ MergeResult(w) \/ Finally(w) \/ Join(w)

-----------------------------------------------------------------------------
\* Every replica on its way back from the k-th merge call of a step has the sum
\* of what all replicas of all workers passed to their k-th call of that step:
\* the main thread never merges the arguments of an earlier call, or while a
\* replica is still on its way, and no replica runs on without its result.
MergedFromOneCall ==
    \A w \in Worker, r \in Replica : pc[w] # "call" => \A k \in 1..CallsMade(w, r) :
        threads[w][r].main_result[k] = {<<v, q, step[w], k>> : v \in Worker, q \in Replica}

\* "This strategy uses one replica per device and sync replication": whenever
\* the replicas of a worker run, their copies of a variable are equal, and the
\* updates are the same on all workers, each with every replica's contribution.
\* An error in one of them ends the step on all without half an update.
MirroredCopiesAgree ==
    \A w \in Worker, r \in Replica :
        /\ value[w][r] = value[w][1]
        /\ \A u \in 1..Len(value[w][r].updates) : \E s \in 1..Steps, k \in 1..MergeCalls :
                /\ u = (s - 1) * MergeCalls + k
                /\ value[w][r].updates[u] = {<<v, q, s, k>> : v \in Worker, q \in Replica}
        /\ pc[w] = "finished" /\ fault = NoFault =>
                Len(value[w][r].updates) = Steps * MergeCalls
=============================================================================
