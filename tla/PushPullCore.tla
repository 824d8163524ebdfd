---------------------------- MODULE PushPullCore -----------------------------
(* What the framework plugins see of the core (byteps/torch/ops.py and      *)
(* ops.cc): an operation on a named tensor.  The n-th operation of a name   *)
(* on one worker is combined with the n-th of that name on all the others.  *)
EXTENDS Naturals, Sequences, FiniteSets, SequencesExt, FiniteSetsExt

CONSTANT Worker
VARIABLES
    pushed,     \* pushed[w][name]: what w handed to the core under that name
    live        \* live[w]: names whose handle w has not yet waited for

core == <<pushed, live>>

CoreInit(Name) ==
    /\ pushed = [w \in Worker |-> [n \in Name |-> <<>>]]
    /\ live = [w \in Worker |-> {}]

\* The core is part of the processes: what it knew is gone when they are started again.
CoreRestart(Name) ==
    /\ pushed' = [w \in Worker |-> [n \in Name |-> <<>>]]
    /\ live' = [w \in Worker |-> {}]

\* _do_push_pull_async: the handle goes into _handle_map.
push_pull_async(w, name, value) ==
    /\ pushed' = [pushed EXCEPT ![w][name] = Append(@, value)]
    /\ live' = [live EXCEPT ![w] = @ \cup {name}]

\* Several operations started one after the other, none of them waited for.
push_pull_all(w, names, value) ==
    /\ pushed' = [pushed EXCEPT ![w] =
            [n \in DOMAIN @ |-> IF n \in names THEN Append(@[n], value[n]) ELSE @[n]]]
    /\ live' = [live EXCEPT ![w] = @ \cup names]

DoneOneLater(name, n) == \A v \in Worker : Len(pushed[v][name]) > n

\* The core is done with w's n-th operation on a name when all have started it.
Done(name, n) == \A v \in Worker : Len(pushed[v][name]) >= n

\* synchronize: block until the handle is done and forget it.
synchronize(w, name) ==
    /\ Done(name, Len(pushed[w][name]))
    /\ live' = [live EXCEPT ![w] = @ \ {name}]
    /\ UNCHANGED pushed

\* The summands of w's last operation on a name that the core has by now.
Output(w, name) ==
    LET n == Len(pushed[w][name]) IN
    {pushed[v][name][n] : v \in {u \in Worker : Len(pushed[u][name]) >= n}}
=============================================================================
