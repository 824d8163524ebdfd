---------------------------- MODULE MaxAllReduce -----------------------------
(***************************************************************************)
(* What the norm exchange promises to the training loop: an all-reduce.    *)
(* Every worker makes the same sequence of calls, each with a norm of its  *)
(* own; a call returns only after every worker has made it, and it returns *)
(* the largest of their norms to all of them.                              *)
(***************************************************************************)
EXTENDS Integers, Sequences, FiniteSetsExt

CONSTANTS Worker, Norm

VARIABLES
  given,      \* worker -> the norms of its calls so far
  returned    \* worker -> the results of its calls so far

Init ==
  /\ given    = [w \in Worker |-> << >>]
  /\ returned = [w \in Worker |-> << >>]

\* A worker whose last call has returned makes the next one.
Call(w, n) ==
  /\ Len(given[w]) = Len(returned[w])
  /\ given' = [given EXCEPT ![w] = Append(@, n)]
  /\ UNCHANGED returned

\* A call returns when all have made it.
Return(w) ==
  LET c == Len(given[w])
  IN  /\ Len(returned[w]) < c
      /\ \A v \in Worker : Len(given[v]) >= c
      /\ returned' =
           [returned EXCEPT ![w] = Append(@, Max({given[v][c] : v \in Worker}))]
      /\ UNCHANGED given

Next == \E w \in Worker : (\E n \in Norm : Call(w, n)) \/ Return(w)

Spec == Init /\ [][Next]_<<given, returned>>

=============================================================================
