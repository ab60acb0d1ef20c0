------------------------------- MODULE Queue -------------------------------
(***************************************************************************)
(* src/queue.ts: FIFO admission with constant-time removal of cancelled    *)
(* registrations.  A queue is the sequence of its linked entries, oldest   *)
(* first.  The values that this host queues (jobs, workers, senders,       *)
(* receivers) are linked at most once, so an entry is named by its value.  *)
(***************************************************************************)
EXTENDS Naturals, Sequences

\* x is linked in q.
Linked(q, x) == \E i \in 1..Len(q) : q[i] = x

\* No entry is linked twice.
Distinct(q) == \A i, k \in 1..Len(q) : q[i] = q[k] => i = k

Peek(q) == q[1]

Push(q, x) == Append(q, x)

\* The place of the entry of x in q.
PlaceOf(q, x) == CHOOSE i \in 1..Len(q) : q[i] = x

(***************************************************************************)
(* #remove: the neighbours of the entry are linked to each other.  Calling *)
(* an unlink function a second time finds `linked` false and does nothing. *)
(***************************************************************************)
Unlink(q, x) ==
  IF Linked(q, x)
  THEN [i \in 1..(Len(q) - 1) |-> IF i < PlaceOf(q, x) THEN q[i] ELSE q[i + 1]]
  ELSE q

Shift(q) == Unlink(q, Peek(q))
=============================================================================
