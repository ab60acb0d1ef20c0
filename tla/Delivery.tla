------------------------------ MODULE Delivery ------------------------------
(***************************************************************************)
(* What tasks may rely on when they exchange messages, whatever channels,  *)
(* subscriptions and selections do about buffers, blocked senders and      *)
(* registrations: each source is one line; a message joins it at the end,  *)
(* leaves it at the front to exactly one wait, or is lost to everybody;    *)
(* and it goes straight to a wait only past an empty line.                 *)
(*                                                                         *)
(* Messages are numbered as they are sent, so a line is a set of messages  *)
(* and the end of it is beyond all of them.                                *)
(***************************************************************************)
EXTENDS Integers

CONSTANTS Sources,
          Forgetful,  \* the sources that make room by losing old messages
          Messages,   \* numbers
          Waits, Nobody

VARIABLES line,   \* the messages on their way, per source
          fate,   \* of each message
          taker   \* the wait that has it

vars == <<line, fate, taker>>

Init == /\ line = [s \in Sources |-> {}]
        /\ fate = [m \in Messages |-> "new"]
        /\ taker = [m \in Messages |-> Nobody]

Offer(s, m, K) ==
  /\ fate[m] = "new" /\ \A n \in line[s] : n < m
  /\ s \notin Forgetful => K = line[s]
  /\ line' = [line EXCEPT ![s] = K \union {m}]
  /\ fate' = [n \in Messages |-> CASE n = m -> "offered"
                                 [] n # m /\ n \in line[s] \ K -> "lost"
                                 [] OTHER -> fate[n]]
  /\ UNCHANGED taker

Deliver(m, w) ==
  /\ \A n \in Messages : taker[n] # w
  /\ taker' = [taker EXCEPT ![m] = w]
  /\ fate' = [fate EXCEPT ![m] = "taken"]

Take(s, m, w) ==
  /\ m \in line[s] /\ \A n \in line[s] : m <= n
  /\ Deliver(m, w)
  /\ line' = [line EXCEPT ![s] = @ \ {m}]

Pass(s, m, w) ==
  /\ line[s] = {} /\ fate[m] = "new"
  /\ Deliver(m, w)
  /\ UNCHANGED line

\* Cancellation, closing or failure: only K is left on the line, and the
\* messages R never join it.
Lose(s, K, R) ==
  /\ \A m \in R : fate[m] = "new"
  /\ line' = [line EXCEPT ![s] = K]
  /\ fate' = [m \in Messages |-> IF m \in R \union (line[s] \ K)
                                 THEN "lost" ELSE fate[m]]
  /\ UNCHANGED taker

Next ==
  \E s \in Sources :
    \/ \E K \in SUBSET line[s], R \in {{}} \union {{m} : m \in Messages} :
         Lose(s, K, R)
    \/ \E m \in Messages, K \in SUBSET line[s] : Offer(s, m, K)
    \/ \E m \in Messages, w \in Waits : Take(s, m, w) \/ Pass(s, m, w)

Spec == Init /\ [][Next]_vars
=============================================================================
