---------------------------- MODULE MCMessaging ----------------------------
(***************************************************************************)
(* Messaging with the definitions its configurations choose from.          *)
(***************************************************************************)
EXTENDS Messaging, SequencesExt

CONSTANTS meet, buffer, events, latest, timeout

\* `meet` is a rendezvous, the others have room for one message.
SmallCapacity == [s \in Sources |-> IF s = meet THEN 0 ELSE 1]

\* Channel.receive, Events.next, and a selection between two subscriptions.
KeepingArms == {<<buffer>>, <<events>>, <<latest, events>>}

\* A selection between two channels, with a timer between them.
SelectArms == {<<meet, timeout, buffer>>}

AllArms == KeepingArms \union SelectArms

\* No call has reached s and nothing has happened to it.
Untouched(s) ==
  /\ phase[s] = "open"
  /\ s \in Subscriptions => sink[s] = "none"
  /\ \A i \in CallIds : call[i].source # s /\ s \notin ToSet(call[i].arms)

(***************************************************************************)
(* Bound: a behaviour is of one of three kinds: waits on one or both of    *)
(* the subscriptions; up to MaxCalls sends and receives of the buffered    *)
(* channel; or selections, which are the only ones to meet failing clocks. *)
(***************************************************************************)
MaxOtherCalls == 3

OnSubscriptions == \A c \in Channels : Untouched(c)
OnBuffer == /\ \A s \in Sources \ {buffer, timeout} : Untouched(s)
            /\ \A i \in CallIds : call[i].arms \notin SelectArms
OnSelections == /\ \A s \in Subscriptions : Untouched(s)
                /\ \A i \in CallIds : call[i].arms \notin KeepingArms

OneKind ==
  \/ OnSubscriptions /\ calls <= MaxOtherCalls /\ faults = 0
  \/ OnBuffer /\ faults = 0
  \/ OnSelections /\ calls <= MaxOtherCalls
=============================================================================
