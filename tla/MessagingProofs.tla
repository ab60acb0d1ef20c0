--------------------------- MODULE MessagingProofs ---------------------------
(***************************************************************************)
(* Proofs about Messaging for every set of sources and arm lists, every    *)
(* capacity and every number of calls and faults.                          *)
(***************************************************************************)
EXTENDS Messaging, SequenceTheorems, FiniteSetTheorems, WellFoundedInduction,
        TLAPS

\* The three kinds of calls, and how far each comes.
CallAgrees(i) ==
  /\ i > calls <=> call[i].status = "unused"
  /\ call[i].status = "unused" => call[i] = Unused
  /\ call[i].kind = "none" => call[i].status = "unused"
  /\ call[i].kind = "send" =>
       /\ call[i].source \in Channels
       /\ call[i].status \in {"blocked", "accepted", "refused", "rejected"}
  /\ call[i].kind = "emit" =>
       /\ call[i].source \in Subscriptions
       /\ call[i].status \in {"accepted", "dropped"}
  /\ call[i].kind = "wait" =>
       /\ call[i].source = NoSource
       /\ call[i].status \in {"pending", "committed", "failing", "received",
                              "rejected"}
  /\ call[i].kind # "wait" => call[i].arms = <<>>
  /\ call[i].got # Nothing =>
       call[i].kind = "wait" /\ call[i].status \in {"committed", "received", "rejected"}

CallsAgree ==
  /\ timer = [i \in CallIds |-> timer[i]]
  /\ \A i \in CallIds : CallAgrees(i)

\* A channel has no sink, a subscription no senders.
SinksAgree ==
  /\ \A c \in Channels : phase[c] # "failed"
  /\ \A s \in Subscriptions :
       /\ phase[s] # "aborted"
       /\ sink[s] = "none" => phase[s] = "open"
       /\ sink[s] = "held" => phase[s] = "open"
       /\ sink[s] = "gone" => phase[s] # "open"

\* What is on its way from s is in order, blocked senders behind the buffer,
\* and has reached nobody.
LinesAgree ==
  \A s \in Sources :
    /\ \A k, l \in 1..Len(messages[s]) : k < l => messages[s][k] < messages[s][l]
    /\ \A m \in Held(s) :
         /\ call[m].source = s /\ call[m].status = "accepted"
         /\ \A i \in senders[s] : m < i
    /\ \A m \in Offered(s), i \in CallIds : call[i].got # m

\* What a wait has got was accepted, is nobody else's, and is older than what
\* is still on its way.
TakenAgree ==
  \A i, m \in CallIds : call[i].got = m =>
    /\ call[m].kind \in {"send", "emit"} /\ call[m].status = "accepted"
    /\ \A k \in CallIds : call[k].got = m => k = i
    /\ \A n \in Offered(call[m].source) : m < n

\* What was accepted is kept.
AcceptedKept ==
  \A m \in CallIds :
    (/\ call[m].status = "accepted"
     /\ phase[call[m].source] \in {"open", "closed"}
     /\ call[m].source \notin Latest)
    => Buffered(m) \/ \E i \in CallIds : call[i].got = m

IInv ==
  /\ WaitsAgree /\ CallsAgree /\ SinksAgree /\ DetachesOnce
  /\ LinesAgree /\ TakenAgree /\ AcceptedKept

-----------------------------------------------------------------------------
(* Calls.                                                                  *)

(* Neither #None nor nothing is a message.                                 *)
LEMMA Numbers ==
  /\ Nothing \notin CallIds /\ Closed \notin CallIds /\ Closed # Nothing
  /\ NoSource \notin Sources /\ MaxCalls \in Nat
  /\ \A i \in CallIds : i \in Nat /\ i >= 1
BY ClosedAssumption, SourceAssumption, BoundAssumption
DEF Nothing, CallIds, NoSource, Sources

(* A call has its type.                                                    *)
LEMMA CallTypes ==
  ASSUME TypeOK, NEW i \in CallIds
  PROVE  /\ call[i] \in Call /\ call[i].status \in Status
         /\ call[i].kind \in {"none", "send", "emit", "wait"}
         /\ call[i].source \in Sources \union {NoSource}
         /\ call[i].arms \in ArmLists \union {<<>>}
         /\ call[i].got \in CallIds \union {Nothing, Closed}
<1>1. call[i] \in Call BY DEF TypeOK
<1> QED BY <1>1 DEF Call

(* The next call is not one of those admitted.                             *)
LEMMA NewUnused ==
  ASSUME IInv, Admit
  PROVE  /\ NewCall \in CallIds /\ call[NewCall] = Unused
         /\ Unused.arms = <<>> /\ Unused.status = "unused" /\ Unused.kind = "none"
         /\ Unused.got = Nothing /\ Unused.source = NoSource
         /\ \A i \in CallIds : /\ call[i].status # "unused" => i < NewCall
                               /\ i > calls' <=> i > calls /\ i # NewCall
<1>1. calls \in Nat /\ calls < MaxCalls /\ MaxCalls \in Nat /\ calls' = calls + 1
  BY BoundAssumption DEF IInv, WaitsAgree, TypeOK, Admit, NewCall
<1>2. NewCall \in CallIds /\ NewCall > calls BY <1>1 DEF NewCall, CallIds
<1>3. \A i \in CallIds : i > calls <=> call[i].status = "unused"
  BY DEF IInv, CallsAgree, CallAgrees
<1>4. call[NewCall] = Unused BY <1>2, <1>3 DEF IInv, CallsAgree, CallAgrees
<1>5. \A i \in CallIds : i \in Nat BY Numbers
<1> QED BY <1>1, <1>2, <1>3, <1>4, <1>5 DEF Unused, NewCall

(* send and emit make a call that waits for nothing.                       *)
LEMMA SentFields ==
  ASSUME NEW s \in Sources, NEW kind \in {"send", "emit"}, NEW status \in Status
  PROVE  /\ Sent(s, kind, status) \in Call
         /\ Sent(s, kind, status).kind = kind
         /\ Sent(s, kind, status).source = s
         /\ Sent(s, kind, status).status = status
         /\ Sent(s, kind, status).arms = <<>>
         /\ Sent(s, kind, status).got = Nothing
<1>1. PICK r : r = Sent(s, kind, status) OBVIOUS
<1>2. r = [kind |-> kind, source |-> s, arms |-> <<>>, status |-> status,
           arm |-> 0, got |-> Nothing]
  BY <1>1 DEF Sent, Unused
<1>3. r \in Call BY <1>2 DEF Call
<1> QED BY <1>1, <1>2, <1>3

(* A wait begins pending at the arms that it was given.                    *)
LEMMA NewWaitFields ==
  ASSUME NEW arms \in ArmLists
  PROVE  /\ NewWait(arms) \in Call
         /\ NewWait(arms).kind = "wait" /\ NewWait(arms).source = NoSource
         /\ NewWait(arms).status = "pending" /\ NewWait(arms).arms = arms
         /\ NewWait(arms).got = Nothing
<1>1. PICK r : r = NewWait(arms) OBVIOUS
<1>2. r = [kind |-> "wait", source |-> NoSource, arms |-> arms,
           status |-> "pending", arm |-> 0, got |-> Nothing]
  BY <1>1 DEF NewWait, Unused
<1>3. r \in Call BY <1>2 DEF Call, Status
<1> QED BY <1>1, <1>2, <1>3

(* Deciding a wait changes its outcome only.                               *)
LEMMA DecidedFields ==
  ASSUME NEW c \in Call, NEW a \in Nat,
         NEW outcome \in CallIds \union {Nothing, Closed}
  PROVE  /\ Committed(c, a, outcome) \in Call
         /\ Committed(c, a, outcome).kind = c.kind
         /\ Committed(c, a, outcome).source = c.source
         /\ Committed(c, a, outcome).arms = c.arms
         /\ Committed(c, a, outcome).status = "committed"
         /\ Committed(c, a, outcome).got = outcome
         /\ Failing(c) \in Call /\ Failing(c).kind = c.kind
         /\ Failing(c).source = c.source /\ Failing(c).arms = c.arms
         /\ Failing(c).status = "failing" /\ Failing(c).got = c.got
<1>1. PICK r : r = Committed(c, a, outcome) OBVIOUS
<1>2. r = [c EXCEPT !.status = "committed", !.arm = a, !.got = outcome]
  BY <1>1 DEF Committed
<1>3. /\ r \in Call /\ r.kind = c.kind /\ r.source = c.source /\ r.arms = c.arms
      /\ r.status = "committed" /\ r.got = outcome
  BY <1>2 DEF Call, Status
<1>4. PICK f : f = Failing(c) OBVIOUS
<1>5. f = [c EXCEPT !.status = "failing"] BY <1>4 DEF Failing
<1>6. /\ f \in Call /\ f.kind = c.kind /\ f.source = c.source /\ f.arms = c.arms
      /\ f.status = "failing" /\ f.got = c.got
  BY <1>5 DEF Call, Status
<1> QED BY <1>1, <1>3, <1>4, <1>6

(* A change of status leaves the rest of a call alone.                     *)
LEMMA StatusFields ==
  ASSUME NEW c \in Call, NEW status \in Status,
         NEW r, r = [c EXCEPT !.status = status]
  PROVE  /\ r \in Call /\ r.kind = c.kind /\ r.source = c.source
         /\ r.arms = c.arms /\ r.status = status /\ r.got = c.got
BY DEF Call

(* Senders that are let go keep everything but their status.               *)
LEMMA FinishFields ==
  ASSUME NEW cs \in [CallIds -> Call], NEW S, NEW status \in Status
  PROVE  /\ Finish(cs, S, status) \in [CallIds -> Call]
         /\ \A i \in CallIds :
              /\ i \notin S => Finish(cs, S, status)[i] = cs[i]
              /\ Finish(cs, S, status)[i].kind = cs[i].kind
              /\ Finish(cs, S, status)[i].source = cs[i].source
              /\ Finish(cs, S, status)[i].arms = cs[i].arms
              /\ Finish(cs, S, status)[i].got = cs[i].got
              /\ i \in S => Finish(cs, S, status)[i].status = status
<1> DEFINE f == Finish(cs, S, status)
<1>1. ASSUME NEW i \in CallIds
      PROVE  /\ f[i] \in Call /\ (i \notin S => f[i] = cs[i])
             /\ f[i].kind = cs[i].kind /\ f[i].source = cs[i].source
             /\ f[i].arms = cs[i].arms /\ f[i].got = cs[i].got
             /\ i \in S => f[i].status = status
  <2>1. CASE i \in S
    <3>1. f[i] = [cs[i] EXCEPT !.status = status] BY <2>1 DEF Finish
    <3> QED BY <2>1, <3>1, StatusFields
  <2>2. CASE i \notin S
    <3>1. f[i] = cs[i] BY <2>2 DEF Finish
    <3> QED BY <2>2, <3>1
  <2> QED BY <2>1, <2>2
<1>2. f = [i \in CallIds |-> f[i]] BY DEF Finish
<1> HIDE DEF f
<1>3. f \in [CallIds -> Call] BY <1>1, <1>2
<1> QED BY <1>1, <1>3 DEF f

-----------------------------------------------------------------------------
(* Queues.                                                                 *)

(* A queue has a head.                                                     *)
LEMMA Least ==
  ASSUME NEW S \in SUBSET Nat, S # {}
  PROVE  \E m \in S : \A k \in S : m <= k
<1>1. PICK R : R = OpToRel(<, Nat) OBVIOUS
<1>2. IsWellFoundedOn(R, Nat) BY <1>1, NatLessThanWellFounded
<1>3. PICK m \in S : \A k \in S : <<k, m>> \notin R BY <1>2, WFMin
<1>4. \A k, l \in Nat : k < l => <<k, l>> \in R BY <1>1 DEF OpToRel
<1>5. \A k \in S : ~(k < m) BY <1>3, <1>4
<1> QED BY <1>5

(* The first of the senders, and of the arms that decide a wait.           *)
LEMMA FirstFacts ==
  ASSUME NEW S \in SUBSET Nat, S # {}
  PROVE  First(S) \in S /\ \A k \in S : First(S) <= k
BY Least DEF First

(* The entries of a queue are those of pending waits.                      *)
LEMMA Entries ==
  ASSUME IInv, NEW s \in Sources
  PROVE  /\ Willing(s) = receivers[s]
         /\ \A e \in receivers[s] :
              /\ e = <<e[1], e[2]>> /\ e[1] \in CallIds /\ e[2] \in Nat
              /\ e[1] \in Nat /\ e[2] \in Arms(e[1])
              /\ Pending(e[1]) /\ call[e[1]].arms[e[2]] = s
         /\ \A i \in senders[s] :
              /\ i \in CallIds /\ i \in Nat /\ call[i].status = "blocked"
              /\ call[i].source = s /\ call[i].kind = "send" /\ s \in Channels
<1> USE DEF IInv, WaitsAgree
<1>1. receivers[s] \in SUBSET (CallIds \X Nat) BY DEF TypeOK
<1>2. ASSUME NEW e \in receivers[s]
      PROVE  /\ e = <<e[1], e[2]>> /\ e[1] \in CallIds /\ e[2] \in Nat
             /\ e[1] \in Nat /\ e[2] \in Arms(e[1])
             /\ Pending(e[1]) /\ call[e[1]].arms[e[2]] = s
  <2>1. e = <<e[1], e[2]>> /\ e[1] \in CallIds /\ e[2] \in Nat
    BY <1>1, <1>2
  <2>2. e[2] \in Arms(e[1]) /\ call[e[1]].arms[e[2]] = s BY <1>2 DEF TypeOK
  <2>3. Pending(e[1]) BY <1>2, <2>1, <2>2 DEF RegistrationsAgree
  <2> QED BY <2>1, <2>2, <2>3, Numbers
<1>3. Willing(s) = receivers[s] BY <1>2 DEF Willing
<1>4. senders[s] \in SUBSET CallIds BY DEF TypeOK
<1>5. ASSUME NEW i \in senders[s]
      PROVE  /\ i \in CallIds /\ i \in Nat /\ call[i].status = "blocked"
             /\ call[i].source = s /\ call[i].kind = "send" /\ s \in Channels
  <2>1. i \in CallIds /\ call[i].status = "blocked" /\ call[i].source = s
    BY <1>4, <1>5 DEF RegistrationsAgree
  <2>2. CallAgrees(i) BY <2>1 DEF CallsAgree
  <2>3. call[i].kind = "send" BY <2>1, <2>2, CallTypes DEF CallAgrees
  <2> QED BY <2>1, <2>2, <2>3, Numbers DEF CallAgrees
<1> QED BY <1>2, <1>3, <1>5

(* shift finds the entry that was registered first.                        *)
LEMMA FirstWillingFacts ==
  ASSUME IInv, NEW s \in Sources, Willing(s) # {}
  PROVE  /\ FirstWilling(s) \in receivers[s]
         /\ \A f \in receivers[s] : f = FirstWilling(s) \/ Before(FirstWilling(s), f)
<1> DEFINE Q == receivers[s]
<1>1. /\ Willing(s) = Q
      /\ \A e \in Q : e = <<e[1], e[2]>> /\ e[1] \in Nat /\ e[2] \in Nat
  BY Entries
<1> DEFINE C == {e[1] : e \in Q}
<1>2. C \in SUBSET Nat /\ C # {} BY <1>1
<1>3. PICK i \in C : \A k \in C : i <= k BY <1>2, Least
<1> DEFINE A == {a \in Nat : <<i, a>> \in Q}
<1>4. A \in SUBSET Nat /\ A # {} BY <1>1
<1>5. PICK a \in A : \A b \in A : a <= b BY <1>4, Least
<1>6. <<i, a>> \in Q /\ i \in Nat /\ a \in Nat BY <1>2, <1>5
<1>7. \A f \in Q : f = <<i, a>> \/ Before(<<i, a>>, f)
  <2> SUFFICES ASSUME NEW f \in Q, f # <<i, a>> PROVE Before(<<i, a>>, f)
    OBVIOUS
  <2>1. f = <<f[1], f[2]>> /\ f[1] \in Nat /\ f[2] \in Nat BY <1>1
  <2>2. i <= f[1] BY <1>3
  <2>3. CASE i = f[1]
    <3>1. f[2] \in A BY <2>1, <2>3
    <3>2. a <= f[2] /\ a # f[2] BY <1>5, <2>1, <2>3, <3>1
    <3> QED BY <1>6, <2>1, <2>3, <3>2 DEF Before
  <2>4. CASE i # f[1] BY <1>6, <2>1, <2>2, <2>4 DEF Before
  <2> QED BY <2>3, <2>4
<1>8. \E e \in Willing(s) : \A f \in Willing(s) : e = f \/ Before(e, f)
  BY <1>1, <1>6, <1>7
<1>9. /\ FirstWilling(s) \in Willing(s)
      /\ \A f \in Willing(s) : FirstWilling(s) = f \/ Before(FirstWilling(s), f)
  BY <1>8 DEF FirstWilling
<1> QED BY <1>1, <1>9

(* A wait at s has an arm there.                                           *)
LEMMA FirstArmFacts ==
  ASSUME IInv, NEW s \in Sources, NEW i \in WaitingAt(s)
  PROVE  FirstArm(i, s) \in Nat /\ i \in CallIds /\ Pending(i)
<1>1. PICK e \in receivers[s] : e[1] = i BY Entries DEF WaitingAt
<1>2. /\ i \in CallIds /\ Pending(i) /\ e[2] \in Arms(i) /\ e = <<i, e[2]>>
  BY <1>1, Entries
<1> DEFINE A == {a \in Arms(i) : <<i, a>> \in receivers[s]}
<1>3. Arms(i) \subseteq Nat BY DEF Arms
<1>4. A \in SUBSET Nat /\ A # {} BY <1>1, <1>2, <1>3
<1>5. PICK a \in A : \A b \in A : a <= b BY <1>4, Least
<1>6. FirstArm(i, s) \in Arms(i) BY <1>5 DEF FirstArm
<1> QED BY <1>2, <1>3, <1>6

(* A source is open to one who waits or is blocked there.                  *)
LEMMA Meeting ==
  ASSUME IInv, NEW s \in Sources
  PROVE  /\ receivers[s] # {} =>
              phase[s] = "open" /\ messages[s] = <<>> /\ senders[s] = {}
         /\ senders[s] # {} =>
              /\ phase[s] = "open" /\ receivers[s] = {}
              /\ Len(messages[s]) = Capacity[s]
         /\ messages[s] \in Seq(CallIds) /\ Len(messages[s]) \in Nat
         /\ Capacity[s] \in Nat
<1> USE DEF IInv, WaitsAgree, NoMissedMeeting
<1>1. messages[s] \in Seq(CallIds) BY DEF TypeOK
<1>2. Len(messages[s]) \in Nat BY <1>1, LenProperties
<1> QED BY <1>1, <1>2, CapacityAssumption

-----------------------------------------------------------------------------
(* Registrations and timers.                                               *)

\* The waits W are decided, and no other call begins or ends to wait.
Decides(W) ==
  /\ W \subseteq CallIds /\ \A i \in W : Pending(i)
  /\ receivers' = Unregister(receivers, W)
  /\ \A i \in CallIds : /\ Pending(i)' <=> Pending(i) /\ i \notin W
                        /\ Pending(i)' => call'[i].arms = call[i].arms

ReceiversAgree ==
  /\ receivers \in [Sources -> SUBSET (CallIds \X Nat)]
  /\ \A s \in Sources : \A e \in receivers[s] :
       e[2] \in Arms(e[1]) /\ call[e[1]].arms[e[2]] = s
  /\ \A i \in CallIds, s \in Sources : \A a \in Arms(i) :
       <<i, a>> \in receivers[s] <=> Pending(i) /\ call[i].arms[a] = s

(* detach unlinks every entry of the waits that are decided, and no other. *)
LEMMA RegistrationsStay ==
  ASSUME IInv, NEW W, Decides(W)
  PROVE  ReceiversAgree'
<1> USE DEF IInv, WaitsAgree
<1>1. receivers \in [Sources -> SUBSET (CallIds \X Nat)] BY DEF TypeOK
<1>2. \A s \in Sources : receivers'[s] = {e \in receivers[s] : e[1] \notin W}
  BY DEF Decides, Unregister
<1>3. receivers' \in [Sources -> SUBSET (CallIds \X Nat)]
  BY <1>1, <1>2 DEF Decides, Unregister
<1>4. ASSUME NEW s \in Sources, NEW e \in receivers'[s]
      PROVE  e[2] \in Arms(e[1])' /\ call'[e[1]].arms[e[2]] = s
  <2>1. e \in receivers[s] /\ e[1] \notin W BY <1>2, <1>4
  <2>2. /\ e[1] \in CallIds /\ e[2] \in Arms(e[1]) /\ Pending(e[1])
        /\ call[e[1]].arms[e[2]] = s
    BY <2>1, Entries
  <2>3. call'[e[1]].arms = call[e[1]].arms BY <2>1, <2>2 DEF Decides
  <2> QED BY <2>2, <2>3 DEF Arms
<1>5. ASSUME NEW i \in CallIds, NEW s \in Sources, NEW a \in Arms(i)'
      PROVE  <<i, a>> \in receivers'[s] <=> Pending(i)' /\ call'[i].arms[a] = s
  <2>1. CASE Pending(i)'
    <3>1. call'[i].arms = call[i].arms /\ Pending(i) /\ i \notin W
      BY <2>1 DEF Decides
    <3>2. a \in Arms(i) BY <3>1 DEF Arms
    <3>3. <<i, a>> \in receivers[s] <=> call[i].arms[a] = s
      BY <3>1, <3>2 DEF RegistrationsAgree
    <3> QED BY <1>2, <2>1, <3>1, <3>3
  <2>2. CASE ~Pending(i)'
    <3>1. i \in W \/ ~Pending(i) BY <2>2 DEF Decides
    <3>2. <<i, a>> \in receivers[s] => Pending(i)
      <4> SUFFICES ASSUME <<i, a>> \in receivers[s] PROVE Pending(i) OBVIOUS
      <4>1. PICK e \in receivers[s] : e = <<i, a>> OBVIOUS
      <4>2. Pending(e[1]) BY Entries
      <4> QED BY <4>1, <4>2
    <3> QED BY <1>2, <2>2, <3>1, <3>2
  <2> QED BY <2>1, <2>2
<1> QED BY <1>3, <1>4, <1>5 DEF ReceiversAgree

(* A wait that is registered is in the queue of each of its arms.          *)
LEMMA RegistrationsGrow ==
  ASSUME IInv, Admit, NEW arms \in ArmLists, Register(arms)
  PROVE  ReceiversAgree'
<1> USE DEF IInv, WaitsAgree
<1>1. PICK n \in CallIds : n = NewCall BY NewUnused
<1>2. arms \in Seq(Sources \union {Timer}) BY ArmAssumption
<1>3. /\ call' = [call EXCEPT ![n] = NewWait(arms)]
      /\ \A s \in Sources : receivers'[s] =
           receivers[s] \union {<<n, a>> : a \in ArmsAt(arms, s)}
      /\ call \in [CallIds -> Call]
  BY <1>1 DEF Register, TypeOK
<1>4. /\ call'[n].arms = arms /\ call'[n].status = "pending"
      /\ \A i \in CallIds : i # n => call'[i] = call[i]
  BY <1>3, NewWaitFields
<1>5. receivers \in [Sources -> SUBSET (CallIds \X Nat)] BY DEF TypeOK
<1>6. \A s \in Sources : ArmsAt(arms, s) \subseteq 1..Len(arms)
  BY DEF ArmsAt
<1>7. receivers' \in [Sources -> SUBSET (CallIds \X Nat)]
  <2>1. \A s \in Sources : receivers'[s] \in SUBSET (CallIds \X Nat)
    BY <1>3, <1>5, <1>6
  <2>2. receivers' = [s \in Sources |-> receivers'[s]] BY DEF Register
  <2> QED BY <2>1, <2>2
<1>8. ~Pending(n) BY <1>1, NewUnused DEF Pending
<1>9. ASSUME NEW s \in Sources, NEW e \in receivers'[s]
      PROVE  e[2] \in Arms(e[1])' /\ call'[e[1]].arms[e[2]] = s
  <2>1. CASE e \in receivers[s]
    <3>1. /\ e[1] \in CallIds /\ e[2] \in Arms(e[1]) /\ Pending(e[1])
          /\ call[e[1]].arms[e[2]] = s
      BY <2>1, Entries
    <3> QED BY <1>4, <1>8, <3>1 DEF Arms
  <2>2. CASE e \notin receivers[s]
    <3>1. PICK a \in ArmsAt(arms, s) : e = <<n, a>> BY <1>3, <1>9, <2>2
    <3> QED BY <1>4, <3>1 DEF Arms, ArmsAt
  <2> QED BY <2>1, <2>2
<1>10. ASSUME NEW i \in CallIds, NEW s \in Sources, NEW a \in Arms(i)'
       PROVE  <<i, a>> \in receivers'[s] <=> Pending(i)' /\ call'[i].arms[a] = s
  <2>1. CASE i = n
    <3>1. a \in 1..Len(arms) BY <1>4, <2>1 DEF Arms
    <3>2. <<i, a>> \notin receivers[s]
      <4> SUFFICES ASSUME <<i, a>> \in receivers[s] PROVE FALSE OBVIOUS
      <4>1. PICK e \in receivers[s] : e = <<i, a>> OBVIOUS
      <4>2. Pending(e[1]) BY Entries
      <4> QED BY <1>8, <2>1, <4>1, <4>2
    <3>3. <<i, a>> \in receivers'[s] <=> a \in ArmsAt(arms, s)
      BY <1>3, <2>1, <3>2
    <3> QED BY <1>4, <2>1, <3>1, <3>3 DEF ArmsAt, Pending
  <2>2. CASE i # n
    <3>1. call'[i] = call[i] /\ a \in Arms(i) BY <1>4, <2>2 DEF Arms
    <3>2. <<i, a>> \in receivers'[s] <=> <<i, a>> \in receivers[s]
      BY <1>3, <2>2
    <3> QED BY <3>1, <3>2 DEF RegistrationsAgree, Pending
  <2> QED BY <2>1, <2>2
<1> QED BY <1>7, <1>9, <1>10 DEF ReceiversAgree

TimerState == {"off", "sleeping", "aborted", "drained"}

TimerAgrees(i) ==
  /\ timer[i] \in [TimerArms(call[i].arms) -> TimerState]
  /\ \A a \in DOMAIN timer[i] :
       /\ timer[i][a] = "sleeping" => Pending(i)
       /\ timer[i][a] = "aborted" => call[i].status \in {"committed", "failing"}

(* The timers of a call whose waiting goes on, or was over already.        *)
LEMMA TimersStay ==
  ASSUME IInv, NEW i \in CallIds, timer'[i] = timer[i],
         call'[i].arms = call[i].arms,
         Pending(i) => Pending(i)',
         call[i].status \in {"committed", "failing"} =>
           call'[i].status \in {"committed", "failing"}
  PROVE  TimerAgrees(i)'
BY DEF IInv, WaitsAgree, TypeOK, RegistrationsAgree, TimerAgrees, TimerState

(* A wait that is decided stops its timers, but for one that decides it.   *)
LEMMA TimersStop ==
  ASSUME IInv, NEW i \in CallIds, call'[i].arms = call[i].arms,
         call'[i].status \in {"committed", "failing"},
         \E a : timer'[i] \in {StopTimers(timer[i]),
                               [StopTimers(timer[i]) EXCEPT ![a] = "drained"]}
  PROVE  TimerAgrees(i)'
<1> DEFINE A == TimerArms(call[i].arms)
<1>1. timer[i] \in [A -> TimerState]
  BY DEF IInv, WaitsAgree, TypeOK, TimerState
<1>2. PICK t : t = StopTimers(timer[i]) OBVIOUS
<1>3. t = [b \in A |-> IF timer[i][b] = "sleeping" THEN "aborted" ELSE timer[i][b]]
  BY <1>1, <1>2 DEF StopTimers
<1>4. t \in [A -> TimerState] /\ \A b \in A : t[b] # "sleeping"
  BY <1>1, <1>3 DEF TimerState
<1>5. PICK a : timer'[i] \in {t, [t EXCEPT ![a] = "drained"]} BY <1>2
<1>6. timer'[i] \in [A -> TimerState] /\ \A b \in A : timer'[i][b] # "sleeping"
  BY <1>4, <1>5 DEF TimerState
<1> QED BY <1>6 DEF TimerAgrees

(* The timers of a selection, as its admission leaves them.                *)
LEMMA TimersStart ==
  ASSUME NEW i \in CallIds, NEW arms, NEW d, NEW state \in {"sleeping", "aborted"},
         call'[i].arms = arms, timer'[i] = Started(arms, d, state),
         state = "sleeping" => Pending(i)',
         state = "aborted" => call'[i].status \in {"committed", "failing"}
  PROVE  TimerAgrees(i)'
<1>1. PICK t : t = Started(arms, d, state) OBVIOUS
<1>2. t = [a \in TimerArms(arms) |-> IF a < d THEN state ELSE "off"]
  BY <1>1 DEF Started
<1>3. t \in [TimerArms(arms) -> TimerState]
      /\ \A a \in TimerArms(arms) : t[a] \in {state, "off"}
  BY <1>2 DEF TimerState
<1> QED BY <1>1, <1>3 DEF TimerAgrees

-----------------------------------------------------------------------------
(* How calls go on.                                                        *)

\* What a step may make of a call that was admitted earlier.
Moves(i) ==
  \/ call'[i] = call[i]
  \/ /\ call'[i] \in Call /\ call'[i].kind = call[i].kind
     /\ call'[i].source = call[i].source /\ call'[i].arms = call[i].arms
     /\ \/ Pending(i) /\ call'[i].status = "committed"
        \/ /\ Pending(i) /\ call'[i].status = "failing"
           /\ call'[i].got = call[i].got
        \/ /\ call[i].status = "blocked"
           /\ call'[i].status \in {"accepted", "refused", "rejected"}
           /\ call'[i].got = call[i].got
        \/ /\ call[i].status \in {"committed", "failing"}
           /\ call'[i].status \in {"received", "rejected"}
           /\ call'[i].got = call[i].got

\* What the admission of call i may make of it.
Sends(i) ==
  /\ call'[i] \in Call /\ call'[i].arms = <<>> /\ call'[i].got = Nothing
  /\ \/ /\ call'[i].kind = "send" /\ call'[i].source \in Channels
        /\ call'[i].status \in {"blocked", "accepted", "refused", "rejected"}
     \/ /\ call'[i].kind = "emit" /\ call'[i].source \in Subscriptions
        /\ call'[i].status \in {"accepted", "dropped"}

Waits(i) ==
  /\ call'[i] \in Call /\ call'[i].kind = "wait" /\ call'[i].source = NoSource
  /\ call'[i].status \in {"pending", "committed", "failing"}
  /\ call'[i].got # Nothing => call'[i].status = "committed"

CallsMove ==
  /\ call' = [i \in CallIds |-> call'[i]]
  /\ \/ calls' = calls /\ \A i \in CallIds : Moves(i)
     \/ /\ Admit /\ (Sends(NewCall) \/ Waits(NewCall))
        /\ \A i \in CallIds : i # NewCall => Moves(i)

CallsTyped == calls \in 0..MaxCalls /\ call \in [CallIds -> Call]

(* A call keeps to the life of its kind: nobody decides one twice.         *)
LEMMA CallsKept ==
  ASSUME IInv, CallsMove
  PROVE  CallsTyped' /\ \A i \in CallIds : CallAgrees(i)'
<1> USE DEF IInv, WaitsAgree
<1>1. calls \in 0..MaxCalls /\ MaxCalls \in Nat
  BY BoundAssumption DEF TypeOK
<1>2. calls' \in 0..MaxCalls BY <1>1 DEF CallsMove, Admit, NewCall
<1>3. ASSUME NEW i \in CallIds, Moves(i), i > calls' <=> i > calls
      PROVE  call'[i] \in Call /\ CallAgrees(i)'
  <2>1. CallAgrees(i) /\ call[i] \in Call BY DEF CallsAgree, TypeOK
  <2>2. CASE call'[i] = call[i] BY <1>3, <2>1, <2>2 DEF CallAgrees
  <2>3. CASE call'[i] # call[i]
    <3>1. /\ call'[i] \in Call /\ call'[i].kind = call[i].kind
          /\ call'[i].source = call[i].source /\ call'[i].arms = call[i].arms
      BY <1>3, <2>3 DEF Moves
    <3>2. call[i].kind \in {"none", "send", "emit", "wait"} BY CallTypes
    <3>3. ~(i > calls) /\ call[i].status # "unused" /\ call[i].kind # "none"
      BY <1>3, <2>1, <2>3 DEF Moves, CallAgrees, Pending
    <3>4. CASE call[i].kind = "wait"
      <4>1. /\ call'[i].status \in {"committed", "failing", "received", "rejected"}
            /\ call'[i].got # Nothing =>
                 call'[i].status \in {"committed", "received", "rejected"}
        BY <1>3, <2>1, <2>3, <3>4 DEF Moves, CallAgrees, Pending
      <4> QED BY <1>3, <2>1, <3>1, <3>3, <3>4, <4>1 DEF CallAgrees
    <3>5. CASE call[i].kind \in {"send", "emit"}
      <4>1. /\ call[i].kind = "send" /\ call'[i].got = Nothing
            /\ call'[i].status \in {"accepted", "refused", "rejected"}
        BY <1>3, <2>1, <2>3, <3>5 DEF Moves, CallAgrees, Pending
      <4> QED BY <1>3, <2>1, <3>1, <3>3, <3>5, <4>1 DEF CallAgrees
    <3> QED BY <3>2, <3>3, <3>4, <3>5
  <2> QED BY <2>2, <2>3
<1>4. CASE calls' = calls /\ \A i \in CallIds : Moves(i)
  <2>1. \A i \in CallIds : call'[i] \in Call /\ CallAgrees(i)' BY <1>3, <1>4
  <2> QED BY <1>2, <2>1 DEF CallsMove, CallsTyped
<1>5. CASE /\ Admit /\ (Sends(NewCall) \/ Waits(NewCall))
           /\ \A i \in CallIds : i # NewCall => Moves(i)
  <2>1. /\ NewCall \in CallIds /\ calls' = NewCall /\ NewCall \in Nat
        /\ \A i \in CallIds : i > calls' <=> i > calls /\ i # NewCall
    BY <1>5, NewUnused, Numbers DEF Admit
  <2>2. \A i \in CallIds : i # NewCall => call'[i] \in Call /\ CallAgrees(i)'
    BY <1>3, <1>5, <2>1
  <2>3. call'[NewCall] \in Call /\ call'[NewCall].status # "unused"
        /\ ~(NewCall > calls')
    BY <1>5, <2>1 DEF Sends, Waits
  <2>4. PICK n \in CallIds : n = NewCall BY <2>1
  <2>5. CASE Sends(n)
    <3>1. CallAgrees(n)' BY <2>3, <2>4, <2>5 DEF Sends, CallAgrees
    <3> QED BY <2>2, <2>3, <2>4, <3>1, <1>2 DEF CallsMove, CallsTyped
  <2>6. CASE Waits(n)
    <3>1. CallAgrees(n)' BY <2>3, <2>4, <2>6 DEF Waits, CallAgrees
    <3> QED BY <2>2, <2>3, <2>4, <3>1, <1>2 DEF CallsMove, CallsTyped
  <2> QED BY <1>5, <2>4, <2>5, <2>6
<1> QED BY <1>4, <1>5 DEF CallsMove

(* What was accepted or has got a message stays so.                        *)
LEMMA MovesKeep ==
  ASSUME IInv, NEW i \in CallIds, Moves(i)
  PROVE  /\ call'[i].kind = call[i].kind /\ call'[i].source = call[i].source
         /\ call'[i].arms = call[i].arms
         /\ call[i].status = "accepted" => call'[i] = call[i]
         /\ call[i].status = "unused" => call'[i] = call[i]
         /\ call[i].got # Nothing => call'[i].got = call[i].got
         /\ call'[i].status = "accepted" => call[i].status \in {"accepted", "blocked"}
         /\ call'[i].got # call[i].got => Pending(i) /\ call'[i].status = "committed"
         /\ call[i].status \in {"committed", "failing"} =>
              call'[i] = call[i] \/ call'[i].status \in {"received", "rejected"}
         /\ Pending(i)' => Pending(i)
         /\ call'[i].status = "blocked" => call[i].status = "blocked"
<1>1. CallAgrees(i) BY DEF IInv, CallsAgree
<1>2. call[i].got # Nothing => call[i].status # "pending"
  BY <1>1 DEF CallAgrees
<1>3. CASE call'[i] = call[i] BY <1>3 DEF Pending
<1>4. CASE call'[i] # call[i] BY <1>2, <1>4 DEF Moves, Pending
<1> QED BY <1>3, <1>4

-----------------------------------------------------------------------------
(* Decisions.                                                              *)

WaitersAgree ==
  /\ ReceiversAgree
  /\ timer = [i \in CallIds |-> timer[i]]
  /\ \A i \in CallIds : TimerAgrees(i)

\* A step that decides the waits W, and may let senders go or admit one.
Decision(W) ==
  /\ CallsMove
  /\ \A i \in W : i \in CallIds /\ Pending(i)
                  /\ call'[i].status \in {"committed", "failing"}
  /\ \A i \in CallIds : i \notin W =>
       \/ call'[i] = call[i]
       \/ call[i].status = "blocked"
       \/ i = NewCall /\ Admit /\ Sends(i)
  /\ receivers' = Unregister(receivers, W)

(* A decision ends the waits that it decides, and no other.                *)
LEMMA DecisionDecides ==
  ASSUME IInv, NEW W, Decision(W)
  PROVE  /\ Decides(W)
         /\ \A i \in CallIds : call'[i].arms = call[i].arms
         /\ \A i \in CallIds :
              i \notin W /\ call[i].status \in {"committed", "failing"}
              => call'[i] = call[i]
         /\ \A i \in CallIds : Moves(i) \/ (i = NewCall /\ Admit /\ Sends(i))
<1>1. ASSUME NEW i \in CallIds, i \in W
      PROVE  /\ ~Pending(i)' /\ call'[i].arms = call[i].arms /\ Moves(i)
             /\ Pending(i)
  <2>1. Pending(i) /\ ~Pending(i)' BY <1>1 DEF Decision, Pending
  <2>2. CASE Moves(i) BY <2>1, <2>2, MovesKeep
  <2>3. CASE ~Moves(i)
    <3>1. Admit /\ i = NewCall BY <2>3 DEF Decision, CallsMove
    <3> QED BY <2>1, <3>1, NewUnused DEF Pending
  <2> QED BY <2>2, <2>3
<1>2. ASSUME NEW i \in CallIds, i \notin W
      PROVE  /\ Pending(i)' <=> Pending(i)
             /\ call'[i].arms = call[i].arms
             /\ call[i].status \in {"committed", "failing"} => call'[i] = call[i]
             /\ Moves(i) \/ (i = NewCall /\ Admit /\ Sends(i))
  <2>1. CASE call'[i] = call[i] BY <2>1 DEF Pending, Moves
  <2>2. CASE i = NewCall /\ Admit /\ Sends(i)
    <3>1. call[i].status = "unused" /\ call[i].arms = <<>> BY <2>2, NewUnused
    <3>2. call'[i].arms = <<>> /\ ~Pending(i)' BY <2>2 DEF Sends, Pending
    <3> QED BY <2>2, <3>1, <3>2 DEF Pending
  <2>3. CASE call[i].status = "blocked" /\ call'[i] # call[i]
    <3>1. Moves(i)
      <4>1. CASE Admit
        <5>1. i # NewCall BY <2>3, <4>1, NewUnused
        <5>2. \/ Moves(i) \/ calls' = calls BY <5>1 DEF Decision, CallsMove
        <5>3. calls' # calls
          BY <4>1, BoundAssumption DEF Admit, NewCall, IInv, WaitsAgree, TypeOK
        <5> QED BY <5>1, <5>2, <5>3
      <4>2. CASE ~Admit BY <4>2 DEF Decision, CallsMove
      <4> QED BY <4>1, <4>2
    <3>2. call'[i].arms = call[i].arms /\ (Pending(i)' => Pending(i))
      BY <3>1, MovesKeep
    <3> QED BY <2>3, <3>1, <3>2 DEF Pending
  <2> QED BY <1>2, <2>1, <2>2, <2>3 DEF Decision
<1>3. W \subseteq CallIds BY DEF Decision
<1>4. Decides(W) BY <1>1, <1>2, <1>3 DEF Decision, Decides
<1> QED BY <1>1, <1>2, <1>4

(* detach: timers are told to stop, and none of a pending wait is.         *)
LEMMA DecisionTimers ==
  ASSUME IInv, NEW W, Decision(W),
         timer' = [i \in CallIds |-> timer'[i]],
         \A i \in CallIds : i \notin W => timer'[i] = timer[i],
         \A i \in W : \E a :
           timer'[i] \in {StopTimers(timer[i]),
                          [StopTimers(timer[i]) EXCEPT ![a] = "drained"]}
  PROVE  WaitersAgree'
<1>1. ReceiversAgree' BY DecisionDecides, RegistrationsStay
<1>2. ASSUME NEW i \in CallIds PROVE TimerAgrees(i)'
  <2>1. call'[i].arms = call[i].arms BY DecisionDecides
  <2>2. CASE i \in W
    <3>1. call'[i].status \in {"committed", "failing"} BY <2>2 DEF Decision
    <3> QED BY <2>1, <2>2, <3>1, TimersStop
  <2>3. CASE i \notin W
    <3>1. /\ Pending(i) => Pending(i)'
          /\ call[i].status \in {"committed", "failing"} =>
               call'[i].status \in {"committed", "failing"}
      BY <2>3, DecisionDecides DEF Decides
    <3> QED BY <2>1, <2>3, <3>1, TimersStay
  <2> QED BY <2>2, <2>3
<1> QED BY <1>1, <1>2 DEF WaitersAgree

(* detach, when no timer has run out.                                      *)
LEMMA DecisionStops ==
  ASSUME IInv, NEW W, Decision(W), timer' = Stop(W)
  PROVE  WaitersAgree'
<1>1. timer' = [i \in CallIds |-> timer'[i]] BY DEF Stop
<1>2. \A i \in CallIds : i \notin W => timer'[i] = timer[i] BY DEF Stop
<1>3. W \subseteq CallIds BY DEF Decision
<1>4. \A i \in W : timer'[i] = StopTimers(timer[i]) BY <1>3 DEF Stop
<1> QED BY <1>1, <1>2, <1>4, DecisionTimers

(* Nobody is decided: queues and timers are as they were.                  *)
LEMMA NobodyDecided ==
  ASSUME IInv
  PROVE  Unregister(receivers, {}) = receivers /\ Stop({}) = timer
<1>1. receivers = [s \in Sources |-> receivers[s]]
  BY DEF IInv, WaitsAgree, TypeOK
<1>2. timer = [i \in CallIds |-> timer[i]] BY DEF IInv, CallsAgree
<1>3. Unregister(receivers, {}) = [s \in Sources |-> receivers[s]]
  BY DEF Unregister
<1>4. Stop({}) = [i \in CallIds |-> timer[i]] BY DEF Stop
<1> QED BY <1>1, <1>2, <1>3, <1>4

-----------------------------------------------------------------------------
(* Senders and meetings.                                                   *)

SendersAgree ==
  /\ senders \in [Sources -> SUBSET CallIds]
  /\ \A i \in CallIds, s \in Sources :
       i \in senders[s] <=> call[i].status = "blocked" /\ call[i].source = s

(* A sender that is let go leaves the queue, whoever lets it go.           *)
LEMMA SendersLeave ==
  ASSUME IInv, CallsMove, NEW S,
         senders' = [s \in Sources |-> senders[s] \ S],
         \A i \in CallIds :
           call'[i].status = "blocked" <=> call[i].status = "blocked" /\ i \notin S
  PROVE  SendersAgree'
<1>1. SendersAgree
  BY DEF IInv, WaitsAgree, TypeOK, RegistrationsAgree, SendersAgree
<1>2. senders' \in [Sources -> SUBSET CallIds]
  <2>1. \A s \in Sources : senders[s] \in SUBSET CallIds BY <1>1 DEF SendersAgree
  <2> QED BY <2>1
<1>3. ASSUME NEW i \in CallIds, call[i].status = "blocked"
      PROVE  call'[i].source = call[i].source
  <2>1. CASE Moves(i) BY <2>1, MovesKeep
  <2>2. CASE ~Moves(i)
    <3>1. Admit /\ i = NewCall BY <2>2 DEF CallsMove
    <3> QED BY <1>3, <3>1, NewUnused
  <2> QED BY <2>1, <2>2
<1>4. ASSUME NEW i \in CallIds, NEW s \in Sources
      PROVE  i \in senders'[s] <=> call'[i].status = "blocked" /\ call'[i].source = s
  <2>1. i \in senders'[s] <=> i \in senders[s] /\ i \notin S OBVIOUS
  <2>2. i \in senders[s] <=> call[i].status = "blocked" /\ call[i].source = s
    BY <1>1 DEF SendersAgree
  <2> QED BY <1>3, <2>1, <2>2
<1> QED BY <1>2, <1>4 DEF SendersAgree

(* Nobody is let go.                                                       *)
LEMMA SendersStay ==
  ASSUME IInv, CallsMove, senders' = senders,
         \A i \in CallIds :
           call'[i].status = "blocked" <=> call[i].status = "blocked"
  PROVE  SendersAgree'
<1>1. PICK S : S = {} OBVIOUS
<1>2. senders = [s \in Sources |-> senders[s] \ S]
  BY <1>1 DEF IInv, WaitsAgree, TypeOK
<1>3. \A i \in CallIds :
        call'[i].status = "blocked" <=> call[i].status = "blocked" /\ i \notin S
  BY <1>1
<1>4. senders' = [s \in Sources |-> senders[s] \ S] BY <1>2
<1> QED BY <1>3, <1>4, SendersLeave

SourcesAgree == messages \in [Sources -> Seq(CallIds)] /\ NoMissedMeeting

(* Who leaves a queue or ends a source keeps no two from meeting.          *)
LEMMA MeetingsStay ==
  ASSUME IInv, messages' = [s \in Sources |-> messages'[s]],
         \A s \in Sources :
           /\ senders'[s] \subseteq senders[s] /\ receivers'[s] \subseteq receivers[s]
           /\ \/ phase'[s] = phase[s] /\ messages'[s] = messages[s]
              \/ /\ senders'[s] = {} /\ receivers'[s] = {}
                 /\ messages'[s] \in {messages[s], <<>>}
                 /\ phase'[s] \notin {"open", "closed"} => messages'[s] = <<>>
  PROVE  SourcesAgree'
<1>1. \A s \in Sources : messages[s] \in Seq(CallIds)
  BY DEF IInv, WaitsAgree, TypeOK
<1>2. <<>> \in Seq(CallIds) /\ Len(<<>>) = 0 OBVIOUS
<1>3. \A s \in Sources : messages'[s] \in {messages[s], <<>>} OBVIOUS
<1>4. messages' \in [Sources -> Seq(CallIds)] BY <1>1, <1>2, <1>3
<1>5. \A s \in Sources : Capacity[s] >= 0 BY CapacityAssumption
<1>6. NoMissedMeeting BY DEF IInv, WaitsAgree
<1>7. ASSUME NEW s \in Sources
      PROVE  /\ senders'[s] # {} =>
                  /\ phase'[s] = "open" /\ receivers'[s] = {}
                  /\ Len(messages'[s]) = Capacity[s]
             /\ receivers'[s] # {} => phase'[s] = "open" /\ messages'[s] = <<>>
             /\ s \in Channels => Len(messages'[s]) <= Capacity[s]
             /\ phase'[s] \notin {"open", "closed"} => messages'[s] = <<>>
  <2>1. CASE phase'[s] = phase[s] /\ messages'[s] = messages[s]
    BY <1>6, <2>1 DEF NoMissedMeeting
  <2>2. CASE ~(phase'[s] = phase[s] /\ messages'[s] = messages[s])
    <3>1. s \in Channels => Len(messages[s]) <= Capacity[s]
      BY <1>6 DEF NoMissedMeeting
    <3> QED BY <1>2, <1>5, <2>2, <3>1
  <2> QED BY <2>1, <2>2
<1> QED BY <1>4, <1>7 DEF SourcesAgree, NoMissedMeeting

-----------------------------------------------------------------------------
(* Lines.                                                                  *)

FatesAgree == LinesAgree /\ TakenAgree /\ AcceptedKept

(* What is on its way is a message, and its number says where it stands.   *)
LEMMA OfferedFacts ==
  ASSUME IInv, NEW s \in Sources
  PROVE  /\ Held(s) \subseteq CallIds /\ Offered(s) \subseteq CallIds
         /\ Offered(s) \subseteq Nat
         /\ \A m \in Offered(s) :
              /\ call[m].source = s /\ call[m].status \in {"accepted", "blocked"}
              /\ call[m].kind \in {"send", "emit"}
         /\ \A m \in Held(s) : call[m].status = "accepted"
                               /\ \A i \in senders[s] : m < i
<1>1. Held(s) \subseteq CallIds
  <2>1. messages[s] \in Seq(CallIds) BY Meeting
  <2>2. \A k \in 1..Len(messages[s]) : messages[s][k] \in CallIds
    BY <2>1, ElementOfSeq
  <2> QED BY <2>2 DEF Held
<1>2. senders[s] \subseteq CallIds BY DEF IInv, WaitsAgree, TypeOK
<1>3. \A m \in Held(s) : /\ call[m].source = s /\ call[m].status = "accepted"
                         /\ \A i \in senders[s] : m < i
  BY DEF IInv, LinesAgree
<1>4. \A m \in senders[s] : call[m].source = s /\ call[m].status = "blocked"
  BY Entries
<1>5. \A m \in CallIds : call[m].status \in {"accepted", "blocked"} =>
                           call[m].kind \in {"send", "emit"}
  <2> SUFFICES ASSUME NEW m \in CallIds,
                      call[m].status \in {"accepted", "blocked"}
               PROVE  call[m].kind \in {"send", "emit"}
    OBVIOUS
  <2>1. CallAgrees(m) /\ call[m].kind \in {"none", "send", "emit", "wait"}
    BY CallTypes DEF IInv, WaitsAgree, CallsAgree
  <2> QED BY <2>1 DEF CallAgrees
<1>6. CallIds \subseteq Nat BY Numbers
<1> QED BY <1>1, <1>2, <1>3, <1>4, <1>5, <1>6 DEF Offered

(* What a step leaves alone of the fates.                                  *)
LEMMA FatesFrame ==
  ASSUME IInv, CallsMove
  PROVE  /\ \A i \in CallIds : call[i].status = "accepted" => call'[i] = call[i]
         /\ \A i \in CallIds : call[i].got # Nothing => call'[i].got = call[i].got
         /\ \A i \in CallIds : call'[i].status = "accepted" =>
              \/ call[i].status \in {"accepted", "blocked"}
              \/ Admit /\ i = NewCall
         /\ \A i \in CallIds : call[i].status # "unused" =>
              call'[i].source = call[i].source /\ call'[i].kind = call[i].kind
<1> SUFFICES ASSUME NEW i \in CallIds
             PROVE  /\ call[i].status = "accepted" => call'[i] = call[i]
                    /\ call[i].got # Nothing => call'[i].got = call[i].got
                    /\ call'[i].status = "accepted" =>
                         \/ call[i].status \in {"accepted", "blocked"}
                         \/ Admit /\ i = NewCall
                    /\ call[i].status # "unused" =>
                         call'[i].source = call[i].source /\ call'[i].kind = call[i].kind
  OBVIOUS
<1>1. CASE Moves(i) BY <1>1, MovesKeep
<1>2. CASE ~Moves(i)
  <2>1. Admit /\ i = NewCall BY <1>2 DEF CallsMove
  <2>2. call[i].status = "unused" /\ call[i].got = Nothing BY <2>1, NewUnused
  <2> QED BY <2>1, <2>2
<1> QED BY <1>1, <1>2

(* Nobody gets anything, and what joins a line is the newest message.      *)
LEMMA TakenStays ==
  ASSUME IInv, CallsMove,
         \A i \in CallIds : call'[i].got = call[i].got \/ call'[i].got \notin CallIds,
         \A s \in Sources : \A m \in Offered(s)' :
           m \in Offered(s) \/ (Admit /\ m = NewCall)
  PROVE  TakenAgree'
<1> SUFFICES ASSUME NEW i \in CallIds, NEW m \in CallIds, call'[i].got = m
             PROVE  /\ call'[m].kind \in {"send", "emit"}
                    /\ call'[m].status = "accepted"
                    /\ \A k \in CallIds : call'[k].got = m => k = i
                    /\ \A n \in Offered(call[m].source)' : m < n
  BY DEF TakenAgree
<1>1. call[i].got = m OBVIOUS
<1>2. /\ call[m].kind \in {"send", "emit"} /\ call[m].status = "accepted"
      /\ \A k \in CallIds : call[k].got = m => k = i
      /\ \A n \in Offered(call[m].source) : m < n
  BY <1>1 DEF IInv, TakenAgree
<1>3. call'[m] = call[m] BY <1>2, FatesFrame
<1>4. \A k \in CallIds : call'[k].got = m => k = i BY <1>2
<1>5. PICK s \in Sources : s = call[m].source
  BY <1>2 DEF IInv, CallsAgree, CallAgrees, Sources
<1>6. Offered(call[m].source)' = Offered(s)' BY <1>3, <1>5
<1>7. Admit => m < NewCall BY <1>2, NewUnused
<1>8. \A n \in Offered(s)' : m < n BY <1>2, <1>5, <1>7
<1> QED BY <1>2, <1>3, <1>4, <1>6, <1>8

(* What is kept stays in the buffer or reaches a wait.                     *)
LEMMA AcceptedStays ==
  ASSUME IInv, CallsMove,
         \A s \in Sources : phase'[s] \in {"open", "closed"} =>
                            phase[s] \in {"open", "closed"},
         \A s \in Sources :
           (phase'[s] \in {"open", "closed"} /\ s \notin Latest) =>
             \A m \in Held(s) : m \in Held(s)' \/ \E i \in CallIds : call'[i].got = m,
         \A m \in CallIds :
           (call'[m].status = "accepted" /\ call[m].status # "accepted") =>
             Buffered(m)' \/ \E i \in CallIds : call'[i].got = m
  PROVE  AcceptedKept'
<1> SUFFICES ASSUME NEW m \in CallIds, call'[m].status = "accepted",
                    call[m].status = "accepted",
                    phase'[call'[m].source] \in {"open", "closed"},
                    call'[m].source \notin Latest
             PROVE  Buffered(m)' \/ \E i \in CallIds : call'[i].got = m
  BY DEF AcceptedKept
<1>1. call'[m] = call[m] BY FatesFrame
<1>2. PICK s \in Sources : s = call[m].source
  <2>1. CallAgrees(m) /\ call[m].kind \in {"none", "send", "emit", "wait"}
    BY CallTypes DEF IInv, WaitsAgree, CallsAgree
  <2> QED BY <2>1 DEF CallAgrees, Sources
<1>3. Buffered(m) \/ \E i \in CallIds : call[i].got = m
  BY <1>1, <1>2 DEF IInv, AcceptedKept
<1>4. CASE Buffered(m)
  <2>1. m \in Held(s) BY <1>2, <1>4 DEF Buffered
  <2>2. m \in Held(s)' \/ \E i \in CallIds : call'[i].got = m
    BY <1>1, <1>2, <2>1
  <2>3. m \in Held(s)' => Buffered(m)' BY <1>1, <1>2 DEF Buffered
  <2> QED BY <2>2, <2>3
<1>5. CASE \E i \in CallIds : call[i].got = m
  <2>1. PICK i \in CallIds : call[i].got = m BY <1>5
  <2>2. call'[i].got = m BY <2>1, FatesFrame, Numbers
  <2> QED BY <2>2
<1> QED BY <1>3, <1>4, <1>5

(* Nothing joins a line and nobody gets anything.                          *)
LEMMA LinesShrink ==
  ASSUME IInv, CallsMove,
         \A s \in Sources :
           /\ messages'[s] \in {messages[s], <<>>} /\ senders'[s] \subseteq senders[s]
           /\ phase'[s] \in {"open", "closed"} =>
                phase[s] \in {"open", "closed"} /\ messages'[s] = messages[s],
         \A i \in CallIds :
           /\ call'[i].status = "accepted" => call[i].status = "accepted"
           /\ call'[i].got = call[i].got \/ call'[i].got \notin CallIds
  PROVE  FatesAgree'
<1>1. \A s \in Sources : /\ Held(s)' \subseteq Held(s)
                         /\ Offered(s)' \subseteq Offered(s)
                         /\ messages'[s] = messages[s] => Held(s)' = Held(s)
  <2>1. \A s \in Sources : Held(s)' = Held(s) \/ Held(s)' = {}
    BY DEF Held
  <2> QED BY <2>1 DEF Held, Offered
<1>2. LinesAgree'
  <2> SUFFICES ASSUME NEW s \in Sources
               PROVE  /\ \A k, l \in 1..Len(messages'[s]) :
                           k < l => messages'[s][k] < messages'[s][l]
                      /\ \A m \in Held(s)' :
                           /\ call'[m].source = s /\ call'[m].status = "accepted"
                           /\ \A i \in senders'[s] : m < i
                      /\ \A m \in Offered(s)', i \in CallIds : call'[i].got # m
    BY DEF LinesAgree
  <2>1. \A k, l \in 1..Len(messages'[s]) :
          k < l => messages'[s][k] < messages'[s][l]
    BY DEF IInv, LinesAgree
  <2>2. ASSUME NEW m \in Held(s)'
        PROVE  /\ call'[m].source = s /\ call'[m].status = "accepted"
               /\ \A i \in senders'[s] : m < i
    <3>1. m \in Held(s) /\ m \in Offered(s) /\ m \in CallIds
      BY <1>1, <2>2, OfferedFacts DEF Offered
    <3>2. call'[m] = call[m] BY <3>1, OfferedFacts, FatesFrame
    <3> QED BY <3>1, <3>2, OfferedFacts
  <2>3. ASSUME NEW m \in Offered(s)', NEW i \in CallIds
        PROVE  call'[i].got # m
    <3>1. m \in Offered(s) /\ m \in CallIds BY <1>1, <2>3, OfferedFacts
    <3>2. call[i].got # m BY <3>1 DEF IInv, LinesAgree
    <3> QED BY <3>1, <3>2
  <2> QED BY <2>1, <2>2, <2>3
<1>3. TakenAgree' BY <1>1, TakenStays
<1>4. AcceptedKept' BY <1>1, AcceptedStays
<1> QED BY <1>2, <1>3, <1>4 DEF FatesAgree

(* The message that is admitted is newer than all that are on their way.   *)
LEMMA Newest ==
  ASSUME IInv, Admit, NEW n \in CallIds, n = NewCall
  PROVE  /\ call[n].status = "unused" /\ call[n].got = Nothing /\ n \in Nat
         /\ \A s \in Sources : \A m \in Offered(s) : m < n
         /\ \A i \in CallIds : call[i].got # n
<1>1. /\ call[n].status = "unused" /\ call[n].got = Nothing
      /\ \A i \in CallIds : call[i].status # "unused" => i < n
  BY NewUnused
<1>2. ASSUME NEW s \in Sources, NEW m \in Offered(s) PROVE m < n
  BY <1>1, OfferedFacts
<1>3. \A i \in CallIds : call[i].got # n BY <1>1 DEF IInv, TakenAgree
<1> QED BY <1>1, <1>2, <1>3, Numbers

(* Buffering: the newest message stands last.                              *)
LEMMA LinesAppend ==
  ASSUME IInv, CallsMove, Admit, NEW s \in Sources, NEW n \in CallIds, n = NewCall,
         senders[s] = {}, UNCHANGED <<senders, phase>>,
         NEW r, messages' = [messages EXCEPT ![s] = r],
         \/ r = Append(messages[s], n)
         \/ r = <<n>> /\ s \in Latest,
         call'[n].source = s, call'[n].status = "accepted", call'[n].got = Nothing,
         \A i \in CallIds : i # n => call'[i] = call[i]
  PROVE  FatesAgree'
<1>1. \A q \in Sources : messages[q] \in Seq(CallIds)
  BY DEF IInv, WaitsAgree, TypeOK
<1>2. messages \in [Sources -> Seq(CallIds)]
  BY DEF IInv, WaitsAgree, TypeOK
<1>3. messages'[s] = r /\ \A q \in Sources : q # s => messages'[q] = messages[q]
  BY <1>2
<1> DEFINE L == Len(messages[s])
<1>4. L \in Nat BY <1>1, LenProperties
<1>5. \/ /\ Len(r) = L + 1 /\ r[L + 1] = n
         /\ \A k \in 1..L : r[k] = messages[s][k]
      \/ Len(r) = 1 /\ r[1] = n /\ s \in Latest
  BY <1>1, <1>4, AppendProperties
<1>6. /\ n \in Held(s)' /\ Held(s)' \subseteq Held(s) \union {n}
      /\ s \notin Latest => Held(s) \subseteq Held(s)'
  <2>1. CASE /\ Len(r) = L + 1 /\ r[L + 1] = n
             /\ \A k \in 1..L : r[k] = messages[s][k]
    <3>1. \A k \in 1..Len(r) : k = L + 1 \/ k \in 1..L BY <1>4, <2>1
    <3>2. L + 1 \in 1..Len(r) /\ 1..L \subseteq 1..Len(r) BY <1>4, <2>1
    <3> QED BY <1>3, <2>1, <3>1, <3>2 DEF Held
  <2>2. CASE Len(r) = 1 /\ r[1] = n /\ s \in Latest
    <3>1. 1..Len(r) = {1} BY <2>2
    <3>2. Held(s)' = {r[k] : k \in 1..Len(r)} BY <1>3 DEF Held
    <3>3. \A m \in Held(s)' : m = n BY <2>2, <3>1, <3>2
    <3>4. n \in Held(s)' BY <2>2, <3>1, <3>2
    <3> QED BY <2>2, <3>3, <3>4
  <2> QED BY <1>5, <2>1, <2>2
<1>7. \A q \in Sources : q # s => Held(q)' = Held(q) /\ Offered(q)' = Offered(q)
  BY <1>3 DEF Held, Offered
<1>8. Offered(s)' \subseteq Offered(s) \union {n} BY <1>6 DEF Offered
<1>9. \A q \in Sources : \A m \in Offered(q) : m # n /\ m < n /\ m \in CallIds
  BY Newest, OfferedFacts
<1>10. \A i \in CallIds : call'[i].got = call[i].got BY Newest
<1>11. LinesAgree'
  <2> SUFFICES ASSUME NEW q \in Sources
               PROVE  /\ \A k, l \in 1..Len(messages'[q]) :
                           k < l => messages'[q][k] < messages'[q][l]
                      /\ \A m \in Held(q)' :
                           /\ call'[m].source = q /\ call'[m].status = "accepted"
                           /\ \A i \in senders'[q] : m < i
                      /\ \A m \in Offered(q)', i \in CallIds : call'[i].got # m
    BY DEF LinesAgree
  <2>1. \A k, l \in 1..Len(messages[q]) :
          k < l => messages[q][k] < messages[q][l]
    BY DEF IInv, LinesAgree
  <2>2. ASSUME NEW m \in Offered(q), NEW i \in CallIds PROVE call'[i].got # m
    BY <1>10 DEF IInv, LinesAgree
  <2>3. ASSUME NEW m \in Held(q)
        PROVE  /\ call'[m].source = q /\ call'[m].status = "accepted"
               /\ \A i \in senders[q] : m < i
    <3>1. m \in Offered(q) BY DEF Offered
    <3> QED BY <1>9, <3>1, OfferedFacts
  <2>4. CASE q # s BY <1>3, <1>7, <2>1, <2>2, <2>3, <2>4
  <2>5. CASE q = s
    <3>1. \A k, l \in 1..Len(r) : k < l => r[k] < r[l]
      <4> SUFFICES ASSUME NEW k \in 1..Len(r), NEW l \in 1..Len(r), k < l
                   PROVE  r[k] < r[l]
        OBVIOUS
      <4>0. k < l OBVIOUS
      <4>1. Len(r) = L + 1 /\ r[L + 1] = n
            /\ \A j \in 1..L : r[j] = messages[s][j]
        <5>1. Len(r) # 1
          <6>1. SUFFICES ASSUME Len(r) = 1 PROVE FALSE OBVIOUS
          <6>2. k = 1 /\ l = 1 BY <6>1
          <6> QED BY <4>0, <6>2
        <5> QED BY <1>5, <5>1
      <4>2. k \in 1..L /\ r[k] = messages[s][k] BY <1>4, <4>1
      <4>3. CASE l \in 1..L BY <2>1, <2>5, <4>1, <4>2, <4>3
      <4>4. CASE l = L + 1
        <5>1. messages[s][k] \in Offered(s) BY <4>2 DEF Offered, Held
        <5> QED BY <1>9, <4>1, <4>2, <4>4, <5>1
      <4> QED BY <1>4, <4>1, <4>3, <4>4
    <3>2. \A i \in CallIds : call'[i].got # n BY <1>10, Newest
    <3> QED BY <1>3, <1>6, <1>8, <2>2, <2>3, <2>5, <3>1, <3>2
  <2> QED BY <2>4, <2>5
<1>12. TakenAgree'
  <2>1. \A q \in Sources : \A m \in Offered(q)' : m \in Offered(q) \/ m = n
    BY <1>7, <1>8
  <2> QED BY <1>10, <2>1, TakenStays
<1>13. AcceptedKept'
  <2>1. Buffered(n)' BY <1>6 DEF Buffered
  <2>2. \A q \in Sources : q \notin Latest => Held(q) \subseteq Held(q)'
    BY <1>6, <1>7
  <2> QED BY <2>1, <2>2, AcceptedStays
<1> QED BY <1>11, <1>12, <1>13 DEF FatesAgree

(* Blocking: the newest sender stands behind the buffer and the others.    *)
LEMMA LinesBlock ==
  ASSUME IInv, CallsMove, Admit, NEW s \in Sources, NEW n \in CallIds, n = NewCall,
         UNCHANGED <<messages, phase>>,
         senders' = [senders EXCEPT ![s] = @ \union {n}],
         call'[n].source = s, call'[n].status = "blocked", call'[n].got = Nothing,
         \A i \in CallIds : i # n => call'[i] = call[i]
  PROVE  FatesAgree'
<1>1. senders \in [Sources -> SUBSET CallIds] BY DEF IInv, WaitsAgree, TypeOK
<1>2. \A q \in Sources : /\ Held(q)' = Held(q)
                         /\ senders'[q] \subseteq senders[q] \union {n}
                         /\ Offered(q)' \subseteq Offered(q) \union {n}
  BY <1>1 DEF Held, Offered
<1>3. \A q \in Sources : \A m \in Offered(q) : m # n /\ m < n /\ m \in CallIds
  BY Newest, OfferedFacts
<1>4. \A i \in CallIds : call'[i].got = call[i].got BY Newest
<1>5. LinesAgree'
  <2> SUFFICES ASSUME NEW q \in Sources
               PROVE  /\ \A k, l \in 1..Len(messages'[q]) :
                           k < l => messages'[q][k] < messages'[q][l]
                      /\ \A m \in Held(q)' :
                           /\ call'[m].source = q /\ call'[m].status = "accepted"
                           /\ \A i \in senders'[q] : m < i
                      /\ \A m \in Offered(q)', i \in CallIds : call'[i].got # m
    BY DEF LinesAgree
  <2>1. \A k, l \in 1..Len(messages'[q]) :
          k < l => messages'[q][k] < messages'[q][l]
    BY DEF IInv, LinesAgree
  <2>2. ASSUME NEW m \in Held(q)'
        PROVE  /\ call'[m].source = q /\ call'[m].status = "accepted"
               /\ \A i \in senders'[q] : m < i
    <3>1. m \in Held(q) /\ m \in Offered(q) BY <1>2, <2>2 DEF Offered
    <3> QED BY <1>2, <1>3, <3>1, OfferedFacts
  <2>3. ASSUME NEW m \in Offered(q)', NEW i \in CallIds PROVE call'[i].got # m
    <3>1. m \in Offered(q) \/ m = n BY <1>2
    <3>2. m \in Offered(q) => call[i].got # m BY DEF IInv, LinesAgree
    <3> QED BY <1>4, <3>1, <3>2, Newest
  <2> QED BY <2>1, <2>2, <2>3
<1>6. TakenAgree' BY <1>2, <1>4, TakenStays
<1>7. AcceptedKept' BY <1>2, AcceptedStays
<1> QED BY <1>5, <1>6, <1>7 DEF FatesAgree

(* Handing over: the newest message goes past an empty line to one wait.   *)
LEMMA LinesHand ==
  ASSUME IInv, CallsMove, Admit, NEW s \in Sources, NEW n \in CallIds, n = NewCall,
         UNCHANGED <<messages, senders, phase>>,
         messages[s] = <<>>, senders[s] = {}, NEW k \in CallIds, Pending(k),
         call'[n].source = s, call'[n].status = "accepted",
         call'[n].kind \in {"send", "emit"}, call'[n].got = Nothing,
         call'[k].got = n, call'[k].status # "accepted",
         \A i \in CallIds : i # n /\ i # k => call'[i] = call[i]
  PROVE  FatesAgree'
<1>1. \A q \in Sources : Held(q)' = Held(q) /\ Offered(q)' = Offered(q)
  BY DEF Held, Offered
<1>2. Offered(s) = {} BY DEF Held, Offered
<1>3. \A q \in Sources : \A m \in Offered(q) : m # n /\ m \in CallIds
  BY Newest, OfferedFacts
<1>4. \A i \in CallIds : i # k => call'[i].got = call[i].got BY Newest
<1>5. call[k].got = Nothing /\ k # n
  BY Newest DEF IInv, CallsAgree, CallAgrees, Pending
<1>6. LinesAgree'
  <2> SUFFICES ASSUME NEW q \in Sources
               PROVE  /\ \A j, l \in 1..Len(messages'[q]) :
                           j < l => messages'[q][j] < messages'[q][l]
                      /\ \A m \in Held(q)' :
                           /\ call'[m].source = q /\ call'[m].status = "accepted"
                           /\ \A i \in senders'[q] : m < i
                      /\ \A m \in Offered(q)', i \in CallIds : call'[i].got # m
    BY DEF LinesAgree
  <2>1. \A j, l \in 1..Len(messages'[q]) :
          j < l => messages'[q][j] < messages'[q][l]
    BY DEF IInv, LinesAgree
  <2>2. ASSUME NEW m \in Held(q)'
        PROVE  /\ call'[m].source = q /\ call'[m].status = "accepted"
               /\ \A i \in senders'[q] : m < i
    <3>1. m \in Held(q) /\ m \in Offered(q) /\ m \in CallIds
      BY <1>1, <2>2, OfferedFacts DEF Offered
    <3>2. call'[m] = call[m] BY <3>1, OfferedFacts, FatesFrame
    <3> QED BY <3>1, <3>2, OfferedFacts
  <2>3. ASSUME NEW m \in Offered(q)', NEW i \in CallIds PROVE call'[i].got # m
    <3>1. m \in Offered(q) BY <1>1
    <3>2. call[i].got # m BY <3>1 DEF IInv, LinesAgree
    <3> QED BY <1>3, <1>4, <3>1, <3>2
  <2> QED BY <2>1, <2>2, <2>3
<1>7. TakenAgree'
  <2> SUFFICES ASSUME NEW i \in CallIds, NEW m \in CallIds, call'[i].got = m
               PROVE  /\ call'[m].kind \in {"send", "emit"}
                      /\ call'[m].status = "accepted"
                      /\ \A j \in CallIds : call'[j].got = m => j = i
                      /\ \A l \in Offered(call[m].source)' : m < l
    BY DEF TakenAgree
  <2>1. CASE i = k
    <3>1. m = n BY <2>1
    <3>2. \A j \in CallIds : call'[j].got = n => j = k BY <1>4, Newest
    <3>3. Offered(call[m].source)' = Offered(s)' BY <3>1
    <3> QED BY <1>1, <1>2, <2>1, <3>1, <3>2, <3>3
  <2>2. CASE i # k
    <3>1. call[i].got = m BY <1>4, <2>2
    <3>2. /\ call[m].kind \in {"send", "emit"} /\ call[m].status = "accepted"
          /\ \A j \in CallIds : call[j].got = m => j = i
          /\ \A l \in Offered(call[m].source) : m < l
      BY <3>1 DEF IInv, TakenAgree
    <3>3. m # n BY <3>1, Newest
    <3>4. call'[m] = call[m] BY <3>2, FatesFrame
    <3>5. \A j \in CallIds : call'[j].got = m => j = i BY <1>4, <3>2, <3>3
    <3>6. PICK q \in Sources : q = call[m].source
      BY <3>2 DEF IInv, CallsAgree, CallAgrees, Sources
    <3>7. Offered(call[m].source)' = Offered(q)' BY <3>4, <3>6
    <3> QED BY <1>1, <3>2, <3>4, <3>5, <3>6, <3>7
  <2> QED BY <2>1, <2>2
<1>8. AcceptedKept' BY <1>1, AcceptedStays
<1> QED BY <1>6, <1>7, <1>8 DEF FatesAgree

(* The buffer with the first blocked sender behind it, and what is left of *)
(* it when its head has been taken.                                        *)
LEMMA PipeFacts ==
  ASSUME IInv, NEW s \in Sources, Pipe(s) # <<>>
  PROVE  /\ Outcome(s) \in Held(s) \union Released(s)
         /\ \A m \in Offered(s) : Outcome(s) <= m
         /\ Rest(s) \in Seq(CallIds) /\ Len(Rest(s)) \in Nat
         /\ Len(Rest(s)) <= Len(messages[s])
         /\ \A k, l \in 1..Len(Rest(s)) : k < l => Rest(s)[k] < Rest(s)[l]
         /\ {Rest(s)[k] : k \in 1..Len(Rest(s))}
              = (Held(s) \union Released(s)) \ {Outcome(s)}
         /\ senders[s] # {} => Len(Rest(s)) = Len(messages[s])
<1> DEFINE M == messages[s]
           L == Len(messages[s])
           P == Pipe(s)
           B == senders[s]
<1>1. M \in Seq(CallIds) /\ L \in Nat BY Meeting
<1>2. /\ \A k, l \in 1..L : k < l => M[k] < M[l]
      /\ \A k \in 1..L : M[k] \in Held(s) /\ M[k] \in CallIds
      /\ \A k \in 1..L : \A i \in B : M[k] < i
  <2>1. \A k \in 1..L : M[k] \in Held(s) BY DEF Held
  <2> QED BY <1>1, <2>1, OfferedFacts, ElementOfSeq DEF IInv, LinesAgree
<1>3. B \in SUBSET Nat /\ B \subseteq CallIds
  BY Numbers DEF IInv, WaitsAgree, TypeOK
<1>4. PICK b : b = First(B) OBVIOUS
<1>5. B # {} => b \in B /\ \A i \in B : b <= i BY <1>3, <1>4, FirstFacts
<1>6. Released(s) = IF B = {} THEN {} ELSE {b} BY <1>4 DEF Released
<1>7. /\ P \in Seq(CallIds)
      /\ Len(P) = IF B = {} THEN L ELSE L + 1
      /\ \A k \in 1..L : P[k] = M[k]
      /\ B # {} => P[L + 1] = b
  <2>1. CASE B = {}
    <3>1. P = M \o <<>> BY <2>1 DEF Pipe
    <3>2. P = M BY <1>1, <3>1, ConcatEmptySeq
    <3> QED BY <1>1, <2>1, <3>2
  <2>2. CASE B # {}
    <3>1. P = M \o <<b>> BY <1>4, <2>2 DEF Pipe
    <3>2. <<b>> \in Seq(CallIds) /\ Len(<<b>>) = 1 BY <1>3, <1>5, <2>2
    <3> QED BY <1>1, <2>2, <3>1, <3>2, ConcatProperties
  <2> QED BY <2>1, <2>2
<1> HIDE DEF P
<1>8. P # <<>> BY DEF P
<1>9. Len(P) \in Nat /\ Len(P) >= 1 BY <1>7, <1>8, EmptySeq, LenProperties
<1>10. \A k \in 1..Len(P) : k \in 1..L \/ (B # {} /\ k = L + 1)
  BY <1>1, <1>7
<1>11. \A k, l \in 1..Len(P) : k < l => P[k] < P[l]
  <2> SUFFICES ASSUME NEW k \in 1..Len(P), NEW l \in 1..Len(P), k < l
               PROVE  P[k] < P[l]
    OBVIOUS
  <2>1. k \in 1..L BY <1>1, <1>7, <1>9
  <2>2. P[k] = M[k] BY <1>7, <2>1
  <2>3. CASE l \in 1..L BY <1>2, <1>7, <2>1, <2>2, <2>3
  <2>4. CASE B # {} /\ l = L + 1 BY <1>2, <1>5, <1>7, <2>1, <2>2, <2>4
  <2> QED BY <1>10, <2>3, <2>4
<1>12. \A m : m \in Held(s) \union Released(s) <=> \E k \in 1..Len(P) : P[k] = m
  <2>1. ASSUME NEW m, m \in Held(s) PROVE \E k \in 1..Len(P) : P[k] = m
    <3>1. PICK k \in 1..L : M[k] = m BY <2>1 DEF Held
    <3>2. k \in 1..Len(P) BY <1>1, <1>7
    <3> QED BY <1>7, <3>1, <3>2
  <2>2. ASSUME NEW m, m \in Released(s) PROVE \E k \in 1..Len(P) : P[k] = m
    <3>1. B # {} /\ m = b BY <1>6, <2>2
    <3>2. L + 1 \in 1..Len(P) BY <1>1, <1>7, <3>1
    <3> QED BY <1>7, <3>1, <3>2
  <2>3. ASSUME NEW k \in 1..Len(P) PROVE P[k] \in Held(s) \union Released(s)
    <3>1. CASE k \in 1..L BY <1>2, <1>7, <3>1
    <3>2. CASE B # {} /\ k = L + 1 BY <1>6, <1>7, <3>2
    <3> QED BY <1>10, <3>1, <3>2
  <2> QED BY <2>1, <2>2, <2>3
<1>13. Outcome(s) = P[1] /\ 1 \in 1..Len(P)
  <2>1. Outcome(s) = Head(P) BY <1>8 DEF Outcome, P
  <2> QED BY <1>7, <1>8, <1>9, <2>1, HeadTailProperties
<1>14. \A k \in 1..Len(P) : P[k] \in CallIds BY <1>7, ElementOfSeq
<1>15. ASSUME NEW m \in Offered(s) PROVE Outcome(s) <= m
  <2>1. \A k \in 1..Len(P) : P[1] <= P[k]
    <3> SUFFICES ASSUME NEW k \in 1..Len(P) PROVE P[1] <= P[k] OBVIOUS
    <3>1. k = 1 \/ 1 < k OBVIOUS
    <3>2. P[1] \in Nat /\ P[k] \in Nat BY <1>13, <1>14, Numbers
    <3> QED BY <1>11, <1>13, <3>1, <3>2
  <2>2. CASE m \in Held(s) \union Released(s) BY <1>12, <1>13, <2>1, <2>2
  <2>3. CASE m \notin Held(s) \union Released(s)
    <3>1. m \in B /\ b <= m /\ b \in Released(s)
      BY <1>5, <1>6, <2>3 DEF Offered
    <3>2. P[1] <= b BY <1>12, <2>1, <3>1
    <3> QED BY <1>3, <1>5, <1>13, <1>14, <3>1, <3>2, Numbers
  <2> QED BY <2>2, <2>3
<1>16. PICK R : R = Rest(s) OBVIOUS
<1>17. R = Tail(P) BY <1>8, <1>16 DEF Rest, P
<1>18. /\ R \in Seq(CallIds) /\ Len(R) = Len(P) - 1
       /\ \A k \in 1..Len(R) : R[k] = P[k + 1]
  BY <1>7, <1>8, <1>17, HeadTailProperties
<1>19. \A k \in 1..Len(R) : k + 1 \in 1..Len(P) BY <1>9, <1>18
<1>20. \A k, l \in 1..Len(R) : k < l => R[k] < R[l] BY <1>11, <1>18, <1>19
<1>21. \A m : m \in {R[k] : k \in 1..Len(R)} <=>
              m \in Held(s) \union Released(s) /\ m # Outcome(s)
  <2>1. ASSUME NEW k \in 1..Len(R)
        PROVE  R[k] \in Held(s) \union Released(s) /\ R[k] # Outcome(s)
    <3>1. k + 1 \in 1..Len(P) /\ R[k] = P[k + 1] BY <1>18, <1>19
    <3>2. P[1] < P[k + 1] BY <1>11, <1>13, <3>1
    <3>3. P[1] \in Nat BY <1>13, <1>14, Numbers
    <3> QED BY <1>12, <1>13, <3>1, <3>2, <3>3
  <2>2. ASSUME NEW m \in Held(s) \union Released(s), m # Outcome(s)
        PROVE  \E k \in 1..Len(R) : R[k] = m
    <3>1. PICK j \in 1..Len(P) : P[j] = m BY <1>12
    <3>2. j # 1 BY <1>13, <2>2, <3>1
    <3>3. j - 1 \in 1..Len(R) /\ (j - 1) + 1 = j BY <1>9, <1>18, <3>2
    <3> QED BY <1>18, <3>1, <3>3
  <2> QED BY <2>1, <2>2
<1>22. {R[k] : k \in 1..Len(R)} = (Held(s) \union Released(s)) \ {Outcome(s)}
  BY <1>21
<1>23. Outcome(s) \in Held(s) \union Released(s) BY <1>12, <1>13
<1>24. /\ Len(R) \in Nat /\ Len(R) <= L /\ (B # {} => Len(R) = L)
  BY <1>1, <1>7, <1>9, <1>18
<1> QED BY <1>15, <1>16, <1>18, <1>20, <1>22, <1>23, <1>24

(* The first blocked sender is let go.                                     *)
LEMMA ReleasedFirst ==
  ASSUME IInv, NEW s \in Sources
  PROVE  /\ Released(s) \subseteq senders[s]
         /\ \A i \in Released(s) : \A k \in senders[s] \ Released(s) : i < k
<1>1. senders[s] \in SUBSET Nat
  BY Numbers DEF IInv, WaitsAgree, TypeOK
<1>2. CASE senders[s] = {} BY <1>2 DEF Released
<1>3. CASE senders[s] # {}
  <2>1. PICK b : b = First(senders[s]) OBVIOUS
  <2>2. b \in senders[s] /\ \A k \in senders[s] : b <= k
    BY <1>1, <1>3, <2>1, FirstFacts
  <2>3. Released(s) = {b} BY <1>3, <2>1 DEF Released
  <2>4. \A k \in senders[s] \ Released(s) : b < k BY <1>1, <2>2, <2>3
  <2> QED BY <2>2, <2>3, <2>4
<1> QED BY <1>2, <1>3

(* A take takes the head of the pipe off the line, and nothing else.       *)
LEMMA TakenLine ==
  ASSUME IInv, NEW s \in Sources, Pipe(s) # <<>>,
         messages' = [messages EXCEPT ![s] = Rest(s)],
         senders' = [senders EXCEPT ![s] = @ \ Released(s)]
  PROVE  Offered(s)' = Offered(s) \ {Outcome(s)}
<1> DEFINE o == Outcome(s)
           Q == Released(s)
<1>1. messages'[s] = Rest(s) /\ senders'[s] = senders[s] \ Q
  BY DEF IInv, WaitsAgree, TypeOK
<1>2. /\ o \in Held(s) \union Q
      /\ {Rest(s)[k] : k \in 1..Len(Rest(s))} = (Held(s) \union Q) \ {o}
  BY PipeFacts
<1>3. Q \subseteq senders[s] BY ReleasedFirst
<1>4. Held(s)' = (Held(s) \union Q) \ {o} BY <1>1, <1>2 DEF Held
<1>5. o \notin senders[s] \ Q
  <2> SUFFICES ASSUME o \in senders[s] \ Q PROVE FALSE OBVIOUS
  <2>1. o \in Held(s) /\ o < o BY <1>2, OfferedFacts
  <2>2. o \in Nat BY <2>1, OfferedFacts, Numbers
  <2> QED BY <2>1, <2>2
<1> QED BY <1>1, <1>3, <1>4, <1>5 DEF Offered

(* Taking: the head of the pipe goes to the newest wait, and every take    *)
(* lets the first blocked sender into the buffer.                          *)
LEMMA LinesTake ==
  ASSUME IInv, CallsMove, Admit, NEW s \in Sources, NEW n \in CallIds, n = NewCall,
         UNCHANGED phase, Pipe(s) # <<>>,
         messages' = [messages EXCEPT ![s] = Rest(s)],
         senders' = [senders EXCEPT ![s] = @ \ Released(s)],
         call'[n].got = Outcome(s), call'[n].status = "committed",
         \A i \in CallIds : i # n => call'[i].got = call[i].got,
         \A i \in Released(s) : call'[i].status = "accepted",
         \A i \in CallIds : i # n /\ i \notin Released(s) => call'[i] = call[i]
  PROVE  FatesAgree'
<1> DEFINE o == Outcome(s)
           R == Rest(s)
           Q == Released(s)
<1>1. /\ messages'[s] = R /\ senders'[s] = senders[s] \ Q
      /\ \A q \in Sources : q # s =>
           messages'[q] = messages[q] /\ senders'[q] = senders[q]
  BY DEF IInv, WaitsAgree, TypeOK
<1>2. /\ o \in Held(s) \union Q /\ \A m \in Offered(s) : o <= m
      /\ \A k, l \in 1..Len(R) : k < l => R[k] < R[l]
      /\ {R[k] : k \in 1..Len(R)} = (Held(s) \union Q) \ {o}
  BY PipeFacts
<1>3. Q \subseteq senders[s] /\ \A i \in Q : \A k \in senders[s] \ Q : i < k
  BY ReleasedFirst
<1>4. o \in Offered(s) BY <1>2, <1>3 DEF Offered
<1>5. Held(s)' = (Held(s) \union Q) \ {o} BY <1>1, <1>2 DEF Held
<1>6. Offered(s)' = Offered(s) \ {o} BY TakenLine
<1>7. \A q \in Sources : q # s => Held(q)' = Held(q) /\ Offered(q)' = Offered(q)
  BY <1>1 DEF Held, Offered
<1>8. o \in CallIds /\ o \in Nat BY <1>4, OfferedFacts
<1>9. \A q \in Sources : \A m \in Offered(q) : m # n /\ m \in CallIds
  BY Newest, OfferedFacts
<1>10. call[o].source = s /\ call[o].kind \in {"send", "emit"}
  BY <1>4, OfferedFacts
<1>11. \A i \in CallIds : call[i].got # o BY <1>4 DEF IInv, LinesAgree
<1>12. ASSUME NEW m \in Held(s) \union Q
       PROVE  /\ call'[m].source = s /\ call'[m].status = "accepted"
              /\ call'[m].kind \in {"send", "emit"}
  <2>1. m \in Offered(s) /\ m \in CallIds
    BY <1>3, OfferedFacts DEF Offered
  <2>2. /\ call[m].source = s /\ call[m].kind \in {"send", "emit"}
        /\ call[m].status \in {"accepted", "blocked"}
    BY <2>1, OfferedFacts
  <2>3. call'[m].source = s /\ call'[m].kind \in {"send", "emit"}
    BY <2>1, <2>2, FatesFrame
  <2>4. CASE m \in Q BY <2>3, <2>4
  <2>5. CASE m \in Held(s)
    <3>1. call[m].status = "accepted" BY <2>5, OfferedFacts
    <3> QED BY <2>1, <2>3, <3>1, FatesFrame
  <2> QED BY <2>4, <2>5
<1>13. LinesAgree'
  <2> SUFFICES ASSUME NEW q \in Sources
               PROVE  /\ \A j, l \in 1..Len(messages'[q]) :
                           j < l => messages'[q][j] < messages'[q][l]
                      /\ \A m \in Held(q)' :
                           /\ call'[m].source = q /\ call'[m].status = "accepted"
                           /\ \A i \in senders'[q] : m < i
                      /\ \A m \in Offered(q)', i \in CallIds : call'[i].got # m
    BY DEF LinesAgree
  <2>1. \A j, l \in 1..Len(messages[q]) :
          j < l => messages[q][j] < messages[q][l]
    BY DEF IInv, LinesAgree
  <2>2. ASSUME NEW m \in Offered(q)', NEW i \in CallIds PROVE call'[i].got # m
    <3>1. m \in Offered(q) /\ m # o
      <4>1. CASE q = s BY <1>6, <4>1
      <4>2. CASE q # s
        <5>1. m \in Offered(q) BY <1>7, <4>2
        <5>2. call[m].source = q BY <5>1, OfferedFacts
        <5> QED BY <1>10, <4>2, <5>1, <5>2
      <4> QED BY <4>1, <4>2
    <3>2. call[i].got # m BY <3>1 DEF IInv, LinesAgree
    <3> QED BY <3>1, <3>2
  <2>3. CASE q # s
    <3>1. ASSUME NEW m \in Held(q)'
          PROVE  /\ call'[m].source = q /\ call'[m].status = "accepted"
                 /\ \A i \in senders'[q] : m < i
      <4>1. m \in Held(q) /\ m \in Offered(q) /\ m \in CallIds
        BY <1>7, <2>3, <3>1, OfferedFacts DEF Offered
      <4>2. call'[m] = call[m] BY <4>1, OfferedFacts, FatesFrame
      <4> QED BY <1>1, <2>3, <4>1, <4>2, OfferedFacts
    <3> QED BY <1>1, <2>1, <2>2, <2>3, <3>1
  <2>4. CASE q = s
    <3>1. ASSUME NEW m \in Held(s)'
          PROVE  /\ call'[m].source = s /\ call'[m].status = "accepted"
                 /\ \A i \in senders'[s] : m < i
      <4>1. m \in Held(s) \union Q BY <1>5
      <4>2. \A i \in senders[s] \ Q : m < i
        <5>1. m \in Held(s) => \A i \in senders[s] : m < i BY OfferedFacts
        <5> QED BY <1>3, <4>1, <5>1
      <4> QED BY <1>1, <1>12, <4>1, <4>2
    <3> QED BY <1>1, <1>2, <2>2, <2>4, <3>1
  <2> QED BY <2>3, <2>4
<1>14. TakenAgree'
  <2> SUFFICES ASSUME NEW i \in CallIds, NEW m \in CallIds, call'[i].got = m
               PROVE  /\ call'[m].kind \in {"send", "emit"}
                      /\ call'[m].status = "accepted"
                      /\ \A j \in CallIds : call'[j].got = m => j = i
                      /\ \A l \in Offered(call[m].source)' : m < l
    BY DEF TakenAgree
  <2>1. CASE i = n
    <3>1. m = o BY <2>1
    <3>2. /\ call'[o].source = s /\ call'[o].status = "accepted"
          /\ call'[o].kind \in {"send", "emit"}
      BY <1>2, <1>12
    <3>3. \A j \in CallIds : call'[j].got = o => j = n BY <1>11
    <3>4. Offered(call[m].source)' = Offered(s)' BY <3>1, <3>2
    <3>5. \A l \in Offered(s)' : o < l
      <4> SUFFICES ASSUME NEW l \in Offered(s)' PROVE o < l OBVIOUS
      <4>1. l \in Offered(s) /\ l # o /\ o <= l BY <1>2, <1>6
      <4>2. l \in Nat BY <4>1, OfferedFacts
      <4> QED BY <1>8, <4>1, <4>2
    <3> QED BY <2>1, <3>1, <3>2, <3>3, <3>4, <3>5
  <2>2. CASE i # n
    <3>1. call[i].got = m BY <2>2
    <3>2. /\ call[m].kind \in {"send", "emit"} /\ call[m].status = "accepted"
          /\ \A j \in CallIds : call[j].got = m => j = i
          /\ \A l \in Offered(call[m].source) : m < l
      BY <3>1 DEF IInv, TakenAgree
    <3>3. m # o BY <1>11, <3>1
    <3>4. call'[m] = call[m] BY <3>2, FatesFrame
    <3>5. \A j \in CallIds : call'[j].got = m => j = i BY <3>2, <3>3
    <3>6. PICK q \in Sources : q = call[m].source
      BY <3>2 DEF IInv, CallsAgree, CallAgrees, Sources
    <3>7. Offered(call[m].source)' = Offered(q)' BY <3>4, <3>6
    <3>8. Offered(q)' \subseteq Offered(q) BY <1>6, <1>7
    <3> QED BY <3>2, <3>4, <3>5, <3>6, <3>7, <3>8
  <2> QED BY <2>1, <2>2
<1>15. AcceptedKept'
  <2>1. ASSUME NEW q \in Sources, NEW m \in Held(q)
        PROVE  m \in Held(q)' \/ \E i \in CallIds : call'[i].got = m
    <3>1. CASE q = s /\ m = o BY <3>1
    <3>2. CASE q # s \/ m # o BY <1>5, <1>7, <3>2
    <3> QED BY <3>1, <3>2
  <2>2. ASSUME NEW m \in CallIds, call'[m].status = "accepted",
               call[m].status # "accepted"
        PROVE  Buffered(m)' \/ \E i \in CallIds : call'[i].got = m
    <3>1. m \in Q BY <2>2
    <3>2. CASE m = o BY <3>2
    <3>3. CASE m # o
      <4>1. m \in Held(s)' /\ call'[m].source = s BY <1>5, <1>12, <3>1, <3>3
      <4> QED BY <4>1 DEF Buffered
    <3> QED BY <3>2, <3>3
  <2> QED BY <2>1, <2>2, AcceptedStays
<1> QED BY <1>13, <1>14, <1>15 DEF FatesAgree

-----------------------------------------------------------------------------
(* The five ways of the lines.                                             *)

\* Messages of s are lost, or nothing happens to any line (s = NoSource).
Shrinks(s) ==
  /\ s \in Sources \union {NoSource}
  /\ \A q \in Sources :
       /\ messages'[q] \in {messages[q], <<>>} /\ senders'[q] \subseteq senders[q]
       /\ q # s => messages'[q] = messages[q] /\ senders'[q] = senders[q]
       /\ phase'[q] \in {"open", "closed"} =>
            phase[q] \in {"open", "closed"} /\ messages'[q] = messages[q]
  /\ \A i \in CallIds :
       /\ call'[i].status = "accepted" => call[i].status = "accepted"
       /\ call'[i].got = call[i].got \/ call'[i].got \notin CallIds

\* Message n of s joins the buffer.
Appends(s, n) ==
  /\ senders[s] = {} /\ UNCHANGED <<senders, phase>>
  /\ \E r \in {Append(messages[s], n), <<n>>} :
       /\ messages' = [messages EXCEPT ![s] = r]
       /\ r = Append(messages[s], n) \/ s \in Latest
  /\ call'[n].source = s /\ call'[n].status = "accepted" /\ call'[n].got = Nothing
  /\ \A i \in CallIds : i # n => call'[i] = call[i]

\* Message n of s is blocked.
Blocks(s, n) ==
  /\ UNCHANGED <<messages, phase>>
  /\ senders' = [senders EXCEPT ![s] = @ \union {n}]
  /\ call'[n].source = s /\ call'[n].status = "blocked" /\ call'[n].got = Nothing
  /\ \A i \in CallIds : i # n => call'[i] = call[i]

\* Message n of s goes to wait k, which is the first at s.
Hands(s, n, k) ==
  /\ UNCHANGED <<messages, senders, phase>>
  /\ messages[s] = <<>> /\ senders[s] = {}
  /\ Pending(k) /\ \A f \in receivers[s] : k <= f[1]
  /\ call'[n].source = s /\ call'[n].status = "accepted"
  /\ call'[n].kind \in {"send", "emit"} /\ call'[n].got = Nothing
  /\ call'[k].got = n /\ call'[k].status # "accepted"
  /\ \A i \in CallIds : i # n /\ i # k => call'[i] = call[i]

\* Wait n takes the head of the pipe of s.
Takes(s, n) ==
  /\ UNCHANGED phase /\ Pipe(s) # <<>>
  /\ messages' = [messages EXCEPT ![s] = Rest(s)]
  /\ senders' = [senders EXCEPT ![s] = @ \ Released(s)]
  /\ call'[n].got = Outcome(s) /\ call'[n].status = "committed"
  /\ \A i \in CallIds : i # n => call'[i].got = call[i].got
  /\ \A i \in Released(s) : call'[i].status = "accepted"
  /\ \A i \in CallIds : i # n /\ i \notin Released(s) => call'[i] = call[i]

LinesMove ==
  \/ \E s \in Sources \union {NoSource} : Shrinks(s)
  \/ /\ Admit
     /\ \E s \in Sources, n \in CallIds :
          /\ n = NewCall
          /\ \/ Appends(s, n) \/ Blocks(s, n) \/ Takes(s, n)
             \/ \E k \in CallIds : Hands(s, n, k)

\* What is proved of every step.
Step == IInv' /\ CallsMove /\ LinesMove

(* Each of them keeps what is accepted and when it is taken.               *)
LEMMA LinesMoveKeeps ==
  ASSUME IInv, CallsMove, LinesMove
  PROVE  FatesAgree'
<1>1. ASSUME NEW s \in Sources \union {NoSource}, Shrinks(s) PROVE FatesAgree'
  BY <1>1, LinesShrink DEF Shrinks
<1>2. ASSUME Admit, NEW s \in Sources, NEW n \in CallIds, n = NewCall, Appends(s, n)
      PROVE  FatesAgree'
  <2>1. PICK r \in {Append(messages[s], n), <<n>>} :
          /\ messages' = [messages EXCEPT ![s] = r]
          /\ r = Append(messages[s], n) \/ s \in Latest
    BY <1>2 DEF Appends
  <2>2. \/ r = Append(messages[s], n)
        \/ r = <<n>> /\ s \in Latest
    BY <2>1
  <2>3. /\ senders[s] = {} /\ UNCHANGED <<senders, phase>>
        /\ call'[n].source = s /\ call'[n].status = "accepted"
        /\ call'[n].got = Nothing
        /\ \A i \in CallIds : i # n => call'[i] = call[i]
    BY <1>2 DEF Appends
  <2> QED BY <1>2, <2>1, <2>2, <2>3, LinesAppend
<1>3. ASSUME Admit, NEW s \in Sources, NEW n \in CallIds, n = NewCall, Blocks(s, n)
      PROVE  FatesAgree'
  BY <1>3, LinesBlock DEF Blocks
<1>4. ASSUME Admit, NEW s \in Sources, NEW n \in CallIds, n = NewCall, Takes(s, n)
      PROVE  FatesAgree'
  BY <1>4, LinesTake DEF Takes
<1>5. ASSUME Admit, NEW s \in Sources, NEW n \in CallIds, n = NewCall,
             NEW k \in CallIds, Hands(s, n, k)
      PROVE  FatesAgree'
  BY <1>5, LinesHand DEF Hands
<1> QED BY <1>1, <1>2, <1>3, <1>4, <1>5 DEF LinesMove

-----------------------------------------------------------------------------
(* The life of a source, and the invariant put together.                   *)

EndsAgree ==
  /\ phase \in [Sources -> {"open", "closed", "failed", "aborted", "revoked"}]
  /\ sink \in [Subscriptions -> {"none", "attaching", "held", "gone"}]
  /\ detaches \in [Subscriptions -> Nat]
  /\ SinksAgree /\ DetachesOnce

FaultsAgree == failures \subseteq CallIds /\ faults \in 0..MaxFaults

(* The parts of the invariant.                                             *)
LEMMA Assemble ==
  ASSUME CallsTyped, \A i \in CallIds : CallAgrees(i), WaitersAgree,
         SendersAgree, SourcesAgree, FatesAgree, EndsAgree, FaultsAgree
  PROVE  IInv
<1>1. TypeOK
  BY DEF TypeOK, CallsTyped, WaitersAgree, ReceiversAgree, TimerAgrees, TimerState,
         SendersAgree, SourcesAgree, EndsAgree, FaultsAgree
<1>2. RegistrationsAgree
  BY DEF RegistrationsAgree, WaitersAgree, ReceiversAgree, TimerAgrees, SendersAgree
<1> QED BY <1>1, <1>2 DEF IInv, WaitsAgree, CallsAgree, WaitersAgree, SourcesAgree,
                          FatesAgree, EndsAgree

(* The same of a step.                                                     *)
LEMMA AssembleStep ==
  ASSUME IInv, CallsMove, WaitersAgree', SendersAgree', SourcesAgree',
         LinesMove, EndsAgree', FaultsAgree'
  PROVE  Step
<1>1. FatesAgree' BY LinesMoveKeeps
<1>2. CallsTyped' /\ \A i \in CallIds : CallAgrees(i)' BY CallsKept
<1>3. TypeOK'
  BY <1>2 DEF TypeOK, CallsTyped, WaitersAgree, ReceiversAgree, TimerAgrees,
              TimerState, SendersAgree, SourcesAgree, EndsAgree, FaultsAgree
<1>4. RegistrationsAgree'
  BY DEF RegistrationsAgree, WaitersAgree, ReceiversAgree, TimerAgrees, SendersAgree
<1> QED BY <1>1, <1>2, <1>3, <1>4 DEF IInv, WaitsAgree, CallsAgree, WaitersAgree,
                                SourcesAgree, FatesAgree, EndsAgree, Step

(* Sinks and phases.                                                       *)
LEMMA EndsNow == IInv => EndsAgree /\ FaultsAgree
BY DEF IInv, WaitsAgree, TypeOK, EndsAgree, FaultsAgree

(* Nothing begins or ends.                                                 *)
LEMMA EndsStay ==
  ASSUME IInv, UNCHANGED <<phase, sinkVars>>
  PROVE  EndsAgree'
<1>1. EndsAgree BY EndsNow
<1>2. phase' = phase /\ sink' = sink /\ detaches' = detaches BY DEF sinkVars
<1> QED BY <1>1, <1>2 DEF EndsAgree, SinksAgree, DetachesOnce

(* A channel ends.                                                         *)
LEMMA EndsChannel ==
  ASSUME IInv, NEW c \in Channels, NEW p \in {"closed", "aborted", "revoked"},
         phase' = [phase EXCEPT ![c] = p], UNCHANGED sinkVars
  PROVE  EndsAgree'
<1>1. EndsAgree BY EndsNow
<1>2. sink' = sink /\ detaches' = detaches BY DEF sinkVars
<1>3. \A s \in Subscriptions : s # c /\ s \in Sources
  BY SourceAssumption DEF Sources
<1>4. c \in Sources BY DEF Sources
<1>5. phase' \in [Sources -> {"open", "closed", "failed", "aborted", "revoked"}]
  BY <1>1 DEF EndsAgree
<1>6. /\ \A s \in Subscriptions : phase'[s] = phase[s]
      /\ \A s \in Channels : phase'[s] \in {phase[s], p}
  BY <1>1, <1>3 DEF EndsAgree, Sources
<1>7. SinksAgree' BY <1>1, <1>2, <1>6 DEF EndsAgree, SinksAgree
<1>8. DetachesOnce' BY <1>1, <1>2, <1>6 DEF EndsAgree, DetachesOnce
<1> QED BY <1>1, <1>2, <1>5, <1>7, <1>8 DEF EndsAgree

(* A subscription ends: detach is called here if attach has stored it.     *)
LEMMA EndsSubscription ==
  ASSUME IInv, NEW s \in Subscriptions, NEW p \in {"closed", "failed", "revoked"},
         phase' = [phase EXCEPT ![s] = p],
         \/ phase[s] = "open" /\ Subscribed(s) /\ Unsubscribe(s)
         \/ phase[s] # "open" /\ UNCHANGED sinkVars
  PROVE  EndsAgree'
<1>1. EndsAgree BY EndsNow
<1>2. s \in Sources /\ s \notin Channels
  BY SourceAssumption DEF Sources
<1>3. phase' \in [Sources -> {"open", "closed", "failed", "aborted", "revoked"}]
  BY <1>1 DEF EndsAgree
<1>4. /\ phase'[s] = p
      /\ \A r \in Sources : r # s => phase'[r] = phase[r]
  BY <1>1, <1>2 DEF EndsAgree
<1>5. /\ sink' \in [Subscriptions -> {"none", "attaching", "held", "gone"}]
      /\ detaches' \in [Subscriptions -> Nat]
      /\ \A r \in Subscriptions :
           r # s => sink'[r] = sink[r] /\ detaches'[r] = detaches[r]
      /\ \/ phase[s] = "open" /\ sink[s] = "held" /\ sink'[s] = "gone"
            /\ detaches'[s] = detaches[s] + 1
         \/ phase[s] = "open" /\ sink[s] \in {"attaching", "gone"}
            /\ sink'[s] = sink[s] /\ detaches'[s] = detaches[s]
         \/ phase[s] # "open" /\ sink'[s] = sink[s] /\ detaches'[s] = detaches[s]
  BY <1>1 DEF EndsAgree, Unsubscribe, Subscribed, sinkVars
<1>6. /\ sink[s] = "none" => phase[s] = "open"
      /\ sink[s] = "held" => phase[s] = "open"
      /\ sink[s] = "gone" => phase[s] # "open"
      /\ detaches[s] = IF phase[s] # "open" /\ sink[s] # "attaching" THEN 1 ELSE 0
  BY <1>1 DEF EndsAgree, SinksAgree, DetachesOnce
<1>7. SinksAgree'
  <2>1. \A c \in Channels : phase'[c] # "failed"
    BY <1>1, <1>2, <1>4 DEF EndsAgree, SinksAgree, Sources
  <2>2. ASSUME NEW r \in Subscriptions
        PROVE  /\ phase'[r] # "aborted"
               /\ sink'[r] = "none" => phase'[r] = "open"
               /\ sink'[r] = "held" => phase'[r] = "open"
               /\ sink'[r] = "gone" => phase'[r] # "open"
    <3>1. CASE r = s BY <1>4, <1>5, <1>6, <3>1
    <3>2. CASE r # s
      <4>1. phase'[r] = phase[r] /\ sink'[r] = sink[r]
        BY <1>4, <1>5, <3>2 DEF Sources
      <4> QED BY <1>1, <4>1 DEF EndsAgree, SinksAgree
    <3> QED BY <3>1, <3>2
  <2> QED BY <2>1, <2>2 DEF SinksAgree
<1>8. DetachesOnce'
  <2> SUFFICES ASSUME NEW r \in Subscriptions
               PROVE  detaches'[r] = IF phase'[r] # "open" /\ sink'[r] # "attaching"
                                     THEN 1 ELSE 0
    BY DEF DetachesOnce
  <2>1. CASE r = s BY <1>4, <1>5, <1>6, <2>1
  <2>2. CASE r # s
    <3>1. phase'[r] = phase[r] /\ sink'[r] = sink[r] /\ detaches'[r] = detaches[r]
      BY <1>4, <1>5, <2>2 DEF Sources
    <3> QED BY <1>1, <3>1 DEF EndsAgree, DetachesOnce
  <2> QED BY <2>1, <2>2
<1> QED BY <1>3, <1>5, <1>7, <1>8 DEF EndsAgree

(* A subscription is attached, or its registration returns.                *)
LEMMA EndsAttach ==
  ASSUME IInv, NEW s \in Subscriptions, Attach(s) \/ AttachReturns(s)
  PROVE  EndsAgree'
<1>1. EndsAgree BY EndsNow
<1>2. phase' = phase BY DEF Attach, AttachReturns, sourceVars
<1>3. /\ sink' \in [Subscriptions -> {"none", "attaching", "held", "gone"}]
      /\ detaches' \in [Subscriptions -> Nat]
      /\ \A r \in Subscriptions :
           r # s => sink'[r] = sink[r] /\ detaches'[r] = detaches[r]
      /\ \/ sink[s] = "none" /\ sink'[s] = "attaching" /\ detaches'[s] = detaches[s]
         \/ sink[s] = "attaching" /\ phase[s] = "open" /\ sink'[s] = "held"
            /\ detaches'[s] = detaches[s]
         \/ sink[s] = "attaching" /\ phase[s] # "open" /\ sink'[s] = "gone"
            /\ detaches'[s] = detaches[s] + 1
  BY <1>1 DEF EndsAgree, Attach, AttachReturns
<1>4. SinksAgree' BY <1>1, <1>2, <1>3 DEF EndsAgree, SinksAgree
<1>5. DetachesOnce'
  <2> SUFFICES ASSUME NEW r \in Subscriptions
               PROVE  detaches'[r] = IF phase'[r] # "open" /\ sink'[r] # "attaching"
                                     THEN 1 ELSE 0
    BY DEF DetachesOnce
  <2>1. detaches[r] = IF phase[r] # "open" /\ sink[r] # "attaching" THEN 1 ELSE 0
    BY <1>1 DEF EndsAgree, DetachesOnce
  <2>2. sink[r] = "none" => phase[r] = "open"
    BY <1>1 DEF EndsAgree, SinksAgree
  <2>3. CASE r = s BY <1>2, <1>3, <2>1, <2>2, <2>3
  <2>4. CASE r # s BY <1>2, <1>3, <2>1, <2>4
  <2> QED BY <2>3, <2>4
<1> QED BY <1>1, <1>2, <1>3, <1>4, <1>5 DEF EndsAgree

-----------------------------------------------------------------------------
(* Sends and emits.                                                        *)

\* What Sent may be told of a source.
Sendable(s, kind, status) ==
  \/ /\ kind = "send" /\ s \in Channels
     /\ status \in {"blocked", "accepted", "refused", "rejected"}
  \/ /\ kind = "emit" /\ s \in Subscriptions
     /\ status \in {"accepted", "dropped"}

\* Call n is a send or an emit at s that decides nobody.
Sending(n, s, kind, status) ==
  /\ Sendable(s, kind, status)
  /\ call' = [call EXCEPT ![n] = Sent(s, kind, status)]
  /\ UNCHANGED <<receivers, timer>>

(* A send or an emit that decides nobody.                                  *)
LEMMA AdmitSend ==
  ASSUME IInv, Admit, NEW n \in CallIds, n = NewCall,
         NEW s \in Sources, NEW kind \in {"send", "emit"}, NEW status \in Status,
         Sending(n, s, kind, status)
  PROVE  /\ CallsMove /\ WaitersAgree'
         /\ call'[n].source = s /\ call'[n].status = status
         /\ call'[n].kind = kind /\ call'[n].got = Nothing
         /\ \A i \in CallIds : i # n => call'[i] = call[i]
         /\ call[n].status = "unused" /\ call[n].got = Nothing
<1> USE DEF Sending
<1>1. call \in [CallIds -> Call] BY DEF IInv, WaitsAgree, TypeOK
<1>2. /\ call'[n] \in Call /\ call'[n].kind = kind /\ call'[n].source = s
      /\ call'[n].status = status /\ call'[n].arms = <<>>
      /\ call'[n].got = Nothing
  BY <1>1, SentFields
<1>3. \A i \in CallIds : i # n => call'[i] = call[i] BY <1>1
<1>4. Sends(n) BY <1>2 DEF Sends, Sendable
<1>5. call' = [i \in CallIds |-> call'[i]] BY <1>1
<1>6. \A i \in CallIds : i # n => Moves(i) BY <1>3 DEF Moves
<1>7. CallsMove BY <1>4, <1>5, <1>6 DEF CallsMove
<1>8. receivers' = Unregister(receivers, {}) /\ timer' = Stop({})
  BY NobodyDecided
<1>9. Decision({}) BY <1>3, <1>4, <1>7, <1>8 DEF Decision
<1>10. WaitersAgree' BY <1>8, <1>9, DecisionStops
<1>11. call[n].status = "unused" /\ call[n].got = Nothing BY Newest
<1> QED BY <1>2, <1>3, <1>7, <1>10, <1>11

(* A send or an emit that is turned away: the source has ended.            *)
LEMMA TurnedKept ==
  ASSUME IInv, Admit, NEW s \in Sources, NEW kind \in {"send", "emit"},
         NEW status \in Status,
         Sendable(s, kind, status), status \notin {"accepted", "blocked"},
         call' = [call EXCEPT ![NewCall] = Sent(s, kind, status)],
         UNCHANGED <<phase, messages, senders, receivers, timer, failures,
                     sinkVars, faults>>
  PROVE  Step
<1>1. PICK n \in CallIds : n = NewCall BY NewUnused
<1>2. Sending(n, s, kind, status) BY <1>1 DEF Sending
<1>3. /\ CallsMove /\ WaitersAgree'
      /\ call'[n].status = status /\ call'[n].got = Nothing
      /\ \A i \in CallIds : i # n => call'[i] = call[i]
      /\ call[n].status = "unused" /\ call[n].got = Nothing
  BY <1>1, <1>2, AdmitSend
<1>4. SendersAgree' BY <1>3, SendersStay
<1>5. messages' = [q \in Sources |-> messages'[q]]
  BY DEF IInv, WaitsAgree, TypeOK
<1>6. SourcesAgree' BY <1>5, MeetingsStay
<1>7. LinesMove
  <2>1. Shrinks(NoSource) BY <1>3 DEF Shrinks
  <2> QED BY <2>1 DEF LinesMove
<1>8. EndsAgree' BY EndsStay
<1>9. FaultsAgree' BY EndsNow DEF FaultsAgree
<1> QED BY <1>3, <1>4, <1>6, <1>7, <1>8, <1>9, AssembleStep

(* Buffer and Keep: nobody waits, and the message joins the buffer.        *)
LEMMA BufferKept ==
  ASSUME IInv, Admit, NEW s \in Sources, NEW kind \in {"send", "emit"},
         Sendable(s, kind, "accepted"), NoTaker(s), phase[s] = "open",
         call' = [call EXCEPT ![NewCall] = Sent(s, kind, "accepted")],
         NEW r, messages' = [messages EXCEPT ![s] = r],
         \/ r = Append(messages[s], NewCall) /\ Len(messages[s]) < Capacity[s]
         \/ r = <<NewCall>> /\ s \in Latest,
         UNCHANGED <<phase, senders, failures, sinkVars, faults>>
  PROVE  Step
<1>1. PICK n \in CallIds : n = NewCall BY NewUnused
<1>2. receivers[s] = {} /\ receivers \in [Sources -> SUBSET (CallIds \X Nat)]
      /\ messages \in [Sources -> Seq(CallIds)]
  BY Entries DEF NoTaker, IInv, WaitsAgree, TypeOK
<1>3. UNCHANGED <<receivers, timer>> BY <1>2 DEF NoTaker
<1>4. Sending(n, s, kind, "accepted") BY <1>1, <1>3 DEF Sending
<1>5. /\ CallsMove /\ WaitersAgree'
      /\ call'[n].status = "accepted" /\ call'[n].got = Nothing
      /\ call'[n].source = s
      /\ \A i \in CallIds : i # n => call'[i] = call[i]
      /\ call[n].status = "unused" /\ call[n].got = Nothing
  <2>1. PICK status \in Status : status = "accepted" BY DEF Status
  <2>2. /\ CallsMove /\ WaitersAgree'
        /\ call'[n].status = status /\ call'[n].got = Nothing
        /\ call'[n].source = s
        /\ \A i \in CallIds : i # n => call'[i] = call[i]
        /\ call[n].status = "unused" /\ call[n].got = Nothing
    BY <1>1, <1>4, <2>1, AdmitSend
  <2> QED BY <2>1, <2>2
<1>6. SendersAgree' BY <1>5, SendersStay
<1>7. s \in Channels => s \notin Latest BY SourceAssumption
<1>8. /\ messages[s] \in Seq(CallIds) /\ Len(messages[s]) \in Nat
      /\ Capacity[s] \in Nat
  BY Meeting
<1>9. senders[s] = {} BY <1>7, <1>8, Entries, Meeting
<1>10. /\ r \in Seq(CallIds)
       /\ s \in Channels => Len(r) <= Capacity[s]
  <2>1. CASE r = Append(messages[s], n) /\ Len(messages[s]) < Capacity[s]
    BY <1>8, <2>1, AppendProperties
  <2>2. CASE r = <<n>> /\ s \in Latest BY <1>7, <2>2
  <2> QED BY <1>1, <2>1, <2>2
<1>11. /\ messages' \in [Sources -> Seq(CallIds)] /\ messages'[s] = r
       /\ \A q \in Sources : q # s => messages'[q] = messages[q]
  BY <1>2, <1>10
<1>12. SourcesAgree'
  <2>1. ASSUME NEW q \in Sources
        PROVE  /\ senders'[q] # {} =>
                    /\ phase'[q] = "open" /\ receivers'[q] = {}
                    /\ Len(messages'[q]) = Capacity[q]
               /\ receivers'[q] # {} => phase'[q] = "open" /\ messages'[q] = <<>>
               /\ q \in Channels => Len(messages'[q]) <= Capacity[q]
               /\ phase'[q] \notin {"open", "closed"} => messages'[q] = <<>>
    <3>1. CASE q = s BY <1>2, <1>3, <1>9, <1>10, <1>11, <3>1
    <3>2. CASE q # s
      <4>1. messages'[q] = messages[q] BY <1>11, <3>2
      <4>2. NoMissedMeeting BY DEF IInv, WaitsAgree
      <4> QED BY <1>3, <4>1, <4>2 DEF NoMissedMeeting
    <3> QED BY <3>1, <3>2
  <2> QED BY <1>11, <2>1 DEF SourcesAgree, NoMissedMeeting
<1>13. \/ r = Append(messages[s], n)
       \/ r = <<n>> /\ s \in Latest
  BY <1>1
<1>14. LinesMove
  <2>1. Appends(s, n) BY <1>5, <1>9, <1>13 DEF Appends
  <2> QED BY <1>1, <2>1 DEF LinesMove
<1>15. EndsAgree' BY EndsStay
<1>16. FaultsAgree' BY EndsNow DEF FaultsAgree
<1> QED BY <1>5, <1>6, <1>12, <1>14, <1>15, <1>16, AssembleStep

(* Block: the buffer is full and nobody waits.                             *)
LEMMA BlockKept ==
  ASSUME IInv, Admit, NEW c \in Channels, phase[c] = "open", Block(c),
         UNCHANGED <<phase, failures, sinkVars, faults>>
  PROVE  Step
<1> USE DEF Block
<1>1. PICK n \in CallIds : n = NewCall BY NewUnused
<1>2. c \in Sources BY DEF Sources
<1>3. receivers[c] = {} /\ receivers \in [Sources -> SUBSET (CallIds \X Nat)]
      /\ messages \in [Sources -> Seq(CallIds)]
  BY <1>2, Entries DEF NoTaker, IInv, WaitsAgree, TypeOK
<1>4. UNCHANGED <<receivers, timer>> BY <1>3 DEF NoTaker
<1>5. Sendable(c, "send", "blocked") BY DEF Sendable
<1>6. Sending(n, c, "send", "blocked") BY <1>1, <1>4, <1>5 DEF Sending
<1>7. /\ CallsMove /\ WaitersAgree'
      /\ call'[n].status = "blocked" /\ call'[n].got = Nothing
      /\ call'[n].source = c
      /\ \A i \in CallIds : i # n => call'[i] = call[i]
      /\ call[n].status = "unused" /\ call[n].got = Nothing
  BY <1>1, <1>2, <1>6, AdmitSend DEF Status
<1>8. senders \in [Sources -> SUBSET CallIds]
  BY DEF IInv, WaitsAgree, TypeOK
<1>9. /\ senders' = [senders EXCEPT ![c] = @ \union {n}]
      /\ senders' \in [Sources -> SUBSET CallIds]
      /\ senders'[c] = senders[c] \union {n}
      /\ \A q \in Sources : q # c => senders'[q] = senders[q]
  BY <1>1, <1>2, <1>8
<1>10. SendersAgree'
  <2>1. ASSUME NEW i \in CallIds, NEW q \in Sources
        PROVE  i \in senders'[q] <=> call'[i].status = "blocked" /\ call'[i].source = q
    <3>1. i \in senders[q] <=> call[i].status = "blocked" /\ call[i].source = q
      BY DEF IInv, WaitsAgree, RegistrationsAgree
    <3> QED BY <1>7, <1>9, <3>1
  <2> QED BY <1>9, <2>1 DEF SendersAgree
<1>11. SourcesAgree'
  <2>1. ASSUME NEW q \in Sources
        PROVE  /\ senders'[q] # {} =>
                    /\ phase'[q] = "open" /\ receivers'[q] = {}
                    /\ Len(messages'[q]) = Capacity[q]
               /\ receivers'[q] # {} => phase'[q] = "open" /\ messages'[q] = <<>>
               /\ q \in Channels => Len(messages'[q]) <= Capacity[q]
               /\ phase'[q] \notin {"open", "closed"} => messages'[q] = <<>>
    <3>1. NoMissedMeeting BY DEF IInv, WaitsAgree
    <3>2. CASE q = c
      <4>1. Len(messages[c]) = Capacity[c]
        BY <1>2, <3>1, Meeting DEF NoMissedMeeting
      <4> QED BY <1>2, <1>3, <1>4, <3>1, <3>2, <4>1 DEF NoMissedMeeting
    <3>3. CASE q # c BY <1>4, <1>9, <3>1, <3>3 DEF NoMissedMeeting
    <3> QED BY <3>2, <3>3
  <2> QED BY <1>3, <2>1 DEF SourcesAgree, NoMissedMeeting
<1>12. LinesMove
  <2>1. Blocks(c, n) BY <1>7, <1>9 DEF Blocks
  <2> QED BY <1>1, <1>2, <2>1 DEF LinesMove
<1>13. EndsAgree' BY EndsStay
<1>14. FaultsAgree' BY EndsNow DEF FaultsAgree
<1> QED BY <1>7, <1>10, <1>11, <1>12, <1>13, <1>14, AssembleStep

(* Hand: the first of the queue is decided with the message.               *)
LEMMA HandKept ==
  ASSUME IInv, Admit, NEW s \in Sources, NEW kind \in {"send", "emit"},
         Sendable(s, kind, "accepted"), Hand(s, kind),
         UNCHANGED <<phase, failures, sinkVars, faults>>
  PROVE  Step
<1>1. PICK n \in CallIds : n = NewCall BY NewUnused
<1>2. PICK e : e = FirstWilling(s) OBVIOUS
<1>3. e \in receivers[s] /\ \A f \in receivers[s] : f = e \/ Before(e, f)
  BY <1>2, FirstWillingFacts DEF Hand
<1>4. PICK k \in CallIds : k = e[1] BY <1>3, Entries
<1>5. Pending(k) /\ e[2] \in Nat BY <1>3, <1>4, Entries
<1>6. call[n].status = "unused" /\ call[n].got = Nothing BY <1>1, Newest
<1>7. k # n BY <1>5, <1>6 DEF Pending
<1>8. call \in [CallIds -> Call] /\ receivers \in [Sources -> SUBSET (CallIds \X Nat)]
  BY DEF IInv, WaitsAgree, TypeOK
<1>9. call' = [call EXCEPT ![n] = Sent(s, kind, "accepted"),
                           ![k] = Committed(@, e[2], n)]
  BY <1>1, <1>2, <1>4 DEF Hand
<1>10. /\ call'[n] = Sent(s, kind, "accepted")
       /\ call'[k] = Committed(call[k], e[2], n)
       /\ \A i \in CallIds : i # n /\ i # k => call'[i] = call[i]
       /\ call' = [i \in CallIds |-> call'[i]]
  BY <1>7, <1>8, <1>9
<1>11. /\ call'[n] \in Call /\ call'[n].kind = kind /\ call'[n].source = s
       /\ call'[n].status = "accepted" /\ call'[n].arms = <<>>
       /\ call'[n].got = Nothing
  BY <1>10, SentFields DEF Status
<1>12. /\ call'[k] \in Call /\ call'[k].kind = call[k].kind
       /\ call'[k].source = call[k].source /\ call'[k].arms = call[k].arms
       /\ call'[k].status = "committed" /\ call'[k].got = n
  <2>1. call[k] \in Call /\ n \in CallIds \union {Nothing, Closed} BY <1>8
  <2> QED BY <1>5, <1>10, <2>1, DecidedFields
<1>13. Sends(n) BY <1>11 DEF Sends, Sendable
<1>14. \A i \in CallIds : i # n => Moves(i) BY <1>5, <1>10, <1>12 DEF Moves
<1>15. CallsMove BY <1>1, <1>10, <1>13, <1>14 DEF CallsMove
<1>16. receivers' = Unregister(receivers, {k})
  <2> DEFINE Q == [receivers EXCEPT ![s] = {f \in @ : Before(e, f)}]
  <2>1. receivers' = Unregister(Q, {k}) BY <1>2, <1>4 DEF Hand
  <2>2. ASSUME NEW q \in Sources
        PROVE  {f \in Q[q] : f[1] \notin {k}} = {f \in receivers[q] : f[1] \notin {k}}
    <3>1. CASE q # s BY <1>8, <3>1
    <3>2. CASE q = s
      <4>1. Q[s] = {f \in receivers[s] : Before(e, f)} BY <1>8
      <4>2. \A f \in receivers[s] : f[1] # k => Before(e, f) BY <1>3, <1>4
      <4> QED BY <3>2, <4>1, <4>2
    <3> QED BY <3>1, <3>2
  <2> HIDE DEF Q
  <2> QED BY <2>1, <2>2 DEF Unregister
<1>17. timer' = Stop({k}) BY <1>2, <1>4 DEF Hand
<1>18. Decision({k}) BY <1>1, <1>5, <1>10, <1>12, <1>13, <1>15, <1>16 DEF Decision
<1>19. WaitersAgree' BY <1>17, <1>18, DecisionStops
<1>20. UNCHANGED <<messages, senders>> BY DEF Hand
<1>21. SendersAgree'
  BY <1>5, <1>6, <1>10, <1>11, <1>12, <1>15, <1>20, SendersStay
  DEF Pending
<1>22. SourcesAgree'
  <2>1. messages' = [q \in Sources |-> messages'[q]]
    BY <1>20 DEF IInv, WaitsAgree, TypeOK
  <2>2. \A q \in Sources : receivers'[q] \subseteq receivers[q]
    BY <1>16 DEF Unregister
  <2> QED BY <1>20, <2>1, <2>2, MeetingsStay
<1>23. messages[s] = <<>> /\ senders[s] = {} BY <1>3, Meeting
<1>24. call'[k].status # "accepted" BY <1>12
<1>25. LinesMove
  <2>1. \A f \in receivers[s] : k <= f[1]
    BY <1>3, <1>4, Entries DEF Before
  <2>2. Hands(s, n, k)
    BY <1>5, <1>10, <1>11, <1>12, <1>20, <1>23, <1>24, <2>1 DEF Hands
  <2> QED BY <1>1, <2>2 DEF LinesMove
<1>26. EndsAgree' BY EndsStay
<1>27. FaultsAgree' BY EndsNow DEF FaultsAgree
<1> QED BY <1>15, <1>19, <1>21, <1>22, <1>25, <1>26, <1>27, AssembleStep

-----------------------------------------------------------------------------
(* Aborts and clocks.                                                      *)

(* The signal of a blocked send: it leaves its queue.                      *)
LEMMA AbortSendKept ==
  ASSUME IInv, NEW k \in CallIds, AbortSend(k)
  PROVE  Step
<1>1. /\ calls' = calls /\ call[k].status = "blocked"
      /\ call' = [call EXCEPT ![k].status = "rejected"]
      /\ senders' = [senders EXCEPT ![call[k].source] = @ \ {k}]
      /\ UNCHANGED <<receivers, timer, messages, phase, failures, sinkVars, faults>>
  BY DEF AbortSend, timerVars
<1>2. call \in [CallIds -> Call] /\ senders \in [Sources -> SUBSET CallIds]
  BY DEF IInv, WaitsAgree, TypeOK
<1>3. /\ call'[k] = [call[k] EXCEPT !.status = "rejected"]
      /\ \A i \in CallIds : i # k => call'[i] = call[i]
      /\ call' = [i \in CallIds |-> call'[i]]
  BY <1>1, <1>2
<1>4. /\ call'[k] \in Call /\ call'[k].kind = call[k].kind
      /\ call'[k].source = call[k].source /\ call'[k].arms = call[k].arms
      /\ call'[k].status = "rejected" /\ call'[k].got = call[k].got
  <2>1. call[k] \in Call /\ "rejected" \in Status BY <1>2 DEF Status
  <2> QED BY <1>3, <2>1, StatusFields
<1>5. \A i \in CallIds : Moves(i) BY <1>1, <1>3, <1>4 DEF Moves
<1>6. calls' = calls /\ call[k].status = "blocked" BY <1>1
<1>7. CallsMove BY <1>3, <1>5, <1>6 DEF CallsMove
<1>8. UNCHANGED <<receivers, timer, messages, phase, failures, sinkVars, faults>>
  BY <1>1
<1>9. receivers' = Unregister(receivers, {}) /\ timer' = Stop({})
  BY <1>8, NobodyDecided
<1>10. Decision({}) BY <1>3, <1>7, <1>9, <1>6 DEF Decision
<1>11. WaitersAgree' BY <1>9, <1>10, DecisionStops
<1>12. PICK S : S = {k} OBVIOUS
<1>13. \A s \in Sources : senders'[s] = senders[s] \ S
  <2> SUFFICES ASSUME NEW s \in Sources PROVE senders'[s] = senders[s] \ S OBVIOUS
  <2>1. k \in senders[s] => call[k].source = s BY Entries
  <2> QED BY <1>1, <1>2, <1>12, <2>1
<1>14. senders' = [s \in Sources |-> senders[s] \ S]
  <2>1. senders' = [s \in Sources |-> senders'[s]] BY <1>1, <1>2
  <2> QED BY <1>13, <2>1
<1>15. \A i \in CallIds :
         call'[i].status = "blocked" <=> call[i].status = "blocked" /\ i \notin S
  BY <1>1, <1>3, <1>4, <1>12
<1>16. SendersAgree' BY <1>7, <1>14, <1>15, SendersLeave
<1>17. messages' = [q \in Sources |-> messages'[q]]
  BY <1>8 DEF IInv, WaitsAgree, TypeOK
<1>18. \A s \in Sources : senders'[s] \subseteq senders[s] BY <1>13
<1>19. SourcesAgree' BY <1>8, <1>17, <1>18, MeetingsStay
<1>20. LinesMove
  <2>1. PICK s \in Sources : s = call[k].source
    <3>1. CallAgrees(k) /\ call[k].kind \in {"none", "send", "emit", "wait"}
      BY CallTypes DEF IInv, WaitsAgree, CallsAgree
    <3> QED BY <1>1, <3>1 DEF CallAgrees, Sources
  <2>2. \A q \in Sources : q # s => senders'[q] = senders[q] BY <1>1, <1>2, <2>1
  <2>3. Shrinks(s) BY <1>3, <1>4, <1>8, <1>18, <2>2 DEF Shrinks
  <2> QED BY <2>3 DEF LinesMove
<1>21. EndsAgree' BY <1>8, EndsStay
<1>22. FaultsAgree' BY <1>8, EndsNow DEF FaultsAgree
<1> QED BY <1>7, <1>11, <1>16, <1>19, <1>20, <1>21, <1>22, AssembleStep

(* Nobody sends and no source changes: a wait goes on by itself.           *)
LEMMA WaitKept ==
  ASSUME IInv, calls' = calls, NEW k \in CallIds,
         call' = [i \in CallIds |-> call'[i]],
         \A i \in CallIds : i # k => call'[i] = call[i],
         Moves(k), call[k].status \in {"pending", "committed", "failing"},
         call'[k].status \notin {"accepted", "blocked"},
         call'[k].got = call[k].got \/ call'[k].got \notin CallIds,
         WaitersAgree', FaultsAgree',
         \A s \in Sources : receivers'[s] \subseteq receivers[s],
         UNCHANGED <<phase, messages, senders, sinkVars>>
  PROVE  Step
<1>1. \A i \in CallIds : Moves(i) BY DEF Moves
<1>2. CallsMove BY <1>1 DEF CallsMove
<1>3. SendersAgree' BY <1>2, SendersStay
<1>4. messages' = [q \in Sources |-> messages'[q]]
  BY DEF IInv, WaitsAgree, TypeOK
<1>5. SourcesAgree' BY <1>4, MeetingsStay
<1>6. LinesMove
  <2>1. Shrinks(NoSource) BY DEF Shrinks
  <2> QED BY <2>1 DEF LinesMove
<1>7. EndsAgree' BY EndsStay
<1> QED BY <1>2, <1>3, <1>5, <1>6, <1>7, AssembleStep

(* Abort, clock or cleanup: what decides one wait from outside the queues. *)
LEMMA DecideKept ==
  ASSUME IInv, calls' = calls, NEW k \in CallIds, Pending(k),
         call' = [i \in CallIds |-> call'[i]],
         \A i \in CallIds : i # k => call'[i] = call[i],
         NEW a \in Nat,
         call'[k] \in {Committed(call[k], a, Nothing), Failing(call[k])},
         receivers' = Unregister(receivers, {k}),
         timer' \in {Stop({k}), [Stop({k}) EXCEPT ![k][a] = "drained"]},
         FaultsAgree', UNCHANGED <<phase, messages, senders, sinkVars>>
  PROVE  Step
<1>1. call[k] \in Call BY DEF IInv, WaitsAgree, TypeOK
<1>2. call[k].got = Nothing
  BY DEF IInv, CallsAgree, CallAgrees, Pending
<1>3. /\ call'[k] \in Call /\ call'[k].kind = call[k].kind
      /\ call'[k].source = call[k].source /\ call'[k].arms = call[k].arms
      /\ call'[k].status \in {"committed", "failing"}
      /\ call'[k].got = call[k].got
  BY <1>1, <1>2, DecidedFields
<1>4. Moves(k) BY <1>3 DEF Moves
<1>5. \A i \in CallIds : Moves(i) BY <1>4 DEF Moves
<1>6. CallsMove BY <1>5 DEF CallsMove
<1>7. Decision({k}) BY <1>3, <1>6 DEF Decision
<1>8. WaitersAgree'
  <2>1. PICK st : st = Stop({k}) OBVIOUS
  <2>2. /\ st = [i \in CallIds |-> st[i]] /\ st[k] = StopTimers(timer[k])
        /\ \A i \in CallIds : i # k => st[i] = timer[i]
    BY <2>1 DEF Stop
  <2>3. timer' \in {st, [st EXCEPT ![k][a] = "drained"]} BY <2>1
  <2>4. /\ timer' = [i \in CallIds |-> timer'[i]]
        /\ \A i \in CallIds : i # k => timer'[i] = timer[i]
        /\ timer'[k] \in {st[k], [st[k] EXCEPT ![a] = "drained"]}
    BY <2>2, <2>3
  <2>5. \E b : timer'[k] \in {StopTimers(timer[k]),
                              [StopTimers(timer[k]) EXCEPT ![b] = "drained"]}
    BY <2>2, <2>4
  <2> QED BY <1>7, <2>4, <2>5, DecisionTimers
<1>9. \A s \in Sources : receivers'[s] \subseteq receivers[s] BY DEF Unregister
<1>10. call[k].status \in {"pending", "committed", "failing"} BY DEF Pending
<1>11. call'[k].status \notin {"accepted", "blocked"} BY <1>3
<1> QED BY <1>3, <1>4, <1>8, <1>9, <1>10, <1>11, WaitKept

(* The clock that is left to drain, and the return of a selection.         *)
LEMMA DrainKept ==
  ASSUME IInv, NEW k \in CallIds, NEW a \in DOMAIN timer[k],
         TimerDrains(k, a) \/ TimerSpoils(k, a)
  PROVE  Step
<1>1. /\ timer[k][a] = "aborted" /\ timer' = [timer EXCEPT ![k][a] = "drained"]
      /\ UNCHANGED <<calls, call, phase, messages, senders, receivers, sinkVars>>
      /\ FaultsAgree'
  <2>1. FaultsAgree /\ faults \in Nat /\ MaxFaults \in Nat
    BY EndsNow, BoundAssumption DEF IInv, WaitsAgree, TypeOK
  <2> QED BY <2>1 DEF TimerDrains, TimerSpoils, Fault, FaultsAgree, sourceVars
<1>2. timer = [i \in CallIds |-> timer[i]] /\ call \in [CallIds -> Call]
  BY DEF IInv, CallsAgree, WaitsAgree, TypeOK
<1>3. /\ timer' = [i \in CallIds |-> timer'[i]]
      /\ timer'[k] = [timer[k] EXCEPT ![a] = "drained"]
      /\ \A i \in CallIds : i # k => timer'[i] = timer[i]
  BY <1>1, <1>2
<1>4. ReceiversAgree'
  <2>1. PICK W : W = {} OBVIOUS
  <2>2. Decides(W) BY <1>1, <2>1, NobodyDecided DEF Decides, Pending
  <2> QED BY <2>2, RegistrationsStay
<1>5. ASSUME NEW i \in CallIds PROVE TimerAgrees(i)'
  <2>1. CASE i # k BY <1>1, <1>3, <2>1, TimersStay DEF Pending
  <2>2. CASE i = k
    <3>1. TimerAgrees(k)
      BY DEF IInv, WaitsAgree, TypeOK, RegistrationsAgree, TimerAgrees, TimerState
    <3>2. /\ timer'[k] \in [TimerArms(call[k].arms) -> TimerState]
          /\ \A b \in DOMAIN timer'[k] :
               b \in DOMAIN timer[k] /\ timer'[k][b] \in {timer[k][b], "drained"}
      BY <1>3, <3>1 DEF TimerAgrees, TimerState
    <3> QED BY <1>1, <2>2, <3>1, <3>2 DEF TimerAgrees, Pending
  <2> QED BY <2>1, <2>2
<1>6. WaitersAgree' BY <1>3, <1>4, <1>5 DEF WaitersAgree
<1>7. call[k].status \in {"committed", "failing"}
  BY <1>1 DEF IInv, WaitsAgree, RegistrationsAgree
<1>8. call' = [i \in CallIds |-> call'[i]] BY <1>1, <1>2
<1>9. Moves(k) BY <1>1 DEF Moves
<1> QED BY <1>1, <1>6, <1>7, <1>8, <1>9, WaitKept

(* Return: every timer has drained by now.                                 *)
LEMMA ReturnKept ==
  ASSUME IInv, NEW k \in CallIds, Return(k)
  PROVE  Step
<1>1. call \in [CallIds -> Call] BY DEF IInv, WaitsAgree, TypeOK
<1>2. UNCHANGED <<calls, phase, messages, senders, receivers, timer, failures,
                  faults, sinkVars>>
  BY DEF Return, sourceVars, timerVars
<1>3. PICK st \in {"received", "rejected"} : call' = [call EXCEPT ![k].status = st]
  BY <1>1 DEF Return
<1>4. /\ call'[k] = [call[k] EXCEPT !.status = st]
      /\ \A i \in CallIds : i # k => call'[i] = call[i]
      /\ call' = [i \in CallIds |-> call'[i]]
  BY <1>1, <1>3
<1>5. /\ call'[k] \in Call /\ call'[k].kind = call[k].kind
      /\ call'[k].source = call[k].source /\ call'[k].arms = call[k].arms
      /\ call'[k].status = st /\ call'[k].got = call[k].got
  <2>1. call[k] \in Call /\ st \in Status BY <1>1 DEF Status
  <2> QED BY <1>4, <2>1, StatusFields
<1>6. call[k].status \in {"committed", "failing"} BY DEF Return
<1>7. Moves(k) BY <1>5, <1>6 DEF Moves
<1>8. ReceiversAgree'
  <2>1. PICK W : W = {} OBVIOUS
  <2>2. \A i \in CallIds : /\ Pending(i)' <=> Pending(i) /\ i \notin W
                           /\ Pending(i)' => call'[i].arms = call[i].arms
    BY <1>4, <1>5, <1>6, <2>1 DEF Pending
  <2>3. Decides(W) BY <1>2, <2>1, <2>2, NobodyDecided DEF Decides
  <2> QED BY <2>3, RegistrationsStay
<1>9. ASSUME NEW i \in CallIds PROVE TimerAgrees(i)'
  <2>1. CASE i # k BY <1>2, <1>4, <2>1, TimersStay DEF Pending
  <2>2. CASE i = k
    <3>1. TimerAgrees(k)
      BY DEF IInv, WaitsAgree, TypeOK, RegistrationsAgree, TimerAgrees, TimerState
    <3>2. \A b \in DOMAIN timer[k] : timer[k][b] \notin {"sleeping", "aborted"}
      BY DEF Return, Drained
    <3> QED BY <1>2, <1>5, <2>2, <3>1, <3>2 DEF TimerAgrees
  <2> QED BY <2>1, <2>2
<1>10. timer' = [i \in CallIds |-> timer'[i]] BY <1>2 DEF IInv, CallsAgree
<1>11. WaitersAgree' BY <1>8, <1>9, <1>10 DEF WaitersAgree
<1>12. FaultsAgree' BY <1>2, EndsNow DEF FaultsAgree
<1>13. call'[k].status \notin {"accepted", "blocked"} BY <1>5
<1>14. \A s \in Sources : receivers'[s] \subseteq receivers[s] BY <1>2
<1> QED BY <1>2, <1>4, <1>5, <1>6, <1>7, <1>11, <1>12, <1>13, <1>14, WaitKept

-----------------------------------------------------------------------------
(* The end of a source.                                                    *)

\* What becomes of the waits at s when s ends.
Settled(s, settled) ==
  /\ settled = [i \in CallIds |-> settled[i]]
  /\ \A i \in CallIds :
       /\ i \notin WaitingAt(s) => settled[i] = call[i]
       /\ i \in WaitingAt(s) =>
            settled[i] \in {Committed(call[i], FirstArm(i, s), Closed),
                            Failing(call[i])}

(* close, fail and the abort of a scope decide every wait in the queue.    *)
LEMMA SettledHow ==
  ASSUME NEW s \in Sources, call \in [CallIds -> Call]
  PROVE  Settled(s, Woken(s)) /\ Settled(s, Rejecting(WaitingAt(s)))
BY DEF Settled, Woken, Rejecting

(* Whoever waits at s is decided, and leaves every queue.                  *)
LEMMA Leaving ==
  ASSUME IInv, NEW s \in Sources
  PROVE  /\ Unregister([receivers EXCEPT ![s] = {}], WaitingAt(s))
              = Unregister(receivers, WaitingAt(s))
         /\ \A e \in receivers[s] : e[1] \in WaitingAt(s)
<1>1. receivers \in [Sources -> SUBSET (CallIds \X Nat)]
  BY DEF IInv, WaitsAgree, TypeOK
<1>2. \A e \in receivers[s] : e[1] \in WaitingAt(s) BY Entries DEF WaitingAt
<1> DEFINE Q == [receivers EXCEPT ![s] = {}]
           W == WaitingAt(s)
<1>3. ASSUME NEW q \in Sources
      PROVE  {f \in Q[q] : f[1] \notin W} = {f \in receivers[q] : f[1] \notin W}
  <2>1. CASE q # s BY <1>1, <2>1
  <2>2. CASE q = s
    <3>1. Q[s] = {} BY <1>1
    <3> QED BY <1>2, <2>2, <3>1
  <2> QED BY <2>1, <2>2
<1> HIDE DEF Q, W
<1>4. Unregister(Q, W) = Unregister(receivers, W) BY <1>3 DEF Unregister
<1> QED BY <1>2, <1>4 DEF Q, W

(* A source ends: its waits are decided, its senders let go.               *)
LEMMA SettleKept ==
  ASSUME IInv, NEW s \in Sources, NEW settled, Settled(s, settled),
         NEW status \in {"refused", "rejected"}, Settle(s, settled, status),
         calls' = calls, NEW p, phase' = [phase EXCEPT ![s] = p],
         phase[s] \in {"open", "closed"},
         \/ p = "closed" /\ messages' = messages
         \/ p \notin {"open", "closed"} /\ messages' = [messages EXCEPT ![s] = <<>>],
         EndsAgree', FaultsAgree'
  PROVE  Step
<1> DEFINE W == WaitingAt(s)
           S == senders[s]
<1>1. /\ call \in [CallIds -> Call] /\ senders \in [Sources -> SUBSET CallIds]
      /\ phase = [q \in Sources |-> phase[q]]
      /\ messages = [q \in Sources |-> messages[q]]
  BY DEF IInv, WaitsAgree, TypeOK
<1>2. /\ call' = Finish(settled, S, status)
      /\ senders' = [senders EXCEPT ![s] = {}]
      /\ receivers' = Unregister(receivers, W) /\ timer' = Stop(W)
  BY Leaving DEF Settle
<1>3. ASSUME NEW i \in CallIds
      PROVE  /\ settled[i] \in Call /\ settled[i].kind = call[i].kind
             /\ settled[i].source = call[i].source /\ settled[i].arms = call[i].arms
             /\ i \in W => /\ Pending(i) /\ settled[i].status \in {"committed", "failing"}
                           /\ settled[i].got \notin CallIds
                           /\ settled[i].status = "failing" =>
                                settled[i].got = call[i].got
             /\ i \notin W => settled[i] = call[i]
  <2>1. CASE i \notin W BY <1>1, <2>1 DEF Settled
  <2>2. CASE i \in W
    <3>1. FirstArm(i, s) \in Nat /\ Pending(i) BY <2>2, FirstArmFacts
    <3>2. call[i] \in Call BY <1>1
    <3>3. call[i].got = Nothing
      BY <3>1 DEF IInv, CallsAgree, CallAgrees, Pending
    <3>4. Closed \in CallIds \union {Nothing, Closed} OBVIOUS
    <3>5. CASE settled[i] = Committed(call[i], FirstArm(i, s), Closed)
      <4>1. PICK a \in Nat : a = FirstArm(i, s) BY <3>1
      <4>2. PICK c \in Call : c = call[i] BY <3>2
      <4>3. settled[i] = Committed(c, a, Closed) BY <3>5, <4>1, <4>2
      <4>4. /\ settled[i] \in Call /\ settled[i].kind = c.kind
            /\ settled[i].source = c.source /\ settled[i].arms = c.arms
            /\ settled[i].status = "committed" /\ settled[i].got = Closed
        BY <3>4, <4>3, DecidedFields
      <4> QED BY <2>2, <3>1, <4>2, <4>4, Numbers
    <3>6. CASE settled[i] = Failing(call[i])
      BY <2>2, <3>1, <3>2, <3>3, <3>4, <3>6, DecidedFields, Numbers
    <3> QED BY <2>2, <3>5, <3>6 DEF Settled
  <2> QED BY <2>1, <2>2
<1>4. settled \in [CallIds -> Call] BY <1>3 DEF Settled
<1>5. \A i \in S : i \in CallIds /\ call[i].status = "blocked" /\ i \notin W
  BY <1>3, Entries DEF Pending
<1>6. status \in Status BY DEF Status
<1>7. /\ call' \in [CallIds -> Call]
      /\ \A i \in CallIds :
           /\ i \notin S => call'[i] = settled[i]
           /\ call'[i].kind = settled[i].kind /\ call'[i].source = settled[i].source
           /\ call'[i].arms = settled[i].arms /\ call'[i].got = settled[i].got
           /\ i \in S => call'[i].status = status
  BY <1>2, <1>4, <1>6, FinishFields
<1>8. ASSUME NEW i \in CallIds
      PROVE  /\ Moves(i)
             /\ i \in W => call'[i].status \in {"committed", "failing"}
             /\ i \notin W => call'[i] = call[i] \/ call[i].status = "blocked"
             /\ call'[i].status = "blocked" <=> call[i].status = "blocked" /\ i \notin S
             /\ call'[i].status = "accepted" => call[i].status = "accepted"
             /\ call'[i].got = call[i].got \/ call'[i].got \notin CallIds
  <2>1. CASE i \in W
    <3>1. i \notin S BY <1>3, <1>5, <2>1 DEF Pending
    <3>2. call'[i] = settled[i] BY <1>7, <3>1
    <3> QED BY <1>3, <2>1, <3>2 DEF Moves, Pending
  <2>2. CASE i \in S BY <1>3, <1>5, <1>7, <2>2 DEF Moves
  <2>3. CASE i \notin W /\ i \notin S
    <3>1. call'[i] = call[i] BY <1>3, <1>7, <2>3
    <3> QED BY <2>3, <3>1 DEF Moves
  <2> QED BY <2>1, <2>2, <2>3
<1>9. call' = [i \in CallIds |-> call'[i]] BY <1>7
<1>10. CallsMove BY <1>8, <1>9 DEF CallsMove
<1>11. \A i \in W : i \in CallIds /\ Pending(i) BY FirstArmFacts
<1>12. Decision(W) BY <1>2, <1>8, <1>10, <1>11 DEF Decision
<1>13. WaitersAgree' BY <1>2, <1>12, DecisionStops
<1>14. senders' = [q \in Sources |-> senders[q] \ S]
  <2>1. ASSUME NEW q \in Sources PROVE senders'[q] = senders[q] \ S
    <3>1. CASE q = s BY <1>1, <1>2, <3>1
    <3>2. CASE q # s
      <4>1. \A i \in senders[q] : i \notin S
        <5>1. \A i \in senders[q] : call[i].source = q BY Entries
        <5>2. \A i \in S : call[i].source = s BY Entries
        <5> QED BY <3>2, <5>1, <5>2
      <4> QED BY <1>1, <1>2, <3>2, <4>1
    <3> QED BY <3>1, <3>2
  <2>2. senders' = [q \in Sources |-> senders'[q]] BY <1>1, <1>2
  <2> HIDE DEF S
  <2> QED BY <2>1, <2>2
<1>15. SendersAgree'
  <2>1. PICK T : T = S OBVIOUS
  <2> QED BY <1>8, <1>10, <1>14, <2>1, SendersLeave
<1>16. /\ phase'[s] = p /\ receivers'[s] = {} /\ senders'[s] = {}
       /\ \A q \in Sources :
            /\ q # s => phase'[q] = phase[q] /\ messages'[q] = messages[q]
            /\ senders'[q] \subseteq senders[q]
            /\ receivers'[q] \subseteq receivers[q]
       /\ \/ p = "closed" /\ messages'[s] = messages[s]
          \/ p \notin {"open", "closed"} /\ messages'[s] = <<>>
       /\ messages' = [q \in Sources |-> messages'[q]]
  <2>1. receivers'[s] = {} BY <1>2, Leaving DEF Unregister
  <2>2. \A q \in Sources : receivers'[q] \subseteq receivers[q]
    BY <1>2 DEF Unregister
  <2> QED BY <1>1, <1>14, <2>1, <2>2
<1>17. SourcesAgree' BY <1>16, MeetingsStay
<1>18. \A q \in Sources :
         /\ messages'[q] \in {messages[q], <<>>} /\ senders'[q] \subseteq senders[q]
         /\ phase'[q] \in {"open", "closed"} =>
              phase[q] \in {"open", "closed"} /\ messages'[q] = messages[q]
  BY <1>16
<1>19. \A q \in Sources : q # s => senders'[q] = senders[q] BY <1>1, <1>2
<1>20. LinesMove
  <2>1. Shrinks(s) BY <1>8, <1>16, <1>18, <1>19 DEF Shrinks
  <2> QED BY <2>1 DEF LinesMove
<1> QED BY <1>10, <1>13, <1>15, <1>17, <1>20, AssembleStep

(* Nothing but the phase or a buffer of a source that has ended changes.   *)
LEMMA StandKept ==
  ASSUME IInv,
         UNCHANGED <<calls, call, senders, receivers, timer, failures, faults>>,
         messages' = [q \in Sources |-> messages'[q]],
         NEW s \in Sources \union {NoSource},
         \A q \in Sources :
           \/ phase'[q] = phase[q] /\ messages'[q] = messages[q]
           \/ /\ phase[q] # "open" /\ phase'[q] \notin {"open", "closed"}
              /\ q = s /\ messages'[q] = <<>>,
         EndsAgree'
  PROVE  Step
<1>1. call' = [i \in CallIds |-> call'[i]] BY DEF IInv, WaitsAgree, TypeOK
<1>2. \A i \in CallIds : Moves(i) BY DEF Moves
<1>3. CallsMove BY <1>1, <1>2 DEF CallsMove
<1>4. receivers' = Unregister(receivers, {}) /\ timer' = Stop({})
  BY NobodyDecided
<1>5. Decision({}) BY <1>3, <1>4 DEF Decision
<1>6. WaitersAgree' BY <1>4, <1>5, DecisionStops
<1>7. SendersAgree' BY <1>3, SendersStay
<1>8. \A q \in Sources : phase[q] # "open" => senders[q] = {} /\ receivers[q] = {}
  BY Meeting
<1>9. SourcesAgree' BY <1>8, MeetingsStay
<1>10. LinesMove
  <2>1. Shrinks(s) BY <1>8 DEF Shrinks
  <2> QED BY <2>1 DEF LinesMove
<1>11. FaultsAgree' BY EndsNow DEF FaultsAgree
<1> QED BY <1>3, <1>6, <1>7, <1>9, <1>10, <1>11, AssembleStep

(* close of a channel, of a subscription and of its sink.                  *)
LEMMA CloseKept ==
  ASSUME IInv, NEW s \in Sources, Close(s)
  PROVE  Step
<1>1. call \in [CallIds -> Call] BY DEF IInv, WaitsAgree, TypeOK
<1>2. Settled(s, Woken(s)) BY <1>1, SettledHow
<1>3. /\ calls' = calls /\ messages' = messages /\ phase[s] = "open"
      /\ phase' = [phase EXCEPT ![s] = "closed"]
      /\ Settle(s, Woken(s), "refused") /\ Unsubscribe(s)
      /\ failures' = failures /\ faults' = faults
      /\ s \in Subscriptions => Subscribed(s)
  BY DEF Close
<1>4. EndsAgree'
  <2>1. CASE s \in Channels
    <3>1. s \notin Subscriptions BY <2>1, SourceAssumption
    <3>2. UNCHANGED sinkVars BY <1>3, <3>1 DEF Unsubscribe
    <3> QED BY <1>3, <2>1, <3>2, EndsChannel
  <2>2. CASE s \in Subscriptions BY <1>3, <2>2, EndsSubscription
  <2> QED BY <2>1, <2>2 DEF Sources
<1>5. FaultsAgree' BY <1>3, EndsNow DEF FaultsAgree
<1> QED BY <1>2, <1>3, <1>4, <1>5, SettleKept

(* The scope of a channel is cancelled.                                    *)
LEMMA AbortScopeKept ==
  ASSUME IInv, NEW c \in Channels, AbortScope(c)
  PROVE  Step
<1>1. call \in [CallIds -> Call] /\ c \in Sources
  BY DEF IInv, WaitsAgree, TypeOK, Sources
<1>2. Settled(c, Rejecting(WaitingAt(c))) BY <1>1, SettledHow
<1>3. /\ calls' = calls /\ messages' = [messages EXCEPT ![c] = <<>>]
      /\ phase[c] \in {"open", "closed"}
      /\ phase' = [phase EXCEPT ![c] = "aborted"]
      /\ Settle(c, Rejecting(WaitingAt(c)), "rejected") /\ UNCHANGED sinkVars
      /\ failures' = failures /\ faults' = faults
  BY DEF AbortScope
<1>4. EndsAgree' BY <1>3, EndsChannel
<1>5. FaultsAgree' BY <1>3, EndsNow DEF FaultsAgree
<1> QED BY <1>1, <1>2, <1>3, <1>4, <1>5, SettleKept

(* The event source fails its sink.                                        *)
LEMMA FailKept ==
  ASSUME IInv, NEW s \in Subscriptions, Fail(s)
  PROVE  Step
<1>1. call \in [CallIds -> Call] /\ s \in Sources
  BY DEF IInv, WaitsAgree, TypeOK, Sources
<1>2. Settled(s, Rejecting(WaitingAt(s))) BY <1>1, SettledHow
<1>3. /\ calls' = calls /\ messages' = [messages EXCEPT ![s] = <<>>]
      /\ phase[s] = "open" /\ Subscribed(s) /\ Unsubscribe(s)
      /\ phase' = [phase EXCEPT ![s] = "failed"]
      /\ Settle(s, Rejecting(WaitingAt(s)), "refused")
      /\ failures' = failures /\ faults' = faults
  BY DEF Fail, FailWith
<1>4. EndsAgree' BY <1>3, EndsSubscription
<1>5. FaultsAgree' BY <1>3, EndsNow DEF FaultsAgree
<1> QED BY <1>1, <1>2, <1>3, <1>4, <1>5, SettleKept

(* The lease of a subscription is released.                                *)
LEMMA DisposeKept ==
  ASSUME IInv, NEW s \in Subscriptions, Dispose(s)
  PROVE  Step
<1>1. /\ call \in [CallIds -> Call] /\ s \in Sources
      /\ messages = [q \in Sources |-> messages[q]]
      /\ phase = [q \in Sources |-> phase[q]]
  BY DEF IInv, WaitsAgree, TypeOK, Sources
<1>2. /\ calls' = calls /\ messages' = [messages EXCEPT ![s] = <<>>]
      /\ Subscribed(s) /\ phase' = [phase EXCEPT ![s] = "revoked"]
      /\ failures' = failures /\ faults' = faults
  BY DEF Dispose
<1>3. CASE phase[s] = "open"
  <2>1. Settled(s, Woken(s)) BY <1>1, SettledHow
  <2>2. Settle(s, Woken(s), "refused") /\ Unsubscribe(s) BY <1>3 DEF Dispose
  <2>3. EndsAgree' BY <1>2, <1>3, <2>2, EndsSubscription
  <2>4. FaultsAgree' BY <1>2, EndsNow DEF FaultsAgree
  <2> QED BY <1>1, <1>2, <1>3, <2>1, <2>2, <2>3, <2>4, SettleKept
<1>4. CASE phase[s] # "open"
  <2>1. UNCHANGED <<call, senders, receivers, timer, sinkVars>>
    BY <1>4 DEF Dispose
  <2>2. EndsAgree' BY <1>2, <1>4, <2>1, EndsSubscription
  <2>3. /\ messages' = [q \in Sources |-> messages'[q]]
        /\ \A q \in Sources :
             \/ phase'[q] = phase[q] /\ messages'[q] = messages[q]
             \/ /\ phase[q] # "open" /\ phase'[q] \notin {"open", "closed"}
                /\ q = s /\ messages'[q] = <<>>
    BY <1>1, <1>2, <1>4
  <2> QED BY <1>1, <1>2, <2>1, <2>2, <2>3, StandKept
<1> QED BY <1>3, <1>4

(* The lease of a channel is released: it ended before.                    *)
LEMMA RevokeKept ==
  ASSUME IInv, NEW c \in Channels, Revoke(c)
  PROVE  Step
<1>1. /\ c \in Sources /\ messages = [q \in Sources |-> messages[q]]
      /\ phase = [q \in Sources |-> phase[q]] /\ NoMissedMeeting
  BY DEF IInv, WaitsAgree, TypeOK, Sources
<1>2. /\ phase[c] = "aborted" /\ phase' = [phase EXCEPT ![c] = "revoked"]
      /\ UNCHANGED <<calls, call, messages, senders, receivers, timer, failures,
                     faults, sinkVars>>
  BY DEF Revoke, timerVars
<1>3. messages[c] = <<>> BY <1>1, <1>2 DEF NoMissedMeeting
<1>4. EndsAgree' BY <1>2, EndsChannel
<1>5. /\ messages' = [q \in Sources |-> messages'[q]]
      /\ \A q \in Sources :
           \/ phase'[q] = phase[q] /\ messages'[q] = messages[q]
           \/ /\ phase[q] # "open" /\ phase'[q] \notin {"open", "closed"}
              /\ q = c /\ messages'[q] = <<>>
  BY <1>1, <1>2, <1>3
<1> QED BY <1>1, <1>2, <1>4, <1>5, StandKept

(* attach and its return touch no queue.                                   *)
LEMMA AttachKept ==
  ASSUME IInv, NEW s \in Subscriptions, Attach(s) \/ AttachReturns(s)
  PROVE  Step
<1>1. UNCHANGED <<calls, call, phase, messages, senders, receivers, timer,
                  failures, faults>>
  BY DEF Attach, AttachReturns, sourceVars, timerVars
<1>2. EndsAgree' BY EndsAttach
<1>3. messages' = [q \in Sources |-> messages'[q]]
  BY <1>1 DEF IInv, WaitsAgree, TypeOK
<1>4. s \in Sources BY DEF Sources
<1> QED BY <1>1, <1>2, <1>3, <1>4, StandKept

(* An emit that finds the queue full fails the subscription.               *)
LEMMA OverflowKept ==
  ASSUME IInv, Admit, NEW s \in Subscriptions, phase[s] = "open",
         Subscribed(s), Overflow(s), UNCHANGED <<failures, faults>>
  PROVE  Step
<1>1. PICK n \in CallIds : n = NewCall BY NewUnused
<1>2. s \in Sources /\ s \notin Channels BY SourceAssumption DEF Sources
<1>3. /\ Willing(s) = {} /\ phase' = [phase EXCEPT ![s] = "failed"]
      /\ messages' = [messages EXCEPT ![s] = <<>>] /\ Unsubscribe(s)
      /\ Settle(s, [call EXCEPT ![n] = Sent(s, "emit", "dropped")], "refused")
  BY <1>1 DEF Overflow, FailWith
<1>4. senders[s] = {} /\ receivers[s] = {} BY <1>2, <1>3, Entries
<1>5. /\ call \in [CallIds -> Call] /\ senders = [q \in Sources |-> senders[q]]
      /\ receivers = [q \in Sources |-> receivers[q]]
      /\ messages = [q \in Sources |-> messages[q]]
      /\ phase = [q \in Sources |-> phase[q]]
  BY DEF IInv, WaitsAgree, TypeOK
<1>6. PICK cs : cs = [call EXCEPT ![n] = Sent(s, "emit", "dropped")] OBVIOUS
<1>7. cs = [i \in CallIds |-> cs[i]] BY <1>5, <1>6
<1>8. call' = cs
  <2>1. call' = [i \in CallIds |-> IF i \in {} THEN [cs[i] EXCEPT !.status = "refused"]
                                               ELSE cs[i]]
    BY <1>3, <1>4, <1>6 DEF Settle, Finish
  <2> QED BY <1>7, <2>1
<1>9. WaitingAt(s) = {} BY <1>3 DEF WaitingAt
<1>10. UNCHANGED <<receivers, timer>>
  <2>1. receivers' = Unregister(receivers, WaitingAt(s)) /\ timer' = Stop(WaitingAt(s))
    BY <1>2, <1>3, Leaving DEF Settle
  <2> QED BY <1>9, <2>1, NobodyDecided
<1>11. Sending(n, s, "emit", "dropped")
  BY <1>6, <1>8, <1>10 DEF Sending, Sendable
<1>12. "dropped" \in Status BY DEF Status
<1>13. /\ CallsMove /\ WaitersAgree'
       /\ call'[n].status = "dropped" /\ call'[n].got = Nothing
       /\ \A i \in CallIds : i # n => call'[i] = call[i]
       /\ call[n].status = "unused" /\ call[n].got = Nothing
  BY <1>1, <1>2, <1>11, <1>12, AdmitSend
<1>14. senders' = senders
  <2>1. senders' = [senders EXCEPT ![s] = {}] BY <1>3 DEF Settle
  <2> QED BY <1>4, <1>5, <2>1
<1>15. SendersAgree' BY <1>13, <1>14, SendersStay
<1>16. /\ phase'[s] = "failed" /\ messages'[s] = <<>>
       /\ messages' = [q \in Sources |-> messages'[q]]
       /\ \A q \in Sources :
            q # s => phase'[q] = phase[q] /\ messages'[q] = messages[q]
  BY <1>2, <1>3, <1>5
<1>17. SourcesAgree' BY <1>4, <1>10, <1>14, <1>16, MeetingsStay
<1>18. LinesMove
  <2>1. Shrinks(s) BY <1>2, <1>13, <1>14, <1>16 DEF Shrinks
  <2> QED BY <1>2, <2>1 DEF LinesMove
<1>19. EndsAgree' BY <1>3, EndsSubscription
<1>20. FaultsAgree' BY EndsNow DEF FaultsAgree
<1> QED BY <1>13, <1>15, <1>17, <1>18, <1>19, <1>20, AssembleStep

-----------------------------------------------------------------------------
(* Waits.                                                                  *)

(* The admission of a wait that is decided at once: the queues stay, and   *)
(* the timers of the arms before are aborted.                              *)
LEMMA AdmitWait ==
  ASSUME IInv, Admit, NEW n \in CallIds, n = NewCall, NEW arms, NEW d,
         CallsMove, Waits(n), call'[n].arms = arms,
         call'[n].status \in {"committed", "failing"},
         \A i \in CallIds : i # n /\ call[i].status # "blocked" => call'[i] = call[i],
         timer' = [timer EXCEPT ![n] = Started(arms, d, "aborted")],
         receivers' = receivers
  PROVE  WaitersAgree'
<1>1. timer = [i \in CallIds |-> timer[i]] BY DEF IInv, CallsAgree
<1>2. /\ timer'[n] = Started(arms, d, "aborted")
      /\ \A i \in CallIds : i # n => timer'[i] = timer[i]
      /\ timer' = [i \in CallIds |-> timer'[i]]
  BY <1>1
<1>3. call[n].status = "unused" BY Newest
<1>4. ASSUME NEW i \in CallIds, i # n
      PROVE  /\ Pending(i)' <=> Pending(i)
             /\ call'[i].arms = call[i].arms
             /\ call[i].status \in {"committed", "failing"} =>
                  call'[i].status \in {"committed", "failing"}
  <2>1. Moves(i)
    <3>1. calls' # calls
      BY BoundAssumption DEF Admit, NewCall, IInv, WaitsAgree, TypeOK
    <3> QED BY <1>4, <3>1 DEF CallsMove
  <2>2. call[i].status # "blocked" => call'[i] = call[i] BY <1>4
  <2> QED BY <2>1, <2>2, MovesKeep DEF Pending
<1>5. ReceiversAgree'
  <2>1. PICK W : W = {} OBVIOUS
  <2>2. \A i \in CallIds : /\ Pending(i)' <=> Pending(i) /\ i \notin W
                           /\ Pending(i)' => call'[i].arms = call[i].arms
    BY <1>3, <1>4, <2>1 DEF Pending
  <2>3. Decides(W) BY <2>1, <2>2, NobodyDecided DEF Decides
  <2> QED BY <2>3, RegistrationsStay
<1>6. ASSUME NEW i \in CallIds PROVE TimerAgrees(i)'
  <2>1. CASE i = n BY <1>2, <2>1, TimersStart
  <2>2. CASE i # n BY <1>2, <1>4, <2>2, TimersStay
  <2> QED BY <2>1, <2>2
<1> QED BY <1>2, <1>5, <1>6 DEF WaitersAgree

(* A wait that is refused, by a source or by a clock.                      *)
LEMMA RefuseKept ==
  ASSUME IInv, Admit, NEW arms \in ArmLists, NEW d, RefuseAt(arms, d),
         FaultsAgree', UNCHANGED <<phase, sinkVars>>
  PROVE  Step
<1>1. PICK n \in CallIds : n = NewCall BY NewUnused
<1>2. /\ call' = [call EXCEPT ![n] = Failing(NewWait(arms))]
      /\ timer' = [timer EXCEPT ![n] = Started(arms, d, "aborted")]
      /\ messages' = messages /\ senders' = senders /\ receivers' = receivers
  BY <1>1 DEF RefuseAt
<1>3. call \in [CallIds -> Call] /\ messages = [q \in Sources |-> messages[q]]
  BY DEF IInv, WaitsAgree, TypeOK
<1>4. PICK w \in Call : w = NewWait(arms) BY NewWaitFields
<1>5. /\ call'[n] = Failing(w)
      /\ \A i \in CallIds : i # n => call'[i] = call[i]
      /\ call' = [i \in CallIds |-> call'[i]]
  BY <1>2, <1>3, <1>4
<1>6. 1 \in Nat /\ Nothing \in CallIds \union {Nothing, Closed} OBVIOUS
<1>7. /\ call'[n] \in Call /\ call'[n].kind = "wait" /\ call'[n].arms = arms
      /\ call'[n].source = NoSource /\ call'[n].status = "failing"
      /\ call'[n].got = Nothing
  BY <1>4, <1>5, <1>6, NewWaitFields, DecidedFields
<1>8. Waits(n) BY <1>7 DEF Waits
<1>9. \A i \in CallIds : i # n => Moves(i) BY <1>5 DEF Moves
<1>10. CallsMove BY <1>1, <1>5, <1>8, <1>9 DEF CallsMove
<1>11. WaitersAgree' BY <1>1, <1>2, <1>5, <1>7, <1>8, <1>10, AdmitWait
<1>12. call[n].status = "unused" /\ call[n].got = Nothing BY <1>1, Newest
<1>13. SendersAgree' BY <1>2, <1>5, <1>7, <1>10, <1>12, SendersStay
<1>14. SourcesAgree' BY <1>2, <1>3, MeetingsStay
<1>15. LinesMove
  <2>1. Shrinks(NoSource) BY <1>2, <1>5, <1>7, <1>12 DEF Shrinks
  <2> QED BY <2>1 DEF LinesMove
<1>16. EndsAgree' BY EndsStay
<1> QED BY <1>10, <1>11, <1>13, <1>14, <1>15, <1>16, AssembleStep

(* A wait that takes what is ready, and lets the first sender go.          *)
LEMMA TakeKept ==
  ASSUME IInv, Admit, NEW arms \in ArmLists, NEW d \in Nat,
         arms[d] \in Sources, Ready(arms[d]), TakeAt(arms, d),
         UNCHANGED <<phase, failures, faults, sinkVars>>
  PROVE  Step
<1>1. PICK n \in CallIds : n = NewCall BY NewUnused
<1>2. PICK s \in Sources : s = arms[d] OBVIOUS
<1> DEFINE S == Released(s)
<1>3. /\ call' = Finish([call EXCEPT ![n] = Committed(NewWait(arms), d, Outcome(s))],
                        S, "accepted")
      /\ messages' = [messages EXCEPT ![s] = Rest(s)]
      /\ senders' = [senders EXCEPT ![s] = @ \ S]
      /\ timer' = [timer EXCEPT ![n] = Started(arms, d, "aborted")]
      /\ receivers' = receivers
  BY <1>1, <1>2 DEF TakeAt
<1>4. Ready(s) /\ phase' = phase BY <1>2
<1>5. /\ call \in [CallIds -> Call] /\ messages \in [Sources -> Seq(CallIds)]
      /\ senders \in [Sources -> SUBSET CallIds]
  BY DEF IInv, WaitsAgree, TypeOK
<1>6. /\ S \subseteq senders[s]
      /\ \A i \in S : i \in CallIds /\ call[i].status = "blocked" /\ call[i].source = s
  <2>1. S \subseteq senders[s]
    <3>1. senders[s] \in SUBSET Nat BY <1>5, Numbers
    <3> QED BY <3>1, FirstFacts DEF Released
  <2> QED BY <2>1, Entries
<1>7. call[n].status = "unused" /\ call[n].got = Nothing BY <1>1, Newest
<1>8. n \notin S BY <1>6, <1>7
<1>9. Outcome(s) \in CallIds \union {Closed}
  <2>1. CASE Pipe(s) = <<>> BY <2>1 DEF Outcome
  <2>2. CASE Pipe(s) # <<>>
    <3>1. Outcome(s) \in Held(s) \union S BY <2>2, PipeFacts
    <3> QED BY <1>6, <3>1, OfferedFacts
  <2> QED BY <2>1, <2>2
<1>10. PICK o \in CallIds \union {Nothing, Closed} : o = Outcome(s) BY <1>9
<1>11. PICK w \in Call : w = NewWait(arms) BY NewWaitFields
<1>12. PICK c : c = Committed(w, d, o) OBVIOUS
<1>13. /\ c \in Call /\ c.kind = "wait" /\ c.arms = arms /\ c.source = NoSource
       /\ c.status = "committed" /\ c.got = o
  BY <1>10, <1>11, <1>12, NewWaitFields, DecidedFields
<1>14. PICK cs : cs = [call EXCEPT ![n] = c] OBVIOUS
<1>15. /\ cs \in [CallIds -> Call] /\ cs[n] = c
       /\ \A i \in CallIds : i # n => cs[i] = call[i]
  BY <1>5, <1>13, <1>14
<1>16. call' = Finish(cs, S, "accepted") BY <1>3, <1>10, <1>11, <1>12, <1>14
<1>17. "accepted" \in Status BY DEF Status
<1>18. /\ call' \in [CallIds -> Call]
       /\ \A i \in CallIds :
            /\ i \notin S => call'[i] = cs[i]
            /\ call'[i].kind = cs[i].kind /\ call'[i].source = cs[i].source
            /\ call'[i].arms = cs[i].arms /\ call'[i].got = cs[i].got
            /\ i \in S => call'[i].status = "accepted"
  BY <1>15, <1>16, <1>17, FinishFields
<1>19. call'[n] = c BY <1>8, <1>15, <1>18
<1>20. \A i \in CallIds : i # n /\ i \notin S => call'[i] = call[i]
  BY <1>15, <1>18
<1>21. \A i \in CallIds : i # n => call'[i].got = call[i].got
  BY <1>15, <1>18
<1>22. Waits(n) BY <1>13, <1>19 DEF Waits
<1>23. \A i \in CallIds : i # n => Moves(i)
  <2> SUFFICES ASSUME NEW i \in CallIds, i # n PROVE Moves(i) OBVIOUS
  <2>1. CASE i \notin S BY <1>20, <2>1 DEF Moves
  <2>2. CASE i \in S
    <3>1. cs[i] = call[i] /\ call[i].status = "blocked" BY <1>6, <1>15, <2>2
    <3> QED BY <1>18, <2>2, <3>1 DEF Moves
  <2> QED BY <2>1, <2>2
<1>24. call' = [i \in CallIds |-> call'[i]] BY <1>18
<1>25. CallsMove BY <1>1, <1>22, <1>23, <1>24 DEF CallsMove
<1>26. call'[n].arms = arms /\ call'[n].status \in {"committed", "failing"}
  BY <1>13, <1>19
<1>27. \A i \in CallIds : i # n /\ call[i].status # "blocked" => call'[i] = call[i]
  BY <1>6, <1>20
<1>28. WaitersAgree' BY <1>1, <1>3, <1>22, <1>25, <1>26, <1>27, AdmitWait
<1>29. senders' = [q \in Sources |-> senders[q] \ S]
  <2>1. ASSUME NEW q \in Sources PROVE senders'[q] = senders[q] \ S
    <3>1. CASE q = s BY <1>3, <1>5, <3>1
    <3>2. CASE q # s
      <4>1. \A i \in senders[q] : call[i].source = q BY Entries
      <4>2. \A i \in senders[q] : i \notin S BY <1>6, <3>2, <4>1
      <4> QED BY <1>3, <1>5, <3>2, <4>2
    <3> QED BY <3>1, <3>2
  <2>2. senders' = [q \in Sources |-> senders'[q]] BY <1>3, <1>5
  <2> HIDE DEF S
  <2> QED BY <2>1, <2>2
<1>30. \A i \in CallIds :
         call'[i].status = "blocked" <=> call[i].status = "blocked" /\ i \notin S
  BY <1>7, <1>8, <1>13, <1>18, <1>19, <1>20
<1>31. SendersAgree'
  <2>1. PICK T : T = S OBVIOUS
  <2> QED BY <1>25, <1>29, <1>30, <2>1, SendersLeave
<1>32. /\ messages'[s] = Rest(s)
       /\ \A q \in Sources : q # s => messages'[q] = messages[q]
       /\ messages' = [q \in Sources |-> messages'[q]]
       /\ \A q \in Sources : senders'[q] \subseteq senders[q]
  BY <1>3, <1>5, <1>29
<1>33. EndsAgree' BY EndsStay
<1>34. FaultsAgree' BY EndsNow DEF FaultsAgree
<1>35. CASE Pipe(s) = <<>>
  <2>1. messages[s] = <<>> /\ senders[s] = {}
    <3>1. senders[s] = {}
      <4> SUFFICES ASSUME senders[s] # {} PROVE FALSE OBVIOUS
      <4>1. Pipe(s) = messages[s] \o <<First(senders[s])>> BY DEF Pipe
      <4>2. First(senders[s]) \in CallIds BY <1>6 DEF Released
      <4>3. PICK L \in Nat : L = Len(messages[s]) BY Meeting
      <4>4. Len(Pipe(s)) = L + 1 BY <1>5, <4>1, <4>2, <4>3, ConcatProperties
      <4>5. Len(Pipe(s)) = 0 BY <1>35
      <4> QED BY <4>3, <4>4, <4>5
    <3>2. Pipe(s) = messages[s] \o <<>> BY <3>1 DEF Pipe
    <3> QED BY <1>5, <1>35, <3>1, <3>2, ConcatEmptySeq
  <2>2. Rest(s) = <<>> /\ o = Closed BY <1>10, <1>35 DEF Rest, Outcome
  <2>3. \A q \in Sources : messages'[q] = messages[q] BY <1>32, <2>1, <2>2
  <2>4. SourcesAgree' BY <1>3, <1>4, <1>32, <2>3, MeetingsStay
  <2>5. S = {} BY <2>1 DEF Released
  <2>6. \A i \in CallIds :
          /\ call'[i].status = "accepted" => call[i].status = "accepted"
          /\ call'[i].got = call[i].got \/ call'[i].got \notin CallIds
    BY <1>13, <1>19, <1>20, <2>2, <2>5, Numbers
  <2>7. LinesMove
    <3>1. \A q \in Sources : senders'[q] = senders[q] BY <1>29, <2>5
    <3>2. Shrinks(NoSource) BY <1>4, <2>3, <2>6, <3>1 DEF Shrinks
    <3> QED BY <3>2 DEF LinesMove
  <2> QED BY <1>25, <1>28, <1>31, <1>33, <1>34, <2>4, <2>7, AssembleStep
<1>36. CASE Pipe(s) # <<>>
  <2>1. /\ Rest(s) \in Seq(CallIds) /\ Len(Rest(s)) \in Nat
        /\ Len(Rest(s)) <= Len(messages[s])
        /\ senders[s] # {} => Len(Rest(s)) = Len(messages[s])
    BY <1>36, PipeFacts
  <2>2. messages' \in [Sources -> Seq(CallIds)] BY <1>32, <1>5, <2>1
  <2>3. receivers[s] = {}
    BY <1>4, Meeting DEF Ready
  <2>4. phase[s] \in {"open", "closed"} BY <1>4 DEF Ready
  <2>5. ASSUME NEW q \in Sources
        PROVE  /\ senders'[q] # {} =>
                    /\ phase'[q] = "open" /\ receivers'[q] = {}
                    /\ Len(messages'[q]) = Capacity[q]
               /\ receivers'[q] # {} => phase'[q] = "open" /\ messages'[q] = <<>>
               /\ q \in Channels => Len(messages'[q]) <= Capacity[q]
               /\ phase'[q] \notin {"open", "closed"} => messages'[q] = <<>>
    <3>1. NoMissedMeeting BY DEF IInv, WaitsAgree
    <3>2. CASE q = s
      <4>1. senders'[s] # {} => senders[s] # {} BY <1>32
      <4>2. s \in Channels => Len(Rest(s)) <= Capacity[s]
        BY <2>1, <3>1, Meeting DEF NoMissedMeeting
      <4> QED BY <1>3, <1>4, <1>32, <2>1, <2>3, <2>4, <3>1, <3>2, <4>1, <4>2
              DEF NoMissedMeeting
    <3>3. CASE q # s
      <4>1. messages'[q] = messages[q] /\ senders'[q] \subseteq senders[q]
        BY <1>32, <3>3
      <4> QED BY <1>3, <1>4, <3>1, <4>1 DEF NoMissedMeeting
    <3> QED BY <3>2, <3>3
  <2>6. SourcesAgree' BY <2>2, <2>5 DEF SourcesAgree, NoMissedMeeting
  <2>7. call'[n].got = Outcome(s) /\ call'[n].status = "committed"
    BY <1>10, <1>13, <1>19
  <2>8. \A i \in S : call'[i].status = "accepted" BY <1>6, <1>18
  <2>9. LinesMove
    <3>1. Takes(s, n)
      BY <1>3, <1>4, <1>20, <1>21, <1>36, <2>7, <2>8 DEF Takes
    <3> QED BY <1>1, <3>1 DEF LinesMove
  <2> QED BY <1>25, <1>28, <1>31, <1>33, <1>34, <2>6, <2>9, AssembleStep
<1> QED BY <1>35, <1>36

(* A wait at whose arms nothing is ready.                                  *)
LEMMA RegisterKept ==
  ASSUME IInv, Admit, NEW arms \in ArmLists, ~Revoked(arms), Deciding(arms) = {},
         Register(arms), UNCHANGED <<phase, failures, faults, sinkVars>>
  PROVE  Step
<1>1. PICK n \in CallIds : n = NewCall BY NewUnused
<1>2. /\ call' = [call EXCEPT ![n] = NewWait(arms)]
      /\ \A s \in Sources : receivers'[s] =
           receivers[s] \union {<<n, a>> : a \in ArmsAt(arms, s)}
      /\ timer' = [timer EXCEPT ![n] = Started(arms, Len(arms) + 1, "sleeping")]
      /\ messages' = messages /\ senders' = senders
  BY <1>1 DEF Register
<1>3. /\ call \in [CallIds -> Call] /\ messages = [q \in Sources |-> messages[q]]
      /\ timer = [i \in CallIds |-> timer[i]]
      /\ messages \in [Sources -> Seq(CallIds)]
  BY DEF IInv, WaitsAgree, TypeOK, CallsAgree
<1>4. /\ call'[n] = NewWait(arms)
      /\ \A i \in CallIds : i # n => call'[i] = call[i]
      /\ call' = [i \in CallIds |-> call'[i]]
      /\ timer'[n] = Started(arms, Len(arms) + 1, "sleeping")
      /\ \A i \in CallIds : i # n => timer'[i] = timer[i]
      /\ timer' = [i \in CallIds |-> timer'[i]]
  BY <1>2, <1>3
<1>5. /\ call'[n] \in Call /\ call'[n].kind = "wait" /\ call'[n].arms = arms
      /\ call'[n].source = NoSource /\ call'[n].status = "pending"
      /\ call'[n].got = Nothing
  BY <1>4, NewWaitFields
<1>6. Waits(n) BY <1>5 DEF Waits
<1>7. \A i \in CallIds : i # n => Moves(i) BY <1>4 DEF Moves
<1>8. CallsMove BY <1>1, <1>4, <1>6, <1>7 DEF CallsMove
<1>9. call[n].status = "unused" /\ call[n].got = Nothing BY <1>1, Newest
<1>10. ReceiversAgree' BY RegistrationsGrow
<1>11. ASSUME NEW i \in CallIds PROVE TimerAgrees(i)'
  <2>1. CASE i = n BY <1>4, <1>5, <2>1, TimersStart DEF Pending
  <2>2. CASE i # n BY <1>4, <2>2, TimersStay DEF Pending
  <2> QED BY <2>1, <2>2
<1>12. WaitersAgree' BY <1>4, <1>10, <1>11 DEF WaitersAgree
<1>13. SendersAgree' BY <1>2, <1>4, <1>5, <1>8, <1>9, SendersStay
<1>14. \A s \in Sources : ArmsAt(arms, s) # {} =>
         phase[s] = "open" /\ messages[s] = <<>> /\ senders[s] = {}
  <2> SUFFICES ASSUME NEW s \in Sources, ArmsAt(arms, s) # {}
               PROVE  phase[s] = "open" /\ messages[s] = <<>> /\ senders[s] = {}
    OBVIOUS
  <2>1. PICK a \in 1..Len(arms) : arms[a] = s BY DEF ArmsAt
  <2>2. s # Timer BY SourceAssumption
  <2>3. ~Ready(s) /\ ~Refusing(s) /\ phase[s] # "revoked"
    BY <2>1, <2>2 DEF Deciding, Revoked
  <2>4. phase[s] \in {"open", "closed", "failed", "aborted", "revoked"}
    BY DEF IInv, WaitsAgree, TypeOK
  <2> QED BY <2>3, <2>4 DEF Ready, Refusing
<1>15. SourcesAgree'
  <2>1. ASSUME NEW q \in Sources
        PROVE  /\ senders'[q] # {} =>
                    /\ phase'[q] = "open" /\ receivers'[q] = {}
                    /\ Len(messages'[q]) = Capacity[q]
               /\ receivers'[q] # {} => phase'[q] = "open" /\ messages'[q] = <<>>
               /\ q \in Channels => Len(messages'[q]) <= Capacity[q]
               /\ phase'[q] \notin {"open", "closed"} => messages'[q] = <<>>
    <3>1. NoMissedMeeting BY DEF IInv, WaitsAgree
    <3>2. ArmsAt(arms, q) = {} => receivers'[q] = receivers[q] BY <1>2
    <3>3. receivers'[q] # {} => receivers[q] # {} \/ ArmsAt(arms, q) # {}
      BY <3>2
    <3> QED BY <1>2, <1>14, <3>1, <3>2, <3>3 DEF NoMissedMeeting
  <2> QED BY <1>2, <1>3, <2>1 DEF SourcesAgree, NoMissedMeeting
<1>16. LinesMove
  <2>1. Shrinks(NoSource) BY <1>2, <1>4, <1>5, <1>9 DEF Shrinks
  <2> QED BY <2>1 DEF LinesMove
<1>17. EndsAgree' BY EndsStay
<1>18. FaultsAgree' BY EndsNow DEF FaultsAgree
<1> QED BY <1>8, <1>12, <1>13, <1>15, <1>16, <1>17, <1>18, AssembleStep

(* receive, next and select, however they are decided.                     *)
LEMMA WaitStepKept ==
  ASSUME IInv, NEW arms \in ArmLists, Wait(arms)
  PROVE  Step
<1>1. Admit /\ UNCHANGED <<phase, failures, sinkVars>> BY DEF Wait
<1> DEFINE D == Deciding(arms)
           d == First(D)
<1>2. FaultsAgree /\ faults \in Nat /\ MaxFaults \in Nat
  BY EndsNow, BoundAssumption DEF IInv, WaitsAgree, TypeOK
<1>3. CASE Revoked(arms) /\ RefuseAt(arms, 1) /\ UNCHANGED faults
  <2>1. FaultsAgree' BY <1>1, <1>2, <1>3 DEF FaultsAgree
  <2> QED BY <1>1, <1>3, <2>1, RefuseKept
<1>4. CASE ~Revoked(arms) /\ D = {} /\ Register(arms) /\ UNCHANGED faults
  BY <1>1, <1>4, RegisterKept
<1>5. CASE D # {} /\ Ready(arms[d]) /\ TakeAt(arms, d) /\ UNCHANGED faults
  <2>1. D \in SUBSET Nat BY DEF Deciding
  <2>2. d \in D BY <1>5, <2>1, FirstFacts
  <2>3. arms \in Seq(Sources \union {Timer}) BY ArmAssumption
  <2>4. d \in 1..Len(arms) /\ arms[d] # Timer BY <2>2 DEF Deciding
  <2>5. arms[d] \in Sources BY <2>3, <2>4, ElementOfSeq
  <2>6. d \in Nat BY <2>1, <2>2
  <2> HIDE DEF d
  <2> QED BY <1>1, <1>5, <2>5, <2>6, TakeKept
<1>6. CASE Refusing(arms[d]) /\ RefuseAt(arms, d) /\ UNCHANGED faults
  <2>1. FaultsAgree' BY <1>1, <1>2, <1>6 DEF FaultsAgree
  <2> HIDE DEF d
  <2> QED BY <1>1, <1>6, <2>1, RefuseKept
<1>7. CASE \E t \in TimerArms(arms) : Fault /\ RefuseAt(arms, t)
  <2>1. PICK t \in TimerArms(arms) : Fault /\ RefuseAt(arms, t) BY <1>7
  <2>2. FaultsAgree' BY <1>1, <1>2, <2>1 DEF FaultsAgree, Fault
  <2> QED BY <1>1, <2>1, <2>2, RefuseKept
<1> QED BY <1>3, <1>4, <1>5, <1>6, <1>7 DEF Wait

-----------------------------------------------------------------------------
(* The invariant.                                                          *)

(* send of a channel.                                                      *)
LEMMA SendKept ==
  ASSUME IInv, NEW c \in Channels, Send(c)
  PROVE  Step
<1>1. /\ Admit /\ c \in Sources
      /\ UNCHANGED <<phase, failures, sinkVars, faults>>
  BY DEF Send, Sources
<1>2. {"accepted", "refused", "rejected"} \subseteq Status BY DEF Status
<1>3. \A st \in {"accepted", "refused", "rejected"} : Sendable(c, "send", st)
  BY DEF Sendable
<1>4. ASSUME NEW st \in {"refused", "rejected"}, Turned(c, st) PROVE Step
  <2>1. st \in Status /\ st \notin {"accepted", "blocked"} /\ Sendable(c, "send", st)
    BY <1>2, <1>3
  <2>2. /\ call' = [call EXCEPT ![NewCall] = Sent(c, "send", st)]
        /\ UNCHANGED <<messages, senders, receivers, timer>>
    BY <1>4 DEF Turned
  <2> QED BY <1>1, <2>1, <2>2, TurnedKept
<1>5. ASSUME phase[c] = "open", Hand(c, "send") PROVE Step
  BY <1>1, <1>3, <1>5, HandKept
<1>6. ASSUME phase[c] = "open", Buffer(c) PROVE Step
  <2>1. PICK r : r = Append(messages[c], NewCall) OBVIOUS
  <2>2. /\ NoTaker(c) /\ Len(messages[c]) < Capacity[c]
        /\ messages' = [messages EXCEPT ![c] = r]
        /\ call' = [call EXCEPT ![NewCall] = Sent(c, "send", "accepted")]
        /\ senders' = senders
    BY <1>6, <2>1 DEF Buffer
  <2> QED BY <1>1, <1>3, <1>6, <2>1, <2>2, BufferKept
<1>7. ASSUME phase[c] = "open", Block(c) PROVE Step
  BY <1>1, <1>7, BlockKept
<1> QED BY <1>4, <1>5, <1>6, <1>7 DEF Send

(* emit of a sink.                                                         *)
LEMMA EmitKept ==
  ASSUME IInv, NEW s \in Subscriptions, Emit(s)
  PROVE  Step
<1>1. /\ Admit /\ s \in Sources /\ Subscribed(s)
      /\ UNCHANGED <<failures, faults>>
  BY DEF Emit, Sources
<1>2. "accepted" \in Status /\ "dropped" \in Status BY DEF Status
<1>3. Sendable(s, "emit", "accepted") /\ Sendable(s, "emit", "dropped")
  BY DEF Sendable
<1>4. ASSUME call' = [call EXCEPT ![NewCall] = Sent(s, "emit", "dropped")],
             UNCHANGED <<sourceVars, timer, sinkVars>>
      PROVE  Step
  <2>1. UNCHANGED <<phase, messages, senders, receivers, timer, failures, sinkVars,
                    faults>>
    BY <1>1, <1>4 DEF sourceVars
  <2>2. PICK st \in Status : st = "dropped" BY <1>2
  <2>3. /\ st \notin {"accepted", "blocked"} /\ Sendable(s, "emit", st)
        /\ call' = [call EXCEPT ![NewCall] = Sent(s, "emit", st)]
    BY <1>3, <1>4, <2>2
  <2> QED BY <1>1, <2>1, <2>3, TurnedKept
<1>5. ASSUME phase[s] = "open", Hand(s, "emit"), UNCHANGED <<phase, sinkVars>>
      PROVE  Step
  BY <1>1, <1>3, <1>5, HandKept
<1>6. ASSUME phase[s] = "open", Keep(s), UNCHANGED <<phase, sinkVars>>
      PROVE  Step
  <2>1. PICK r : r = IF s \in Latest THEN <<NewCall>>
                                     ELSE Append(messages[s], NewCall)
    OBVIOUS
  <2>2. messages \in [Sources -> Seq(CallIds)] BY DEF IInv, WaitsAgree, TypeOK
  <2>3. /\ NoTaker(s) /\ senders' = senders
        /\ s \in Latest \/ Len(messages[s]) < Capacity[s]
        /\ messages' = [messages EXCEPT ![s] = r]
        /\ call' = [call EXCEPT ![NewCall] = Sent(s, "emit", "accepted")]
    BY <1>1, <1>6, <2>1, <2>2 DEF Keep
  <2>4. \/ r = Append(messages[s], NewCall) /\ Len(messages[s]) < Capacity[s]
        \/ r = <<NewCall>> /\ s \in Latest
    BY <2>1, <2>3
  <2> QED BY <1>1, <1>3, <1>6, <2>3, <2>4, BufferKept
<1>7. ASSUME phase[s] = "open", Overflow(s) PROVE Step
  BY <1>1, <1>7, OverflowKept
<1> QED BY <1>4, <1>5, <1>6, <1>7 DEF Emit

(* The abort of a wait, and the clocks that decide one.                    *)
LEMMA DecidedKept ==
  ASSUME IInv, NEW i \in CallIds,
         AbortWait(i) \/ \E a \in DOMAIN timer[i] : TimerFires(i, a) \/ TimerFails(i, a)
  PROVE  Step
<1>1. call = [k \in CallIds |-> call[k]] BY DEF IInv, WaitsAgree, TypeOK
<1>2. FaultsAgree /\ faults \in Nat /\ MaxFaults \in Nat
  BY EndsNow, BoundAssumption DEF IInv, WaitsAgree, TypeOK
<1>3. /\ Rejecting({i})[i] = Failing(call[i])
      /\ \A k \in CallIds : k # i => Rejecting({i})[k] = call[k]
      /\ Rejecting({i}) = [k \in CallIds |-> Rejecting({i})[k]]
  BY DEF Rejecting
<1>4. CASE AbortWait(i)
  <2>1. FaultsAgree' BY <1>2, <1>4 DEF AbortWait, FaultsAgree
  <2>2. 0 \in Nat OBVIOUS
  <2>3. /\ calls' = calls /\ Pending(i) /\ call' = Rejecting({i})
        /\ receivers' = Unregister(receivers, {i}) /\ timer' = Stop({i})
        /\ UNCHANGED <<phase, messages, senders, sinkVars>>
    BY <1>4 DEF AbortWait
  <2>4. /\ call' = [k \in CallIds |-> call'[k]] /\ call'[i] = Failing(call[i])
        /\ \A k \in CallIds : k # i => call'[k] = call[k]
    BY <1>3, <2>3
  <2> QED BY <2>1, <2>2, <2>3, <2>4, DecideKept
<1>5. ASSUME NEW a \in DOMAIN timer[i], TimerFires(i, a) \/ TimerFails(i, a)
      PROVE  Step
  <2>1. a \in Nat
    <3>1. timer[i] \in [TimerArms(call[i].arms) -> TimerState]
      BY DEF IInv, WaitsAgree, TypeOK, TimerState
    <3>2. a \in 1..Len(call[i].arms) BY <1>5, <3>1 DEF TimerArms, ArmsAt
    <3> QED BY <3>2
  <2>2. FaultsAgree' BY <1>2, <1>5 DEF TimerFires, TimerFails, Fault, FaultsAgree
  <2>3. /\ calls' = calls /\ Pending(i)
        /\ \/ call' = Rejecting({i})
           \/ call' = [call EXCEPT ![i] = Committed(@, a, Nothing)]
        /\ receivers' = Unregister(receivers, {i})
        /\ timer' = [Stop({i}) EXCEPT ![i][a] = "drained"]
        /\ UNCHANGED <<phase, messages, senders, sinkVars>>
    BY <1>5 DEF TimerFires, TimerFails
  <2>4. /\ call' = [k \in CallIds |-> call'[k]]
        /\ call'[i] \in {Committed(call[i], a, Nothing), Failing(call[i])}
        /\ \A k \in CallIds : k # i => call'[k] = call[k]
    <3>1. CASE call' = Rejecting({i}) BY <1>3, <3>1
    <3>2. CASE call' = [call EXCEPT ![i] = Committed(@, a, Nothing)] BY <1>1, <3>2
    <3> QED BY <2>3, <3>1, <3>2
  <2> QED BY <2>1, <2>2, <2>3, <2>4, DecideKept
<1> QED BY <1>4, <1>5

(* No operation, timer or abort breaks the invariant.                      *)
LEMMA NextIInv ==
  ASSUME IInv, [Next]_vars
  PROVE  Step
<1>1. ASSUME NEW c \in Channels, Send(c) \/ AbortScope(c) \/ Revoke(c) PROVE Step
  BY <1>1, SendKept, AbortScopeKept, RevokeKept
<1>2. ASSUME NEW s \in Sources, Close(s) PROVE Step BY <1>2, CloseKept
<1>3. ASSUME NEW s \in Subscriptions,
             Attach(s) \/ AttachReturns(s) \/ Emit(s) \/ Fail(s) \/ Dispose(s)
      PROVE  Step
  BY <1>3, AttachKept, EmitKept, FailKept, DisposeKept
<1>4. ASSUME NEW arms \in ArmLists, Wait(arms) PROVE Step BY <1>4, WaitStepKept
<1>5. ASSUME NEW i \in CallIds, AbortSend(i) \/ AbortWait(i) \/ Return(i) PROVE Step
  BY <1>5, AbortSendKept, DecidedKept, ReturnKept
<1>6. ASSUME NEW i \in CallIds, NEW a \in DOMAIN timer[i],
             \/ TimerFires(i, a) \/ TimerFails(i, a)
             \/ TimerDrains(i, a) \/ TimerSpoils(i, a)
      PROVE  Step
  BY <1>6, DecidedKept, DrainKept
<1>7. CASE UNCHANGED vars
  <2>1. UNCHANGED <<calls, call, phase, messages, senders, receivers, timer, failures,
                    faults, sinkVars>>
    BY <1>7 DEF vars, sourceVars, timerVars
  <2>2. EndsAgree' BY <2>1, EndsStay
  <2>3. messages' = [s \in Sources |-> messages'[s]]
    BY <2>1 DEF IInv, WaitsAgree, TypeOK
  <2>4. NoSource \in Sources \union {NoSource} OBVIOUS
  <2> QED BY <2>1, <2>2, <2>3, <2>4, StandKept
<1> QED BY <1>1, <1>2, <1>3, <1>4, <1>5, <1>6, <1>7 DEF Next

(* A host has no channel, no subscription and no call to begin with.       *)
LEMMA InitIInv == Init => IInv
<1> SUFFICES ASSUME Init PROVE IInv OBVIOUS
<1> USE DEF Init
<1>1. MaxCalls \in Nat /\ MaxFaults \in Nat BY BoundAssumption
<1>2. Unused \in Call
  <2>1. Unused = [kind |-> "none", source |-> NoSource, arms |-> <<>>,
                  status |-> "unused", arm |-> 0, got |-> Nothing]
    BY DEF Unused
  <2> QED BY <2>1 DEF Call, Status
<1>3. CallsTyped BY <1>1, <1>2 DEF CallsTyped
<1>4. \A i \in CallIds : CallAgrees(i) BY Numbers DEF CallAgrees, Unused
<1>5. /\ \A i \in CallIds : call[i].status = "unused" /\ call[i].arms = <<>>
                            /\ call[i].got = Nothing
      /\ \A s \in Sources : Held(s) = {} /\ Offered(s) = {}
  BY DEF Unused, Held, Offered
<1>6. WaitersAgree
  <2>1. TimerArms(<<>>) = {} BY DEF TimerArms, ArmsAt
  <2>2. \A i \in CallIds : timer[i] = <<>> /\ DOMAIN timer[i] = {} OBVIOUS
  <2>3. \A i \in CallIds : TimerAgrees(i)
    <3>1. <<>> \in [{} -> TimerState] OBVIOUS
    <3> QED BY <1>5, <2>1, <2>2, <3>1 DEF TimerAgrees
  <2>4. ReceiversAgree BY <1>5 DEF ReceiversAgree, Pending
  <2> QED BY <2>3, <2>4 DEF WaitersAgree
<1>7. SendersAgree BY <1>5 DEF SendersAgree
<1>8. SourcesAgree
  <2>1. <<>> \in Seq(CallIds) /\ Len(<<>>) = 0 OBVIOUS
  <2>2. \A s \in Sources : Capacity[s] \in Nat BY CapacityAssumption
  <2> QED BY <2>1, <2>2 DEF SourcesAgree, NoMissedMeeting
<1>9. FatesAgree
  <2>1. LinesAgree BY <1>5 DEF LinesAgree
  <2>2. TakenAgree BY <1>5, Numbers DEF TakenAgree
  <2>3. AcceptedKept BY <1>5 DEF AcceptedKept
  <2> QED BY <2>1, <2>2, <2>3 DEF FatesAgree
<1>10. EndsAgree
  <2>1. \A s \in Subscriptions : s \in Sources BY DEF Sources
  <2>2. \A c \in Channels : c \in Sources BY DEF Sources
  <2> QED BY <2>1, <2>2 DEF EndsAgree, SinksAgree, DetachesOnce
<1>11. FaultsAgree BY <1>1 DEF FaultsAgree
<1> QED BY <1>3, <1>4, <1>6, <1>7, <1>8, <1>9, <1>10, <1>11, Assemble

(* The invariant of the module.                                            *)
THEOREM Invariant == Spec => []IInv
<1>1. IInv /\ [Next]_vars => IInv' BY NextIInv DEF Step
<1> QED BY InitIInv, <1>1, PTL DEF Spec

-----------------------------------------------------------------------------
(* What the invariant says.                                                *)

(* A message is in one place and is not overtaken.                         *)
LEMMA Keeping == IInv => MessagesKept
<1> SUFFICES ASSUME IInv PROVE MessagesKept OBVIOUS
<1> USE DEF Delivered
<1>1. ASSUME NEW m \in CallIds, call[m].kind \in {"send", "emit"}
      PROVE  /\ call[m].source \in Sources
             /\ Held(call[m].source) \subseteq Offered(call[m].source)
  BY <1>1 DEF IInv, CallsAgree, CallAgrees, Sources, Offered
<1>2. ASSUME NEW m \in CallIds, call[m].kind \in {"send", "emit"}
      PROVE  /\ Cardinality(Delivered(m)) <= 1
             /\ call[m].status # "accepted" => Delivered(m) = {} /\ ~Buffered(m)
             /\ Delivered(m) # {} => ~Buffered(m)
             /\ (/\ call[m].status = "accepted"
                 /\ phase[call[m].source] \in {"open", "closed"}
                 /\ call[m].source \notin Latest)
                => Buffered(m) \/ Delivered(m) # {}
  <2>1. Cardinality(Delivered(m)) <= 1
    <3>1. CASE Delivered(m) = {}
      <4>1. Cardinality(Delivered(m)) = 0 BY <3>1, FS_EmptySet
      <4> QED BY <4>1
    <3>2. CASE Delivered(m) # {}
      <4>1. PICK i \in CallIds : call[i].got = m BY <3>2
      <4>2. \A k \in CallIds : call[k].got = m => k = i
        BY <4>1 DEF IInv, TakenAgree
      <4>3. Delivered(m) = {i} BY <4>1, <4>2
      <4>4. Cardinality(Delivered(m)) = 1 BY <4>3, FS_Singleton
      <4> QED BY <4>4
    <3> QED BY <3>1, <3>2
  <2>2. call[m].status # "accepted" => Delivered(m) = {} /\ ~Buffered(m)
    <3>1. \A i \in CallIds : call[i].got = m => call[m].status = "accepted"
      BY DEF IInv, TakenAgree
    <3>2. Buffered(m) => call[m].status = "accepted"
      BY <1>1, <1>2 DEF IInv, LinesAgree, Buffered
    <3> QED BY <3>1, <3>2
  <2>3. Delivered(m) # {} => ~Buffered(m)
    BY <1>1, <1>2 DEF IInv, LinesAgree, Buffered
  <2>4. (/\ call[m].status = "accepted"
         /\ phase[call[m].source] \in {"open", "closed"}
         /\ call[m].source \notin Latest)
        => Buffered(m) \/ Delivered(m) # {}
    BY DEF IInv, AcceptedKept
  <2> QED BY <2>1, <2>2, <2>3, <2>4
<1>3. Custody BY <1>2 DEF Custody
<1>4. NoOvertaking
  <2> SUFFICES ASSUME NEW m \in CallIds, NEW n \in CallIds, m < n,
                      call[m].source = call[n].source,
                      call[m].kind \in {"send", "emit"}, Delivered(n) # {}
               PROVE  ~Buffered(m) /\ m \notin senders[call[m].source]
    BY DEF NoOvertaking
  <2>1. PICK i \in CallIds : call[i].got = n OBVIOUS
  <2>2. \A l \in Offered(call[m].source) : n < l
    BY <2>1 DEF IInv, TakenAgree
  <2>3. ~(n < m) BY Numbers
  <2> QED BY <2>2, <2>3 DEF Buffered, Offered
<1> QED BY <1>3, <1>4 DEF IInv, MessagesKept

(***************************************************************************)
(* Calls, queues and timers agree and nobody waits beside the one it waits *)
(* for (register and detach, send and close in channel.ts), at any number  *)
(* of sources, arms, calls and faults.                                     *)
(***************************************************************************)
THEOREM WaitsAlwaysAgree == Spec => []WaitsAgree
<1>1. IInv => WaitsAgree BY DEF IInv
<1> QED BY <1>1, Invariant, PTL

(***************************************************************************)
(* Nothing that send or emit accepted is lost, doubled or overtaken, and   *)
(* detach is called once (channel.ts, events.ts).                          *)
(***************************************************************************)
THEOREM MessagesAlwaysKept == Spec => []MessagesKept
BY Keeping, Invariant, PTL

-----------------------------------------------------------------------------
(* The order of service.                                                   *)

ServedFirst ==
  \A k \in CallIds :
    (call'[k].got # call[k].got /\ call'[k].got \in CallIds)
    => LET s == call'[call'[k].got].source
       IN  \A i \in CallIds :
             ~(i < k /\ Pending(i) /\ Registered(i, s) /\ Registered(k, s))

(* Only a hand-over serves a registered wait, and it serves the first.     *)
LEMMA StepServes ==
  ASSUME IInv, CallsMove, LinesMove
  PROVE  ServedFirst
<1> SUFFICES ASSUME NEW k \in CallIds, call'[k].got # call[k].got,
                    NEW m \in CallIds, m = call'[k].got,
                    NEW i \in CallIds, NEW q, q = call'[m].source,
                    i < k, Registered(i, q), Registered(k, q)
             PROVE  FALSE
  BY DEF ServedFirst
<1>1. ASSUME NEW s \in Sources \union {NoSource}, Shrinks(s) PROVE FALSE
  BY <1>1 DEF Shrinks
<1>2. ASSUME NEW s \in Sources, NEW n \in CallIds, n = NewCall, Admit,
             Appends(s, n) \/ Blocks(s, n)
      PROVE  FALSE
  <2>1. call'[n].got = Nothing /\ \A j \in CallIds : j # n => call'[j] = call[j]
    BY <1>2 DEF Appends, Blocks
  <2> QED BY <2>1, Numbers
<1>3. ASSUME NEW s \in Sources, NEW n \in CallIds, n = NewCall, Admit, Takes(s, n)
      PROVE  FALSE
  <2>1. k = n BY <1>3 DEF Takes
  <2>2. Arms(n) = {} BY <1>3, NewUnused DEF Arms
  <2> QED BY <2>1, <2>2 DEF Registered
<1>4. ASSUME NEW s \in Sources, NEW n \in CallIds, n = NewCall, Admit,
             NEW j \in CallIds, Hands(s, n, j)
      PROVE  FALSE
  <2>1. k = j /\ m = n /\ q = s
    BY <1>4, Numbers DEF Hands
  <2>2. \A f \in receivers[s] : j <= f[1] BY <1>4 DEF Hands
  <2>3. PICK f \in receivers[s] : f[1] = i BY <2>1 DEF Registered
  <2> QED BY <2>1, <2>2, <2>3, Numbers
<1> QED BY <1>1, <1>2, <1>3, <1>4 DEF LinesMove

(***************************************************************************)
(* The order of registration is the order of service (shift in send of     *)
(* channel.ts and emit of events.ts), with any number of waits.            *)
(***************************************************************************)
THEOREM ServedInOrder == Spec => FirstComeFirstServed
<1>1. IInv /\ [Next]_vars => [ServedFirst]_call
  BY NextIInv, StepServes DEF Step
<1> QED BY <1>1, Invariant, PTL DEF Spec, FirstComeFirstServed, ServedFirst

-----------------------------------------------------------------------------
(* Channels, subscriptions and selections implement Delivery.              *)

IsMessage(m) == call[m].kind \in {"send", "emit"}
Has(i, m)    == call[i].got = m
OnLine(m)    == \E s \in Sources : m \in Offered(s)

\* What the mapping makes of a message.
FateIs(m) ==
  /\ FateOf(m) \in {"new", "offered", "taken", "lost"}
  /\ FateOf(m) = "new" <=> ~IsMessage(m)
  /\ FateOf(m) = "taken" <=> \E i \in CallIds : Has(i, m)
  /\ FateOf(m) = "offered" <=> OnLine(m)
  /\ \A i \in CallIds : Has(i, m) => TakerOf(m) = i
  /\ (\A i \in CallIds : ~Has(i, m)) => TakerOf(m) = Nothing

FatesAre == \A m \in CallIds : FateIs(m)

(* The mapping tells the four fates apart.                                 *)
LEMMA FatesNow == IInv => FatesAre
<1> SUFFICES ASSUME IInv, NEW m \in CallIds PROVE FateIs(m)
  BY DEF FatesAre
<1>1. Delivered(m) # {} <=> \E i \in CallIds : Has(i, m)
  BY DEF Delivered, Has
<1>2. \A i \in CallIds : Has(i, m) => IsMessage(m) /\ Delivered(m) = {i}
  BY DEF IInv, TakenAgree, Has, IsMessage, Delivered
<1>3. \A s \in Sources : m \in Offered(s) =>
        IsMessage(m) /\ Delivered(m) = {} /\ call[m].source = s
  BY OfferedFacts DEF IInv, LinesAgree, IsMessage, Delivered
<1>4. IsMessage(m) => call[m].source \in Sources
  BY DEF IInv, CallsAgree, CallAgrees, IsMessage, Sources
<1>5. IsMessage(m) =>
        (Buffered(m) \/ call[m].status = "blocked" <=> m \in Offered(call[m].source))
  BY <1>4 DEF IInv, WaitsAgree, RegistrationsAgree, Buffered, Offered
<1>6. IsMessage(m) =>
        (Buffered(m) \/ call[m].status = "blocked" <=> OnLine(m))
  BY <1>3, <1>4, <1>5 DEF OnLine
<1>7. ASSUME NEW i \in CallIds, Has(i, m) PROVE TakerOf(m) = i
  <2>1. Delivered(m) = {i} BY <1>2, <1>7
  <2> QED BY <2>1 DEF TakerOf
<1>8. (\A i \in CallIds : ~Has(i, m)) => TakerOf(m) = Nothing
  BY <1>1 DEF TakerOf
<1>9. /\ FateOf(m) \in {"new", "offered", "taken", "lost"}
      /\ FateOf(m) = "new" <=> ~IsMessage(m)
      /\ FateOf(m) = "taken" <=> IsMessage(m) /\ Delivered(m) # {}
      /\ FateOf(m) = "offered" <=>
           IsMessage(m) /\ Delivered(m) = {}
             /\ (Buffered(m) \/ call[m].status = "blocked")
  BY DEF FateOf, IsMessage
<1> QED BY <1>1, <1>2, <1>3, <1>6, <1>7, <1>8, <1>9 DEF FateIs, OnLine

(* After the step, too.                                                    *)
LEMMA FatesThen == IInv' => FatesAre'
BY FatesNow, PTL

(* What stays on its line, or off it, keeps its fate.                      *)
LEMMA FateStays ==
  ASSUME FatesAre, FatesAre', NEW m \in CallIds,
         IsMessage(m)' <=> IsMessage(m), OnLine(m)' <=> OnLine(m),
         \A i \in CallIds : Has(i, m)' <=> Has(i, m)
  PROVE  FateOf(m)' = FateOf(m) /\ TakerOf(m)' = TakerOf(m)
<1>1. FateIs(m) /\ FateIs(m)' BY DEF FatesAre
<1> QED BY <1>1 DEF FateIs

(* Messages are lost, or one is refused at once.                           *)
LEMMA LoseStep ==
  ASSUME IInv, IInv', NEW s \in Sources,
         NEW R \in {{}} \union {{m} : m \in CallIds},
         \A q \in Sources : /\ Offered(q)' \subseteq Offered(q)
                            /\ q # s => Offered(q)' = Offered(q),
         \A m \in CallIds : m \notin R => (IsMessage(m)' <=> IsMessage(m)),
         \A m \in R : ~IsMessage(m) /\ IsMessage(m)',
         \A i, m \in CallIds : Has(i, m)' <=> Has(i, m)
  PROVE  Lines!Next
<1> DEFINE ln == [q \in Sources |-> Offered(q)]
           ft == [m \in CallIds |-> FateOf(m)]
           tk == [m \in CallIds |-> TakerOf(m)]
           K  == Offered(s)'
<1>1. FatesAre /\ FatesAre' BY FatesNow, FatesThen
<1>2. R \subseteq CallIds /\ K \subseteq Offered(s) OBVIOUS
<1>3. \A q \in Sources : \A m \in Offered(q) :
        m \in CallIds /\ call[m].source = q /\ IsMessage(m)
  BY OfferedFacts DEF IsMessage
<1>4. ASSUME NEW m \in CallIds
      PROVE  /\ FateOf(m)' = IF m \in R \union (Offered(s) \ K)
                             THEN "lost" ELSE FateOf(m)
             /\ TakerOf(m)' = TakerOf(m)
             /\ m \in R => FateOf(m) = "new"
  <2>1. FateIs(m) /\ FateIs(m)' BY <1>1 DEF FatesAre
  <2>2. TakerOf(m)' = TakerOf(m) BY <2>1 DEF FateIs
  <2>3. CASE m \in R
    <3>1. FateOf(m) = "new" BY <2>1, <2>3 DEF FateIs
    <3>2. FateOf(m)' \notin {"new", "taken"} BY <2>1, <2>3, <3>1 DEF FateIs
    <3>3. ~OnLine(m)' BY <1>3, <2>3 DEF OnLine
    <3> QED BY <2>1, <2>2, <2>3, <3>1, <3>2, <3>3 DEF FateIs
  <2>4. CASE m \in Offered(s) \ K /\ m \notin R
    <3>1. OnLine(m) /\ ~OnLine(m)' BY <1>3, <2>4 DEF OnLine
    <3> QED BY <2>1, <2>2, <2>4, <3>1 DEF FateIs
  <2>5. CASE m \notin R \union (Offered(s) \ K)
    <3>1. OnLine(m)' <=> OnLine(m) BY <2>5 DEF OnLine
    <3> QED BY <1>1, <2>5, <3>1, FateStays
  <2> QED BY <2>3, <2>4, <2>5
<1>5. /\ ln[s] = Offered(s) /\ ln' = [ln EXCEPT ![s] = K]
      /\ ft' = [m \in CallIds |-> IF m \in R \union (Offered(s) \ K)
                                  THEN "lost" ELSE ft[m]]
      /\ tk' = tk /\ \A m \in R : ft[m] = "new"
  BY <1>2, <1>4
<1>6. Lines!Lose(s, K, R) BY <1>5 DEF Lines!Lose
<1>7. K \in SUBSET ln[s] BY <1>2, <1>5
<1> QED BY <1>6, <1>7 DEF Lines!Next

(* A new message joins the line of s behind the messages K.                *)
LEMMA OfferStep ==
  ASSUME IInv, IInv', NEW s \in Sources, NEW n \in CallIds,
         NEW K \in SUBSET Offered(s), s \notin Latest => K = Offered(s),
         \A m \in Offered(s) : m < n, Offered(s)' = K \union {n},
         \A q \in Sources : q # s => Offered(q)' = Offered(q),
         ~IsMessage(n),
         \A m \in CallIds : m # n => (IsMessage(m)' <=> IsMessage(m)),
         \A i, m \in CallIds : Has(i, m)' <=> Has(i, m)
  PROVE  Lines!Next
<1> DEFINE ln == [q \in Sources |-> Offered(q)]
           ft == [m \in CallIds |-> FateOf(m)]
           tk == [m \in CallIds |-> TakerOf(m)]
<1>1. FatesAre /\ FatesAre' BY FatesNow, FatesThen
<1>2. \A q \in Sources : \A m \in Offered(q) :
        m \in CallIds /\ call[m].source = q /\ IsMessage(m)
  BY OfferedFacts DEF IsMessage
<1>3. ASSUME NEW m \in CallIds
      PROVE  /\ FateOf(m)' = CASE m = n -> "offered"
                             [] m # n /\ m \in Offered(s) \ K -> "lost"
                             [] OTHER -> FateOf(m)
             /\ TakerOf(m)' = TakerOf(m)
  <2>1. FateIs(m) /\ FateIs(m)' BY <1>1 DEF FatesAre
  <2>2. TakerOf(m)' = TakerOf(m) BY <2>1 DEF FateIs
  <2>3. CASE m = n
    <3>1. OnLine(m)' BY <2>3 DEF OnLine
    <3> QED BY <2>1, <2>2, <2>3, <3>1 DEF FateIs
  <2>4. CASE m # n /\ m \in Offered(s) \ K
    <3>1. OnLine(m) /\ ~OnLine(m)' BY <1>2, <2>4 DEF OnLine
    <3>2. FateOf(m)' = "lost" BY <2>1, <2>4, <3>1 DEF FateIs
    <3> QED BY <2>2, <2>4, <3>2
  <2>5. CASE m # n /\ m \notin Offered(s) \ K
    <3>1. OnLine(m)' <=> OnLine(m) BY <2>5 DEF OnLine
    <3>2. FateOf(m)' = FateOf(m) BY <1>1, <2>5, <3>1, FateStays
    <3> QED BY <2>2, <2>5, <3>2
  <2> QED BY <2>3, <2>4, <2>5
<1>4. FateOf(n) = "new"
  <2>1. FateIs(n) BY <1>1 DEF FatesAre
  <2> QED BY <2>1 DEF FateIs
<1>5. /\ ln[s] = Offered(s) /\ ln' = [ln EXCEPT ![s] = K \union {n}]
      /\ ft' = [m \in CallIds |-> CASE m = n -> "offered"
                                  [] m # n /\ m \in Offered(s) \ K -> "lost"
                                  [] OTHER -> ft[m]]
      /\ tk' = tk /\ ft[n] = "new"
  BY <1>3, <1>4
<1>6. Lines!Offer(s, n, K) BY <1>5 DEF Lines!Offer
<1>7. K \in SUBSET ln[s] BY <1>5
<1> QED BY <1>6, <1>7 DEF Lines!Next

(* A wait gets message m, whether it stood on the line of s or is new.     *)
LEMMA DeliverStep ==
  ASSUME IInv, IInv', NEW s \in Sources, NEW m \in CallIds, NEW w \in CallIds,
         \/ ~IsMessage(m) /\ Offered(s) = {} /\ Offered(s)' = {}
         \/ /\ m \in Offered(s) /\ \A k \in Offered(s) : m <= k
            /\ Offered(s)' = Offered(s) \ {m},
         \A q \in Sources : q # s => Offered(q)' = Offered(q),
         \A k \in CallIds : k # m => (IsMessage(k)' <=> IsMessage(k)),
         Has(w, m)', \A k \in CallIds : ~Has(w, k),
         \A i, k \in CallIds : i # w => (Has(i, k)' <=> Has(i, k))
  PROVE  Lines!Next
<1> DEFINE ln == [q \in Sources |-> Offered(q)]
           ft == [k \in CallIds |-> FateOf(k)]
           tk == [k \in CallIds |-> TakerOf(k)]
<1>1. FatesAre /\ FatesAre' BY FatesNow, FatesThen
<1>2. FateIs(m) /\ FateIs(m)' BY <1>1 DEF FatesAre
<1>3. FateOf(m)' = "taken" /\ TakerOf(m)' = w BY <1>2 DEF FateIs
<1>4. ASSUME NEW k \in CallIds, k # m
      PROVE  FateOf(k)' = FateOf(k) /\ TakerOf(k)' = TakerOf(k)
  <2>1. ~Has(w, k)' BY <1>4 DEF Has
  <2>2. \A i \in CallIds : Has(i, k)' <=> Has(i, k) BY <2>1
  <2>3. OnLine(k)' <=> OnLine(k) BY <1>4 DEF OnLine
  <2> QED BY <1>1, <1>4, <2>2, <2>3, FateStays
<1>5. ASSUME NEW k \in CallIds PROVE TakerOf(k) # w
  <2>1. FateIs(k) BY <1>1 DEF FatesAre
  <2>2. CASE \E i \in CallIds : Has(i, k) BY <2>1, <2>2 DEF FateIs
  <2>3. CASE \A i \in CallIds : ~Has(i, k) BY <2>1, <2>3, Numbers DEF FateIs
  <2> QED BY <2>2, <2>3
<1>6. /\ ft' = [ft EXCEPT ![m] = "taken"] /\ tk' = [tk EXCEPT ![m] = w]
      /\ \A k \in CallIds : tk[k] # w
  BY <1>3, <1>4, <1>5
<1>7. Lines!Deliver(m, w) BY <1>6 DEF Lines!Deliver
<1>8. CASE ~IsMessage(m) /\ Offered(s) = {} /\ Offered(s)' = {}
  <2>1. ln' = ln /\ ln[s] = {} BY <1>8
  <2>2. ft[m] = "new" BY <1>2, <1>8 DEF FateIs
  <2>3. Lines!Pass(s, m, w) BY <1>7, <2>1, <2>2 DEF Lines!Pass
  <2> QED BY <2>3 DEF Lines!Next
<1>9. CASE /\ m \in Offered(s) /\ \A k \in Offered(s) : m <= k
           /\ Offered(s)' = Offered(s) \ {m}
  <2>1. ln[s] = Offered(s) /\ ln' = [ln EXCEPT ![s] = @ \ {m}] BY <1>9
  <2>2. Lines!Take(s, m, w) BY <1>7, <1>9, <2>1 DEF Lines!Take
  <2> QED BY <2>2 DEF Lines!Next
<1> QED BY <1>8, <1>9

(* Calls keep their kind and what they have got; a new one has neither.    *)
LEMMA MessagesStay ==
  ASSUME IInv, CallsMove
  PROVE  /\ ~Admit => \A m \in CallIds : IsMessage(m)' <=> IsMessage(m)
         /\ \A i, m \in CallIds : Has(i, m) => Has(i, m)'
<1>1. \A m \in CallIds : Moves(m) => (IsMessage(m)' <=> IsMessage(m))
  BY MovesKeep DEF IsMessage
<1>2. ~Admit => \A m \in CallIds : Moves(m) BY DEF CallsMove
<1>3. \A i, m \in CallIds : Has(i, m) => Has(i, m)'
  BY FatesFrame, Numbers DEF Has
<1> QED BY <1>1, <1>2, <1>3

(* The call just admitted is a message if it has a source.                 *)
LEMMA NewestMessage ==
  ASSUME IInv, CallsMove, Admit, NEW n \in CallIds, n = NewCall
  PROVE  /\ ~IsMessage(n)
         /\ IsMessage(n)' <=> call'[n].source \in Sources
         /\ \A m \in CallIds : m # n => (IsMessage(m)' <=> IsMessage(m))
<1>1. ~IsMessage(n) BY NewUnused DEF IsMessage
<1>2. calls \in Nat BY DEF IInv, WaitsAgree, TypeOK
<1>3. calls' # calls BY <1>2 DEF Admit, NewCall
<1>4. /\ Sends(n) \/ Waits(n)
      /\ \A m \in CallIds : m # n => Moves(m)
  BY <1>3 DEF CallsMove
<1>5. \A m \in CallIds : m # n => (IsMessage(m)' <=> IsMessage(m))
  BY <1>4, MovesKeep DEF IsMessage
<1>6. CASE Sends(n)
  <2>1. /\ call'[n].kind \in {"send", "emit"}
        /\ call'[n].source \in Sources
    BY <1>6 DEF Sends, Sources
  <2> QED BY <1>1, <1>5, <2>1 DEF IsMessage
<1>7. CASE Waits(n)
  <2>1. call'[n].kind = "wait" /\ call'[n].source \notin Sources
    BY <1>7, Numbers DEF Waits
  <2> QED BY <1>1, <1>5, <2>1 DEF IsMessage
<1> QED BY <1>4, <1>6, <1>7

(* Lines that shrink lose messages, and perhaps the one just refused.      *)
LEMMA ShrinkLines ==
  ASSUME IInv, IInv', CallsMove, NEW s \in Sources \union {NoSource}, Shrinks(s)
  PROVE  [Lines!Next]_(Lines!vars)
<1>1. \A i, m \in CallIds : Has(i, m)' <=> Has(i, m)
  <2> SUFFICES ASSUME NEW i \in CallIds, NEW m \in CallIds
               PROVE  Has(i, m)' <=> Has(i, m)
    OBVIOUS
  <2>1. Has(i, m) => Has(i, m)' BY MessagesStay
  <2>2. call'[i].got = call[i].got \/ call'[i].got \notin CallIds BY DEF Shrinks
  <2> QED BY <2>1, <2>2 DEF Has
<1>2. \A q \in Sources : /\ Offered(q)' \subseteq Offered(q)
                         /\ q # s => Offered(q)' = Offered(q)
  <2> SUFFICES ASSUME NEW q \in Sources
               PROVE  /\ Offered(q)' \subseteq Offered(q)
                      /\ q # s => Offered(q)' = Offered(q)
    OBVIOUS
  <2>1. Held(q)' = Held(q) \/ Held(q)' = {} BY DEF Shrinks, Held
  <2>2. q # s => messages'[q] = messages[q] /\ senders'[q] = senders[q]
    BY DEF Shrinks
  <2>3. q # s => Offered(q)' = Offered(q) BY <2>2 DEF Held, Offered
  <2>4. senders'[q] \subseteq senders[q] BY DEF Shrinks
  <2> QED BY <2>1, <2>3, <2>4 DEF Offered
<1>3. CASE \A m \in CallIds : IsMessage(m)' <=> IsMessage(m)
  <2>1. CASE s \in Sources
    <3>1. PICK R : R = {} OBVIOUS
    <3> QED BY <1>1, <1>2, <1>3, <2>1, <3>1, LoseStep
  <2>2. CASE s \notin Sources
    <3>1. FatesAre /\ FatesAre' BY FatesNow, FatesThen
    <3>2. \A m \in CallIds : OnLine(m)' <=> OnLine(m) BY <1>2, <2>2 DEF OnLine
    <3>3. \A m \in CallIds : FateOf(m)' = FateOf(m) /\ TakerOf(m)' = TakerOf(m)
      BY <1>1, <1>3, <3>1, <3>2, FateStays
    <3>4. [q \in Sources |-> Offered(q)]' = [q \in Sources |-> Offered(q)]
      BY <1>2, <2>2
    <3>5. [m \in CallIds |-> FateOf(m)]' = [m \in CallIds |-> FateOf(m)]
      BY <3>3
    <3>6. [m \in CallIds |-> TakerOf(m)]' = [m \in CallIds |-> TakerOf(m)]
      BY <3>3
    <3> QED BY <3>4, <3>5, <3>6 DEF Lines!vars
  <2> QED BY <2>1, <2>2
<1>4. CASE ~(\A m \in CallIds : IsMessage(m)' <=> IsMessage(m))
  <2>1. Admit BY <1>4, MessagesStay
  <2>2. PICK n \in CallIds : n = NewCall BY <2>1, NewUnused
  <2>3. /\ ~IsMessage(n) /\ IsMessage(n)' /\ call'[n].source \in Sources
        /\ \A m \in CallIds : m # n => (IsMessage(m)' <=> IsMessage(m))
    BY <1>4, <2>1, <2>2, NewestMessage
  <2>4. PICK q \in Sources : s \in Sources => q = s BY <2>3
  <2>5. PICK R \in {{m} : m \in CallIds} : R = {n} OBVIOUS
  <2>6. R \in {{}} \union {{m} : m \in CallIds} OBVIOUS
  <2>7. \A r \in Sources : /\ Offered(r)' \subseteq Offered(r)
                           /\ r # q => Offered(r)' = Offered(r)
    BY <1>2, <2>4
  <2>8. \A m \in CallIds : m \notin R => (IsMessage(m)' <=> IsMessage(m))
    BY <2>3, <2>5
  <2>9. \A m \in R : ~IsMessage(m) /\ IsMessage(m)' BY <2>3, <2>5
  <2> QED BY <1>1, <2>6, <2>7, <2>8, <2>9, LoseStep
<1> QED BY <1>3, <1>4

(* A new message joins the line of its source.                             *)
LEMMA JoinLines ==
  ASSUME IInv, IInv', CallsMove, Admit, NEW s \in Sources, NEW n \in CallIds,
         n = NewCall, Appends(s, n) \/ Blocks(s, n)
  PROVE  Lines!Next
<1>1. /\ ~IsMessage(n)
      /\ \A m \in CallIds : m # n => (IsMessage(m)' <=> IsMessage(m))
  BY NewestMessage
<1>2. \A m \in Offered(s) : m < n BY Newest
<1>3. \A i, m \in CallIds : Has(i, m)' <=> Has(i, m)
  <2>1. call[n].got = Nothing /\ call'[n].got = Nothing
    BY Newest DEF Appends, Blocks
  <2>2. \A i \in CallIds : i # n => call'[i] = call[i] BY DEF Appends, Blocks
  <2> QED BY <2>1, <2>2 DEF Has
<1>4. /\ messages \in [Sources -> Seq(CallIds)]
      /\ senders \in [Sources -> SUBSET CallIds]
  BY DEF IInv, WaitsAgree, TypeOK
<1>5. \A q \in Sources : q # s => Offered(q)' = Offered(q)
  <2>1. \A q \in Sources : q # s =>
          messages'[q] = messages[q] /\ senders'[q] = senders[q]
    BY <1>4 DEF Appends, Blocks
  <2> QED BY <2>1 DEF Offered, Held
<1>6. CASE Blocks(s, n)
  <2>1. Offered(s)' = Offered(s) \union {n}
    BY <1>4, <1>6 DEF Blocks, Offered, Held
  <2>2. PICK K \in SUBSET Offered(s) : K = Offered(s) OBVIOUS
  <2> QED BY <1>1, <1>2, <1>3, <1>5, <2>1, <2>2, OfferStep
<1>7. CASE Appends(s, n)
  <2>1. PICK r \in {Append(messages[s], n), <<n>>} :
          /\ messages' = [messages EXCEPT ![s] = r]
          /\ r = Append(messages[s], n) \/ s \in Latest
    BY <1>7 DEF Appends
  <2>2. /\ messages'[s] = r /\ senders'[s] = {} /\ senders[s] = {}
    BY <1>4, <1>7, <2>1 DEF Appends
  <2>3. CASE r = Append(messages[s], n)
    <3>1. /\ messages[s] \in Seq(CallIds) /\ Len(messages[s]) \in Nat
          /\ Len(r) = Len(messages[s]) + 1 /\ r[Len(messages[s]) + 1] = n
          /\ \A k \in 1..Len(messages[s]) : r[k] = messages[s][k]
      BY <1>4, <2>3
    <3>2. {r[k] : k \in 1..Len(r)} = Held(s) \union {n}
      BY <3>1 DEF Held
    <3>3. Held(s)' = Held(s) \union {n} BY <2>2, <3>2 DEF Held
    <3>4. Offered(s)' = Offered(s) \union {n} BY <2>2, <3>3 DEF Offered
    <3>5. PICK K \in SUBSET Offered(s) : K = Offered(s) OBVIOUS
    <3> QED BY <1>1, <1>2, <1>3, <1>5, <3>4, <3>5, OfferStep
  <2>4. CASE r = <<n>> /\ s \in Latest
    <3>1. Len(r) = 1 /\ r[1] = n BY <2>4
    <3>2. {r[k] : k \in 1..Len(r)} = {n} BY <3>1
    <3>3. Offered(s)' = {n} BY <2>2, <3>2 DEF Offered, Held
    <3>4. PICK K \in SUBSET Offered(s) : K = {} OBVIOUS
    <3>5. Offered(s)' = K \union {n} BY <3>3, <3>4
    <3> QED BY <1>1, <1>2, <1>3, <1>5, <2>4, <3>5, OfferStep
  <2> QED BY <2>1, <2>3, <2>4
<1> QED BY <1>6, <1>7

(* A message leaves the line for one wait, or passes an empty one.         *)
LEMMA LeaveLines ==
  ASSUME IInv, IInv', CallsMove, Admit, NEW s \in Sources, NEW n \in CallIds,
         n = NewCall, Takes(s, n) \/ \E k \in CallIds : Hands(s, n, k)
  PROVE  Lines!Next
<1>1. /\ ~IsMessage(n)
      /\ \A m \in CallIds : m # n => (IsMessage(m)' <=> IsMessage(m))
      /\ IsMessage(n)' <=> call'[n].source \in Sources
  BY NewestMessage
<1>2. messages \in [Sources -> Seq(CallIds)] /\ senders \in [Sources -> SUBSET CallIds]
  BY DEF IInv, WaitsAgree, TypeOK
<1>3. CASE Takes(s, n)
  <2>1. /\ Pipe(s) # <<>> /\ call'[n].got = Outcome(s)
        /\ call'[n].status = "committed"
        /\ \A i \in CallIds : i # n => call'[i].got = call[i].got
        /\ messages' = [messages EXCEPT ![s] = Rest(s)]
        /\ senders' = [senders EXCEPT ![s] = @ \ Released(s)]
    BY <1>3 DEF Takes
  <2>2. Outcome(s) \in Offered(s) /\ \A k \in Offered(s) : Outcome(s) <= k
    BY <2>1, PipeFacts, ReleasedFirst DEF Offered
  <2>3. PICK o \in CallIds : o = Outcome(s) BY <2>2, OfferedFacts
  <2>4. Offered(s)' = Offered(s) \ {o} BY <2>1, <2>3, TakenLine
  <2>5. \A q \in Sources : q # s => Offered(q)' = Offered(q)
    <3>1. \A q \in Sources : q # s =>
            messages'[q] = messages[q] /\ senders'[q] = senders[q]
      BY <1>2, <2>1
    <3> QED BY <3>1 DEF Offered, Held
  <2>6. \A k \in CallIds : k # o => (IsMessage(k)' <=> IsMessage(k))
    <3>1. ~IsMessage(n)'
      <4>1. CallAgrees(n)' BY DEF IInv, CallsAgree
      <4> QED BY <2>1, <4>1 DEF CallAgrees, IsMessage
    <3> QED BY <1>1, <3>1
  <2>7. Has(n, o)' /\ \A k \in CallIds : ~Has(n, k)
    BY <2>1, <2>3, Newest, Numbers DEF Has
  <2>8. \A i, k \in CallIds : i # n => (Has(i, k)' <=> Has(i, k))
    BY <2>1 DEF Has
  <2> QED BY <2>2, <2>3, <2>4, <2>5, <2>6, <2>7, <2>8, DeliverStep
<1>4. ASSUME NEW k \in CallIds, Hands(s, n, k) PROVE Lines!Next
  <2>1. /\ messages' = messages /\ senders' = senders
        /\ messages[s] = <<>> /\ senders[s] = {} /\ Pending(k)
        /\ call'[n].got = Nothing /\ call'[k].got = n
        /\ \A i \in CallIds : i # n /\ i # k => call'[i] = call[i]
    BY <1>4 DEF Hands
  <2>2. /\ Offered(s) = {} /\ Offered(s)' = {}
        /\ \A q \in Sources : q # s => Offered(q)' = Offered(q)
    BY <2>1 DEF Offered, Held
  <2>3. call[k].got = Nothing
    BY <2>1 DEF IInv, CallsAgree, CallAgrees, Pending
  <2>4. Has(k, n)' /\ \A m \in CallIds : ~Has(k, m)
    BY <2>1, <2>3, Numbers DEF Has
  <2>5. \A i, m \in CallIds : i # k => (Has(i, m)' <=> Has(i, m))
    BY <2>1, Newest DEF Has
  <2> QED BY <1>1, <2>2, <2>4, <2>5, DeliverStep
<1> QED BY <1>3, <1>4

(* Every step of Messaging is one of Delivery, or none.                    *)
LEMMA NextLines ==
  ASSUME IInv, [Next]_vars
  PROVE  [Lines!Next]_(Lines!vars)
<1>1. IInv' /\ CallsMove /\ LinesMove BY NextIInv DEF Step
<1> QED BY <1>1, ShrinkLines, JoinLines, LeaveLines DEF LinesMove

(***************************************************************************)
(* Channels, subscriptions and selections (channel.ts, events.ts,          *)
(* receiving.ts, selecting.ts) implement Delivery: whatever is buffered,   *)
(* blocked, registered, cancelled or closed, each source is one line that  *)
(* is served in order, every message to one wait at most.                  *)
(***************************************************************************)
THEOREM Refinement == Spec => ImplementsDelivery
<1>1. Init => Lines!Init
  <2> SUFFICES ASSUME Init PROVE Lines!Init OBVIOUS
  <2>1. IInv BY InitIInv
  <2>2. /\ \A s \in Sources : messages[s] = <<>> /\ senders[s] = {}
        /\ \A i \in CallIds : call[i] = Unused
    BY DEF Init
  <2>3. Unused.kind = "none" /\ Unused.got = Nothing BY DEF Unused
  <2>4. \A s \in Sources : Offered(s) = {} BY <2>2 DEF Offered, Held
  <2>5. FatesAre BY <2>1, FatesNow
  <2>6. \A m \in CallIds : ~IsMessage(m) /\ \A i \in CallIds : ~Has(i, m)
    BY <2>2, <2>3, Numbers DEF IsMessage, Has
  <2>7. \A m \in CallIds : FateOf(m) = "new" /\ TakerOf(m) = Nothing
    BY <2>5, <2>6 DEF FatesAre, FateIs
  <2> QED BY <2>4, <2>7 DEF Lines!Init
<1>2. IInv /\ [Next]_vars => [Lines!Next]_(Lines!vars) BY NextLines
<1> QED BY <1>1, <1>2, Invariant, PTL DEF Spec, ImplementsDelivery, Lines!Spec
=============================================================================
