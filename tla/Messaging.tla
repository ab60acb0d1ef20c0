------------------------------ MODULE Messaging ------------------------------
(***************************************************************************)
(* Messages between the tasks of one host: the bounded channels of         *)
(* src/channel.ts, the event subscriptions of src/events.ts, and the two   *)
(* ways of waiting on them, receiveFrom (src/receiving.ts) and selectFrom  *)
(* (src/selecting.ts, reached through src/select.ts).                      *)
(*                                                                         *)
(* All of it runs on one JavaScript thread and awaits nothing while it     *)
(* changes a queue, so every operation, timer and abort is one step.  What *)
(* interleaves is the calls: each is admitted, may stay pending for any    *)
(* number of steps, and is decided by somebody else's step.                *)
(*                                                                         *)
(* Calls are numbered as they are admitted and a message is the number of  *)
(* the send or emit that brought it.  Every entry of a waiting queue is    *)
(* pushed when its call is admitted, so a queue is the set of its linked   *)
(* entries and its head is the least.                                      *)
(***************************************************************************)
EXTENDS Integers, Sequences, FiniteSets

CONSTANTS
  Channels,       \* ScopedChannel objects
  Subscriptions,  \* Subscription objects
  Latest,         \* the subscriptions whose policy is `latest`
  Capacity,       \* of a channel, or of a subscription's `queue` policy
  Timer,          \* a Select.after arm
  ArmLists,       \* the arm lists that tasks wait on
  MaxCalls,       \* bound: sends, emits and waits ever admitted
  MaxFaults,      \* bound: failures of the granted clock
  Closed          \* the outcome #None

Sources == Channels \union Subscriptions

ASSUME SourceAssumption ==
  /\ Channels \intersect Subscriptions = {} /\ Timer \notin Sources
  /\ Latest \subseteq Subscriptions
ASSUME CapacityAssumption ==
  /\ Capacity \in [Sources -> Nat]
  /\ \A s \in Subscriptions : Capacity[s] > 0
ASSUME ArmAssumption ==
  \A arms \in ArmLists :
    arms \in Seq(Sources \union {Timer}) /\ arms # <<>>
ASSUME BoundAssumption == MaxCalls \in Nat /\ MaxFaults \in Nat
ASSUME ClosedAssumption == Closed \notin Nat

CallIds == 1..MaxCalls

VARIABLES
  calls,      \* calls admitted so far
  call,       \* what each asked for, and what became of it
  phase,      \* #closed and #signal of a channel, #state of a subscription
  messages,   \* #messages
  senders,    \* #senders
  receivers,  \* #receivers of a channel, #waiting of a subscription
  timer,      \* the clock arms of a selection
  failures,   \* selections whose drainFailures is not empty
  sink,       \* how far attach has come
  detaches,   \* calls of the detach function that subscribe returned
  faults      \* failures of the clock so far

sourceVars == <<phase, messages, senders, receivers>>
sinkVars   == <<sink, detaches>>
timerVars  == <<timer, failures, faults>>
vars == <<calls, call, sourceVars, timerVars, sinkVars>>

NoSource == Timer

(***************************************************************************)
(* A send ends "accepted" (true), "refused" (false) or "rejected"; it is   *)
(* "blocked" while linked in #senders.  An emit ends "accepted" or         *)
(* "dropped".  A wait is "pending", then "committed" to an arm or          *)
(* "failing"; it is "received" or "rejected" once its timers have drained. *)
(***************************************************************************)
Status == {"unused", "blocked", "accepted", "refused", "dropped",
           "pending", "committed", "failing", "received", "rejected"}

Nothing == 0

Call == [kind   : {"none", "send", "emit", "wait"},
         source : Sources \union {NoSource},
         arms   : ArmLists \union {<<>>},
         status : Status,
         arm    : Nat,                             \* the winner
         got    : CallIds \union {Nothing, Closed}]

Unused == [kind |-> "none", source |-> NoSource, arms |-> <<>>,
           status |-> "unused", arm |-> 0, got |-> Nothing]

Arms(i) == 1..Len(call[i].arms)

ArmsAt(arms, s) == {a \in 1..Len(arms) : arms[a] = s}

TimerArms(arms) == ArmsAt(arms, Timer)

\* Types, and the arms an entry or a timer may belong to.
TypeOK ==
  /\ calls \in 0..MaxCalls
  /\ call \in [CallIds -> Call]
  /\ phase \in [Sources -> {"open", "closed", "failed", "aborted", "revoked"}]
  /\ messages \in [Sources -> Seq(CallIds)]
  /\ senders \in [Sources -> SUBSET CallIds]
  /\ receivers \in [Sources -> SUBSET (CallIds \X Nat)]
  /\ \A s \in Sources : \A e \in receivers[s] :
       e[2] \in Arms(e[1]) /\ call[e[1]].arms[e[2]] = s
  /\ \A i \in CallIds :
       timer[i] \in [TimerArms(call[i].arms)
                       -> {"off", "sleeping", "aborted", "drained"}]
  /\ failures \subseteq CallIds
  /\ sink \in [Subscriptions -> {"none", "attaching", "held", "gone"}]
  /\ detaches \in [Subscriptions -> Nat]
  /\ faults \in 0..MaxFaults

Init ==
  /\ calls = 0
  /\ call = [i \in CallIds |-> Unused]
  /\ phase = [s \in Sources |-> "open"]
  /\ messages = [s \in Sources |-> <<>>]
  /\ senders = [s \in Sources |-> {}]
  /\ receivers = [s \in Sources |-> {}]
  /\ timer = [i \in CallIds |-> <<>>]
  /\ failures = {}
  /\ sink = [s \in Subscriptions |-> "none"]
  /\ detaches = [s \in Subscriptions |-> 0]
  /\ faults = 0

-----------------------------------------------------------------------------
(* Admission *)

\* subscribe runs to its end before another task does.
Quiet == \A s \in Subscriptions : sink[s] # "attaching"

\* The number the next call gets.
NewCall == calls + 1

\* One more call is admitted.
Admit == calls < MaxCalls /\ calls' = NewCall

Sent(s, kind, status) ==
  [Unused EXCEPT !.kind = kind, !.source = s, !.status = status]

\* A clock fails.
Fault == faults < MaxFaults /\ faults' = faults + 1

-----------------------------------------------------------------------------
(* Settling waits *)

Pending(i) == call[i].status = "pending"

\* Mutant: the newest sender instead of the oldest.
FirstReversed(S) == CHOOSE i \in S : \A k \in S : k <= i

\* The head of a queue of senders.
First(S) == CHOOSE i \in S : \A k \in S : i <= k

Before(e, f) == e[1] < f[1] \/ (e[1] = f[1] /\ e[2] < f[2])

\* The entries whose accept() will not return false.
Willing(s) == {e \in receivers[s] : Pending(e[1])}

\* Mutant: the newest receiver instead of the oldest.
FirstWillingReversed(s) ==
  CHOOSE e \in Willing(s) : \A f \in Willing(s) : e = f \/ Before(f, e)

FirstWilling(s) ==
  CHOOSE e \in Willing(s) : \A f \in Willing(s) : e = f \/ Before(e, f)

\* The arm of wait i that stands first in the queue of s.
FirstArm(i, s) ==
  CHOOSE a \in Arms(i) :
    /\ <<i, a>> \in receivers[s]
    /\ \A b \in Arms(i) : <<i, b>> \in receivers[s] => a <= b

\* pending = false, with an outcome
Committed(c, a, outcome) ==
  [c EXCEPT !.status = "committed", !.arm = a, !.got = outcome]

\* pending = false, with a cause
Failing(c) == [c EXCEPT !.status = "failing"]

\* Mutant: the registrations of the losing arms stay linked.
UnregisterNone(queues, W) == queues

(***************************************************************************)
(* detach: the registrations of the waits W leave every queue and their    *)
(* timers, but a winning one, are aborted.                                 *)
(***************************************************************************)
Unregister(queues, W) == [s \in Sources |-> {e \in queues[s] : e[1] \notin W}]

StopTimers(arms) ==
  [a \in DOMAIN arms |-> IF arms[a] = "sleeping" THEN "aborted" ELSE arms[a]]

Stop(W) ==
  [i \in CallIds |-> IF i \in W THEN StopTimers(timer[i]) ELSE timer[i]]

\* Every wait registered at s and still pending.
WaitingAt(s) == {e[1] : e \in Willing(s)}

\* The waits W reject: their cause is not what the model tells apart.
Rejecting(W) ==
  [i \in CallIds |-> IF i \in W THEN Failing(call[i]) ELSE call[i]]

\* The waits at s, all of them woken with #None.
Woken(s) ==
  [i \in CallIds |-> IF i \in WaitingAt(s)
                     THEN Committed(call[i], FirstArm(i, s), Closed)
                     ELSE call[i]]

-----------------------------------------------------------------------------
(* Sending *)

(***************************************************************************)
(* The loop over the receivers of s: entries are shifted until one accepts *)
(* the new message.                                                        *)
(***************************************************************************)
Hand(s, kind) ==
  LET e == FirstWilling(s)
  IN  /\ Willing(s) # {}
      /\ call' = [call EXCEPT ![NewCall] = Sent(s, kind, "accepted"),
                              ![e[1]] = Committed(@, e[2], NewCall)]
      /\ receivers' =
           Unregister([receivers EXCEPT ![s] = {f \in @ : Before(e, f)}],
                      {e[1]})
      /\ timer' = Stop({e[1]})
      /\ UNCHANGED <<messages, senders>>

\* The loop has emptied the queue of s and nobody took the message.
NoTaker(s) ==
  /\ Willing(s) = {}
  /\ receivers' = [receivers EXCEPT ![s] = {}]
  /\ timer' = timer

Buffer(c) ==
  /\ NoTaker(c)
  /\ Len(messages[c]) < Capacity[c]
  /\ messages' = [messages EXCEPT ![c] = Append(@, NewCall)]
  /\ call' = [call EXCEPT ![NewCall] = Sent(c, "send", "accepted")]
  /\ UNCHANGED senders

Block(c) ==
  /\ NoTaker(c)
  /\ Len(messages[c]) >= Capacity[c]
  /\ senders' = [senders EXCEPT ![c] = @ \union {NewCall}]
  /\ call' = [call EXCEPT ![NewCall] = Sent(c, "send", "blocked")]
  /\ UNCHANGED messages

\* A send that changes nothing: the channel is closed, or its scope has ended.
Turned(c, status) ==
  /\ call' = [call EXCEPT ![NewCall] = Sent(c, "send", status)]
  /\ UNCHANGED <<messages, senders, receivers, timer>>

Send(c) ==
  /\ Quiet /\ Admit
  /\ \/ phase[c] \in {"aborted", "revoked"} /\ Turned(c, "rejected")
     \/ phase[c] = "closed" /\ Turned(c, "refused")
     \/ phase[c] = "open" /\ (Hand(c, "send") \/ Buffer(c) \/ Block(c))
  /\ UNCHANGED <<phase, failures, sinkVars, faults>>

-----------------------------------------------------------------------------
(* Waiting *)

\* Mutant: blocked senders are not looked at.
ReadyBuffered(s) ==
  phase[s] \in {"open", "closed"}
    /\ (messages[s] # <<>> \/ phase[s] = "closed")

\* register finds a message, a blocked sender or a closed source.
Ready(s) ==
  phase[s] \in {"open", "closed"}
    /\ (messages[s] # <<>> \/ senders[s] # {} \/ phase[s] = "closed")

\* register rejects the waiter or throws.
Refusing(s) == phase[s] \in {"failed", "aborted"}

(***************************************************************************)
(* What a take from s sees: the buffer, with the first blocked sender      *)
(* behind it.                                                              *)
(***************************************************************************)
Pipe(s) ==
  messages[s] \o IF senders[s] = {} THEN <<>> ELSE <<First(senders[s])>>

Outcome(s) == IF Pipe(s) = <<>> THEN Closed ELSE Head(Pipe(s))

\* Mutant: the message taken stays in the buffer.
RestPeeked(s) == Pipe(s)

Rest(s) == IF Pipe(s) = <<>> THEN <<>> ELSE Tail(Pipe(s))

\* The first blocked sender of s, which every take lets go.
Released(s) == IF senders[s] = {} THEN {} ELSE {First(senders[s])}

Finish(cs, S, status) ==
  [i \in CallIds |->
     IF i \in S THEN [cs[i] EXCEPT !.status = status] ELSE cs[i]]

\* The timers of a new selection, of which the arms before d were admitted.
Started(arms, d, state) ==
  [a \in TimerArms(arms) |-> IF a < d THEN state ELSE "off"]

NewWait(arms) == [Unused EXCEPT !.kind = "wait", !.arms = arms,
                                !.status = "pending"]

\* No arm is ready: every one is registered, every timer started.
Register(arms) ==
  /\ call' = [call EXCEPT ![NewCall] = NewWait(arms)]
  /\ receivers' = [s \in Sources |-> receivers[s] \union
                     {<<NewCall, a>> : a \in ArmsAt(arms, s)}]
  /\ timer' = [timer EXCEPT ![NewCall] =
                 Started(arms, Len(arms) + 1, "sleeping")]
  /\ UNCHANGED <<messages, senders>>

\* Arm d is ready: its source is read, the arms before it are detached.
TakeAt(arms, d) ==
  LET s == arms[d]
  IN  /\ call' = Finish([call EXCEPT ![NewCall] =
                           Committed(NewWait(arms), d, Outcome(s))],
                        Released(s), "accepted")
      /\ messages' = [messages EXCEPT ![s] = Rest(s)]
      /\ senders' = [senders EXCEPT ![s] = @ \ Released(s)]
      /\ timer' = [timer EXCEPT ![NewCall] = Started(arms, d, "aborted")]
      /\ UNCHANGED receivers

\* Arm d rejects the wait, or the wait is rejected before any arm (d = 1).
RefuseAt(arms, d) ==
  /\ call' = [call EXCEPT ![NewCall] = Failing(NewWait(arms))]
  /\ timer' = [timer EXCEPT ![NewCall] = Started(arms, d, "aborted")]
  /\ UNCHANGED <<messages, senders, receivers>>

\* The arms that decide a wait in the loop that admits it.
Deciding(arms) ==
  {a \in 1..Len(arms) :
     arms[a] # Timer /\ (Ready(arms[a]) \/ Refusing(arms[a]))}

Revoked(arms) ==
  \E a \in 1..Len(arms) : arms[a] # Timer /\ phase[arms[a]] = "revoked"

(***************************************************************************)
(* A task waits: Channel.receive and Events.next are waits on one source,  *)
(* Select.wait on any list of arms.  A revoked handle fails the call while *)
(* its arms are still being read; then the first arm that is ready or      *)
(* refuses decides; a clock may also throw when its arm is reached.        *)
(***************************************************************************)
Wait(arms) ==
  /\ Quiet /\ Admit
  /\ \A a \in 1..Len(arms) : arms[a] \in Subscriptions
       => sink[arms[a]] \in {"held", "gone"}
  /\ LET D == Deciding(arms)
         d == First(D)
     IN \/ Revoked(arms) /\ RefuseAt(arms, 1) /\ UNCHANGED faults
        \/ /\ ~Revoked(arms)
           /\ \/ D = {} /\ Register(arms) /\ UNCHANGED faults
              \/ D # {} /\ Ready(arms[d]) /\ TakeAt(arms, d) /\ UNCHANGED faults
              \/ D # {} /\ Refusing(arms[d]) /\ RefuseAt(arms, d)
                 /\ UNCHANGED faults
              \/ \E t \in TimerArms(arms) :
                   /\ \A a \in D : t < a
                   /\ Fault /\ RefuseAt(arms, t)
  /\ UNCHANGED <<phase, failures, sinkVars>>

\* The caller's signal aborts a blocked send.
AbortSend(i) ==
  /\ Quiet
  /\ call[i].status = "blocked"
  /\ call' = [call EXCEPT ![i].status = "rejected"]
  /\ senders' = [senders EXCEPT ![call[i].source] = @ \ {i}]
  /\ UNCHANGED <<calls, phase, messages, receivers, timerVars, sinkVars>>

\* The caller's signal aborts a pending wait.
AbortWait(i) ==
  /\ Quiet
  /\ Pending(i)
  /\ call' = Rejecting({i})
  /\ receivers' = Unregister(receivers, {i})
  /\ timer' = Stop({i})
  /\ UNCHANGED <<calls, phase, messages, senders, failures, sinkVars, faults>>

-----------------------------------------------------------------------------
(* Clock arms *)

\* sleep completes while the selection is pending.
TimerFires(i, a) ==
  /\ Quiet
  /\ Pending(i) /\ timer[i][a] = "sleeping"
  /\ call' = [call EXCEPT ![i] = Committed(@, a, Nothing)]
  /\ receivers' = Unregister(receivers, {i})
  /\ timer' = [Stop({i}) EXCEPT ![i][a] = "drained"]
  /\ UNCHANGED <<calls, phase, messages, senders, failures, sinkVars, faults>>

\* sleep rejects while the selection is pending.
TimerFails(i, a) ==
  /\ Quiet /\ Fault
  /\ Pending(i) /\ timer[i][a] = "sleeping"
  /\ call' = Rejecting({i})
  /\ receivers' = Unregister(receivers, {i})
  /\ timer' = [Stop({i}) EXCEPT ![i][a] = "drained"]
  /\ UNCHANGED <<calls, phase, messages, senders, failures, sinkVars>>

\* A losing sleep ends, with its abort reason or because it was over already.
TimerDrains(i, a) ==
  /\ Quiet
  /\ timer[i][a] = "aborted"
  /\ timer' = [timer EXCEPT ![i][a] = "drained"]
  /\ UNCHANGED <<calls, call, sourceVars, failures, sinkVars, faults>>

\* A losing sleep rejects with something else.
TimerSpoils(i, a) ==
  /\ Quiet /\ Fault
  /\ timer[i][a] = "aborted"
  /\ timer' = [timer EXCEPT ![i][a] = "drained"]
  /\ failures' = failures \union {i}
  /\ UNCHANGED <<calls, call, sourceVars, sinkVars>>

\* Mutant: timers that were never started are waited for.
DrainedAll(i) == \A a \in DOMAIN timer[i] : timer[i][a] = "drained"

Drained(i) == \A a \in DOMAIN timer[i] : timer[i][a] \in {"off", "drained"}

(***************************************************************************)
(* The two awaits at the end of selectFrom; a receive has no timers.  A    *)
(* message that was taken is lost when a timer's cleanup has failed.       *)
(***************************************************************************)
Return(i) ==
  /\ Quiet
  /\ call[i].status \in {"committed", "failing"}
  /\ Drained(i)
  /\ call' = [call EXCEPT ![i].status =
                IF @ = "committed" /\ i \notin failures
                THEN "received" ELSE "rejected"]
  /\ UNCHANGED <<calls, sourceVars, timerVars, sinkVars>>

-----------------------------------------------------------------------------
(* The life of a source *)

\* Programs hold the handle of a subscription once attach has returned; the
\* event source holds its sink from the start.
Subscribed(s) == s \in Subscriptions /\ sink[s] # "none"

\* Nobody but the event source of s acts while s is attaching.
Alone(s) == \A r \in Subscriptions : sink[r] = "attaching" => r = s

(***************************************************************************)
(* #unsubscribe: detach is called if attach has stored it.                 *)
(***************************************************************************)
Unsubscribe(s) ==
  IF s \in Subscriptions /\ sink[s] = "held"
  THEN /\ sink' = [sink EXCEPT ![s] = "gone"]
       /\ detaches' = [detaches EXCEPT ![s] = @ + 1]
  ELSE UNCHANGED sinkVars

\* The waits at s are decided as `settled` has it and its senders as `status`.
Settle(s, settled, status) ==
  /\ call' = Finish(settled, senders[s], status)
  /\ senders' = [senders EXCEPT ![s] = {}]
  /\ receivers' =
       Unregister([receivers EXCEPT ![s] = {}], WaitingAt(s))
  /\ timer' = Stop(WaitingAt(s))

\* Channel.close, Events.close, or the event source closes its sink.
Close(s) ==
  /\ Alone(s) /\ (s \in Subscriptions => Subscribed(s))
  /\ phase[s] = "open"
  /\ phase' = [phase EXCEPT ![s] = "closed"]
  /\ Settle(s, Woken(s), "refused")
  /\ Unsubscribe(s)
  /\ UNCHANGED <<calls, messages, failures, faults>>

\* The channel's scope is cancelled: the abort listener of the constructor.
AbortScope(c) ==
  /\ Quiet
  /\ phase[c] \in {"open", "closed"}
  /\ phase' = [phase EXCEPT ![c] = "aborted"]
  /\ messages' = [messages EXCEPT ![c] = <<>>]
  /\ Settle(c, Rejecting(WaitingAt(c)), "rejected")
  /\ UNCHANGED <<calls, failures, sinkVars, faults>>

\* The lease of the endpoints is released, after the scope was cancelled.
Revoke(c) ==
  /\ Quiet
  /\ phase[c] = "aborted"
  /\ phase' = [phase EXCEPT ![c] = "revoked"]
  /\ UNCHANGED <<calls, call, messages, senders, receivers, timerVars,
                 sinkVars>>

\* The lease of a subscription is released: dispose closes it and clears it.
Dispose(s) ==
  /\ Quiet /\ Subscribed(s)
  /\ phase[s] # "revoked"
  /\ phase' = [phase EXCEPT ![s] = "revoked"]
  /\ messages' = [messages EXCEPT ![s] = <<>>]
  /\ IF phase[s] = "open"
     THEN Settle(s, Woken(s), "refused") /\ Unsubscribe(s)
     ELSE UNCHANGED <<call, senders, receivers, timer, sinkVars>>
  /\ UNCHANGED <<calls, failures, faults>>

-----------------------------------------------------------------------------
(* Subscriptions *)

\* Events.subscribe: the handle is granted, then the source is called.
Attach(s) ==
  /\ Quiet /\ sink[s] = "none"
  /\ sink' = [sink EXCEPT ![s] = "attaching"]
  /\ UNCHANGED <<calls, call, sourceVars, timerVars, detaches>>

\* Mutant: detach is stored although the subscription has ended meanwhile.
AttachReturnsHeld(s) ==
  /\ sink[s] = "attaching"
  /\ sink' = [sink EXCEPT ![s] = "held"]
  /\ UNCHANGED <<calls, call, sourceVars, timerVars, detaches>>

\* The source's registration returns; it may have ended the subscription.
AttachReturns(s) ==
  /\ sink[s] = "attaching"
  /\ sink' = [sink EXCEPT ![s] = IF phase[s] = "open" THEN "held" ELSE "gone"]
  /\ detaches' = [detaches EXCEPT ![s] = IF phase[s] = "open" THEN @ ELSE @ + 1]
  /\ UNCHANGED <<calls, call, sourceVars, timerVars>>

\* fail, with the call records that the step has made so far.
FailWith(s, settled) ==
  /\ phase' = [phase EXCEPT ![s] = "failed"]
  /\ messages' = [messages EXCEPT ![s] = <<>>]
  /\ Settle(s, settled, "refused")
  /\ Unsubscribe(s)

\* The event source fails its sink.
Fail(s) ==
  /\ Alone(s) /\ Subscribed(s)
  /\ phase[s] = "open"
  /\ FailWith(s, Rejecting(WaitingAt(s)))
  /\ UNCHANGED <<calls, failures, faults>>

\* `latest` forgets what was not delivered; `queue` appends while it has room.
Keep(s) ==
  /\ NoTaker(s)
  /\ s \in Latest \/ Len(messages[s]) < Capacity[s]
  /\ messages' = [messages EXCEPT ![s] =
                    IF s \in Latest THEN <<NewCall>> ELSE Append(@, NewCall)]
  /\ call' = [call EXCEPT ![NewCall] = Sent(s, "emit", "accepted")]
  /\ UNCHANGED senders

Overflow(s) ==
  /\ Willing(s) = {}
  /\ s \notin Latest /\ Len(messages[s]) >= Capacity[s]
  /\ FailWith(s, [call EXCEPT ![NewCall] = Sent(s, "emit", "dropped")])

\* The event source emits; it may do so after the subscription has ended.
Emit(s) ==
  /\ Alone(s) /\ Subscribed(s) /\ Admit
  /\ \/ /\ phase[s] # "open"
        /\ call' = [call EXCEPT ![NewCall] = Sent(s, "emit", "dropped")]
        /\ UNCHANGED <<sourceVars, timer, sinkVars>>
     \/ /\ phase[s] = "open"
        /\ \/ (Hand(s, "emit") \/ Keep(s)) /\ UNCHANGED <<phase, sinkVars>>
           \/ Overflow(s)
  /\ UNCHANGED <<failures, faults>>

-----------------------------------------------------------------------------
Next ==
  \/ \E c \in Channels : Send(c) \/ AbortScope(c) \/ Revoke(c)
  \/ \E s \in Sources : Close(s)
  \/ \E s \in Subscriptions :
       Attach(s) \/ AttachReturns(s) \/ Emit(s) \/ Fail(s) \/ Dispose(s)
  \/ \E arms \in ArmLists : Wait(arms)
  \/ \E i \in CallIds : AbortSend(i) \/ AbortWait(i) \/ Return(i)
  \/ \E i \in CallIds : \E a \in DOMAIN timer[i] :
       TimerFires(i, a) \/ TimerFails(i, a)
         \/ TimerDrains(i, a) \/ TimerSpoils(i, a)

Spec == Init /\ [][Next]_vars

(***************************************************************************)
(* An aborted sleep settles (the standard clock rejects it from its abort  *)
(* listener), the promises that wait for it continue, and a registration   *)
(* with an event source returns.                                           *)
(***************************************************************************)
Fairness ==
  /\ \A s \in Subscriptions : WF_vars(AttachReturns(s))
  /\ \A i \in CallIds :
       /\ WF_vars(Return(i))
       /\ WF_vars(\E a \in DOMAIN timer[i] : TimerDrains(i, a))

FairSpec == Spec /\ Fairness

-----------------------------------------------------------------------------
(* Properties *)

IsWait(i)    == call[i].kind = "wait"
Delivered(m) == {i \in CallIds : call[i].got = m}
Held(s)      == {messages[s][k] : k \in 1..Len(messages[s])}
Buffered(m)  == m \in Held(call[m].source)

(***************************************************************************)
(* A sender and a receiver never wait for each other at one source: a      *)
(* blocked sender (send, channel.ts) means a full buffer and nobody at     *)
(* the receiving end, a registered receiver (register, channel.ts and      *)
(* events.ts) means nothing to receive, and nobody waits on a source that  *)
(* has ended.                                                              *)
(***************************************************************************)
NoMissedMeeting ==
  \A s \in Sources :
    /\ senders[s] # {} =>
         /\ phase[s] = "open" /\ receivers[s] = {}
         /\ Len(messages[s]) = Capacity[s]
    /\ receivers[s] # {} => phase[s] = "open" /\ messages[s] = <<>>
    /\ s \in Channels => Len(messages[s]) <= Capacity[s]
    /\ phase[s] \notin {"open", "closed"} => messages[s] = <<>>

(***************************************************************************)
(* detach (selecting.ts, receiving.ts) and remove (send, channel.ts) leave *)
(* nothing behind: the entries linked in the queues are exactly those of   *)
(* the calls that are still pending, at every arm; a timer that has not    *)
(* been told to stop belongs to a pending selection, and a selection that  *)
(* has returned or rejected has no sleep left at all.                      *)
(***************************************************************************)
RegistrationsAgree ==
  /\ \A i \in CallIds, s \in Sources :
       /\ i \in senders[s] <=> call[i].status = "blocked" /\ call[i].source = s
       /\ \A a \in Arms(i) :
            <<i, a>> \in receivers[s] <=> Pending(i) /\ call[i].arms[a] = s
  /\ \A i \in CallIds : \A a \in DOMAIN timer[i] :
       /\ timer[i][a] = "sleeping" => Pending(i)
       /\ timer[i][a] = "aborted" => call[i].status \in {"committed", "failing"}

(***************************************************************************)
(* Calls, queues and timers are what they say they are, agree with each    *)
(* other, and nobody waits beside the one it waits for (register and       *)
(* detach, send and close in channel.ts).                                  *)
(***************************************************************************)
WaitsAgree == TypeOK /\ RegistrationsAgree /\ NoMissedMeeting

(***************************************************************************)
(* A message is in one place.  No message reaches two waits; one that was  *)
(* refused or whose send was cancelled reaches none; one that send         *)
(* accepted, or that a queueing subscription took in, is in the buffer or  *)
(* has reached a wait as long as its source has not been torn down.        *)
(***************************************************************************)
Custody ==
  \A m \in CallIds : call[m].kind \in {"send", "emit"} =>
    /\ Cardinality(Delivered(m)) <= 1
    /\ call[m].status # "accepted" => Delivered(m) = {} /\ ~Buffered(m)
    /\ Delivered(m) # {} => ~Buffered(m)
    /\ (/\ call[m].status = "accepted"
        /\ phase[call[m].source] \in {"open", "closed"}
        /\ call[m].source \notin Latest)
       => Buffered(m) \/ Delivered(m) # {}

(***************************************************************************)
(* Messages of one source leave it in the order in which they were sent    *)
(* (the three queues of channel.ts, #messages of events.ts): once a later  *)
(* one has reached a wait no earlier one is still on its way.              *)
(***************************************************************************)
NoOvertaking ==
  \A m, n \in CallIds :
    (/\ m < n /\ call[m].source = call[n].source
     /\ call[m].kind \in {"send", "emit"} /\ Delivered(n) # {})
    => ~Buffered(m) /\ m \notin senders[call[m].source]

(***************************************************************************)
(* detach of a subscription (attach and #unsubscribe, events.ts) is called *)
(* exactly once, whatever the source does while it is being registered:    *)
(* never while the subscription is open, and by the time attach has        *)
(* returned if it has ended.                                               *)
(***************************************************************************)
DetachesOnce ==
  \A s \in Subscriptions :
    detaches[s] = IF phase[s] # "open" /\ sink[s] # "attaching" THEN 1 ELSE 0

(***************************************************************************)
(* Nothing a source accepted is lost, doubled or overtaken (send and       *)
(* register in channel.ts, emit and register in events.ts).                *)
(***************************************************************************)
MessagesKept == Custody /\ NoOvertaking /\ DetachesOnce

(***************************************************************************)
(* The order of registration is the order of service (shift in send and    *)
(* emit): a wait that is registered at a source receives a message of it   *)
(* only when no earlier wait was left in the queue there.                  *)
(***************************************************************************)
Registered(i, s) == \E a \in Arms(i) : <<i, a>> \in receivers[s]

FirstComeFirstServed ==
  [][\A k \in CallIds :
       (call'[k].got # call[k].got /\ call'[k].got \in CallIds)
       => LET s == call'[call'[k].got].source
          IN  \A i \in CallIds :
                ~(i < k /\ Pending(i) /\ Registered(i, s) /\ Registered(k, s))
    ]_call

(***************************************************************************)
(* "all admitted timer work drains before the selection returns or         *)
(* rejects" (LANGUAGE.md), and it does return (the two awaits of           *)
(* selecting.ts): every wait that is decided gets over.                    *)
(***************************************************************************)
SelectionReturns ==
  \A i \in CallIds :
    (IsWait(i) /\ ~Pending(i)) ~>
      call[i].status \in {"received", "rejected"}

(***************************************************************************)
(* Channels, subscriptions and selections implement Delivery: a source's   *)
(* line is its buffer with its blocked senders.                            *)
(***************************************************************************)
Offered(s) == Held(s) \union senders[s]

FateOf(m) ==
  IF call[m].kind \notin {"send", "emit"} THEN "new"
  ELSE IF Delivered(m) # {} THEN "taken"
  ELSE IF Buffered(m) \/ call[m].status = "blocked" THEN "offered"
  ELSE "lost"

TakerOf(m) ==
  IF Delivered(m) = {} THEN Nothing
  ELSE CHOOSE w \in CallIds : w \in Delivered(m)

Lines == INSTANCE Delivery WITH
  Forgetful <- Latest,
  Messages <- CallIds,
  Waits    <- CallIds,
  Nobody   <- Nothing,
  line     <- [s \in Sources |-> Offered(s)],
  fate     <- [m \in CallIds |-> FateOf(m)],
  taker    <- [m \in CallIds |-> TakerOf(m)]

ImplementsDelivery == Lines!Spec
=============================================================================
