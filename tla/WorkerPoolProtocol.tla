------------------------- MODULE WorkerPoolProtocol -------------------------
(***************************************************************************)
(* What is on its way between the pool and its workers, and why neither    *)
(* side ever meets a message that its checks reject.                       *)
(*                                                                         *)
(* The inductive invariant has two layers over IInv.  Conversations ties   *)
(* the requests and responses in transit to worker.job and to what the     *)
(* worker runs.  Preparations ties the programs a worker has to those the  *)
(* host believes it has, once the messages ahead of the next run have been *)
(* received.                                                               *)
(***************************************************************************)
EXTENDS WorkerPoolProofs

\* w has left the pool through a terminate() that was rejected.
Abandoned(w) == cleanupFailed /\ w \notin workers \union retiring

\* The requests on the way to w, and the responses the host has not seen.
Mail(w) == 1..Len(inbox[w])
Replies(w) == 1..Len(outbox[w])

\* Nothing says yet that w has begun its present job.
NotBegun(w) ==
  /\ ~job[busy[w]].started
  /\ \A k \in Replies(w) : outbox[w][k].job # busy[w]

\* Cancellations name jobs of w; the one run, if any, is of its present job.
RequestsAgree(w) ==
  \A i \in Mail(w) :
    /\ inbox[w][i].kind = "cancel" =>
         /\ job[inbox[w][i].job].worker = w
         /\ inbox[w][i].job = busy[w] => job[busy[w]].aborted
    /\ inbox[w][i].kind = "run" =>
         /\ inbox[w][i].job = busy[w] /\ remote[w].running # busy[w]
         /\ NotBegun(w)
         /\ \A k \in Mail(w) : inbox[w][k].kind = "run" => k = i

\* What w runs is its present job, unless it is abandoned.
RunAgrees(w) ==
  /\ remote[w].phase = "none" => remote[w].running = NoJob
  /\ remote[w].running # NoJob => remote[w].running = busy[w] \/ Abandoned(w)
  /\ remote[w].running # NoJob /\ remote[w].running = busy[w] =>
       /\ remote[w].aborted => job[busy[w]].aborted
       /\ remote[w].phase = "waiting" => NotBegun(w)

\* Responses answer the present job: a start comes first, an end last.
RepliesAgree(w) ==
  w \in workers =>
    \A k \in Replies(w) :
      /\ outbox[w][k].job = busy[w]
      /\ outbox[w][k].kind = "started" => k = 1 /\ ~job[busy[w]].started
      /\ outbox[w][k].kind # "started" =>
           k = Len(outbox[w]) /\ remote[w].running = NoJob
      /\ outbox[w][k].kind = "cancelled" => job[busy[w]].aborted

\* A worker that has not been created has nothing.
Untouched(w) ==
  /\ inbox[w] = <<>> /\ outbox[w] = <<>> /\ installed[w] = <<>>
  /\ remote[w] = NoRemote

Conversation(w) ==
  /\ RequestsAgree(w) /\ RunAgrees(w) /\ RepliesAgree(w)
  /\ w > workersStarted => Untouched(w)

\* A job that has no worker has not begun, one not handed out has no worker.
JobsAgree ==
  \A j \in JobIds :
    /\ job[j].worker = NoWorker => ~job[j].started
    /\ job[j].status = "unsubmitted" => job[j].worker = NoWorker

Conversations == JobsAgree /\ \A w \in Workers : Conversation(w)

-----------------------------------------------------------------------------
(* Requests and responses.                                                 *)

(* Cancellations and runs name a job, all but cancellations a program.     *)
LEMMA RequestFacts ==
  ASSUME NEW m \in Request
  PROVE  /\ m.kind \in {"install", "uninstall", "run", "cancel"}
         /\ m.kind \in {"run", "cancel"} => m.job \in JobIds
         /\ m.kind # "cancel" => m.program \in Programs
BY DEF Request

(* What is on a connection has its type.                                   *)
LEMMA WireFacts ==
  ASSUME TypeOK, NEW w \in Workers
  PROVE  /\ \A i \in Mail(w) :
              /\ inbox[w][i] \in Request
              /\ inbox[w][i].kind \in {"run", "cancel"} => inbox[w][i].job \in JobIds
              /\ inbox[w][i].kind # "cancel" => inbox[w][i].program \in Programs
         /\ \A k \in Replies(w) :
              outbox[w][k] \in Response /\ outbox[w][k].job \in JobIds
         /\ inbox[w] \in Seq(Request) /\ outbox[w] \in Seq(Response)
<1>1. inbox[w] \in Seq(Request) /\ outbox[w] \in Seq(Response) BY DEF TypeOK
<1>2. \A i \in Mail(w) : inbox[w][i] \in Request BY <1>1 DEF Mail
<1>3. \A k \in Replies(w) : outbox[w][k] \in Response BY <1>1 DEF Replies
<1>4. \A k \in Replies(w) : outbox[w][k].job \in JobIds BY <1>3 DEF Response
<1> QED BY <1>1, <1>2, <1>3, <1>4, RequestFacts

(* A busy worker is in the pool or retiring, and its job names it.         *)
LEMMA BusyFacts ==
  ASSUME IInv, NEW w \in Workers
  PROVE  /\ busy[w] \in JobIds \union {NoJob} /\ NoJob \notin JobIds
         /\ NoWorker \notin Workers /\ w # NoWorker
         /\ busy[w] # NoJob =>
              /\ busy[w] \in JobIds /\ busy[w] \in Pending
              /\ job[busy[w]].worker = w /\ w \in workers \union retiring
         /\ w \in workers \union retiring => ~(w > workersStarted)
<1>1. busy[w] \in JobIds \union {NoJob} BY DEF IInv, TypeOK
<1>2. NoJob \notin JobIds /\ NoWorker \notin Workers
  BY NoneAssumption DEF JobIds, Workers
<1>3. w \in workers \union retiring => w <= workersStarted
  BY DEF IInv, Bookkeeping, NumbersAgree
<1>4. w \in Int /\ workersStarted \in Int BY DEF IInv, TypeOK, Workers
<1> QED BY <1>1, <1>2, <1>3, <1>4 DEF IInv, Bookkeeping, SlotsAgree

(* A run on its way, and a job that is run, mean a busy worker, so one that*)
(* is not abandoned.                                                       *)
LEMMA RunFacts ==
  ASSUME IInv, NEW w \in Workers, Conversation(w)
  PROVE  /\ (\E i \in Mail(w) : inbox[w][i].kind = "run") =>
              /\ busy[w] \in JobIds /\ w \in workers \union retiring
              /\ remote[w].running = NoJob /\ NotBegun(w)
         /\ w \in workers => /\ remote[w].running \in {NoJob, busy[w]}
                             /\ busy[w] = NoJob => outbox[w] = <<>>
<1>1. ASSUME NEW i \in Mail(w), inbox[w][i].kind = "run"
      PROVE  /\ busy[w] \in JobIds /\ w \in workers \union retiring
             /\ remote[w].running = NoJob /\ NotBegun(w)
  <2>1. /\ inbox[w][i].job = busy[w] /\ remote[w].running # busy[w]
        /\ NotBegun(w)
    BY <1>1 DEF Conversation, RequestsAgree
  <2>2. inbox[w][i].job \in JobIds BY <1>1, WireFacts DEF IInv
  <2>3. busy[w] \in JobIds /\ w \in workers \union retiring
    BY <2>1, <2>2, BusyFacts
  <2> QED BY <2>1, <2>3 DEF Conversation, RunAgrees, Abandoned
<1>2. ASSUME w \in workers, busy[w] = NoJob PROVE outbox[w] = <<>>
  <2>1. \A k \in Replies(w) : outbox[w][k].job = NoJob
    BY <1>2 DEF Conversation, RepliesAgree
  <2>2. \A k \in Replies(w) : outbox[w][k].job # NoJob
    BY WireFacts, NoneAssumption DEF IInv, JobIds
  <2>3. outbox[w] \in Seq(Response) BY WireFacts DEF IInv
  <2> QED BY <2>1, <2>2, <2>3 DEF Replies
<1> QED BY <1>1, <1>2 DEF Conversation, RunAgrees, Abandoned

(* What happens elsewhere leaves a conversation alone.                     *)
LEMMA Elsewhere ==
  ASSUME IInv, NEW v \in Workers, Conversation(v),
         inbox'[v] = inbox[v], outbox'[v] = outbox[v],
         remote'[v] = remote[v], busy'[v] = busy[v],
         installed'[v] = installed[v],
         v \in workers' => v \in workers,
         Abandoned(v) => Abandoned(v)',
         v > workersStarted' => v > workersStarted,
         \A j \in JobIds : job[j].worker = v =>
           /\ job'[j].worker = v /\ job'[j].started = job[j].started
           /\ job[j].aborted => job'[j].aborted
  PROVE  Conversation(v)'
<1>1. /\ Mail(v)' = Mail(v) /\ Replies(v)' = Replies(v)
  BY DEF Mail, Replies
<1>2. busy[v] # NoJob => busy[v] \in JobIds /\ job[busy[v]].worker = v
  BY BusyFacts
<1>3. busy[v] # NoJob /\ NotBegun(v) => NotBegun(v)'
  BY <1>1, <1>2 DEF NotBegun
<1>4. \A i \in Mail(v) : inbox[v][i].kind \in {"run", "cancel"} =>
                           inbox[v][i].job \in JobIds
  BY WireFacts DEF IInv
<1>5. NoJob \notin JobIds BY BusyFacts
<1>6. RequestsAgree(v)'
  BY <1>1, <1>2, <1>3, <1>4, <1>5 DEF Conversation, RequestsAgree
<1>7. RunAgrees(v)'
  BY <1>2, <1>3 DEF Conversation, RunAgrees
<1>8. \A k \in Replies(v) : outbox[v][k].job \in JobIds
  BY WireFacts DEF IInv
<1>9. RepliesAgree(v)'
  BY <1>1, <1>2, <1>5, <1>8 DEF Conversation, RepliesAgree
<1>10. (v > workersStarted => Untouched(v))'
  BY DEF Conversation, Untouched
<1> QED BY <1>6, <1>7, <1>9, <1>10 DEF Conversation

-----------------------------------------------------------------------------
(* Host steps that post and receive nothing.                               *)

(* They keep every conversation, if they leave assigned jobs alone.        *)
LEMMA QuietConversations ==
  ASSUME IInv, Conversations,
         UNCHANGED <<wireVars, remote, installed, busy, workersStarted,
                     cleanupFailed>>,
         workers' \subseteq workers, workers' \union retiring' = workers \union retiring,
         \A j \in JobIds : job[j].worker # NoWorker =>
           /\ job'[j].worker = job[j].worker /\ job'[j].started = job[j].started
           /\ job[j].aborted => job'[j].aborted,
         \A j \in JobIds : job[j].worker = NoWorker =>
           /\ job'[j].worker = NoWorker
           /\ job'[j].started => job[j].started,
         \A j \in JobIds :
           job'[j].status = "unsubmitted" => job[j].status = "unsubmitted"
  PROVE  Conversations'
<1>1. ASSUME NEW v \in Workers PROVE Conversation(v)'
  <2>1. Conversation(v) BY DEF Conversations
  <2>2. Abandoned(v) => Abandoned(v)' BY DEF Abandoned
  <2>3. v # NoWorker BY BusyFacts
  <2>4. \A j \in JobIds : job[j].worker = v =>
          /\ job'[j].worker = v /\ job'[j].started = job[j].started
          /\ job[j].aborted => job'[j].aborted
    BY <2>3
  <2>5. UNCHANGED <<inbox, outbox, remote, installed, busy, workersStarted>>
    BY DEF wireVars
  <2>6. v \in workers' => v \in workers OBVIOUS
  <2> QED BY ONLY <2>1, <2>2, <2>4, <2>5, <2>6, IInv, Elsewhere, v \in Workers
<1>2. JobsAgree' BY DEF Conversations, JobsAgree
<1> QED BY <1>1, <1>2 DEF Conversations

(* execute, promote and the turns of #dispatch that place nothing.         *)
LEMMA CallsConversations ==
  ASSUME IInv, Conversations,
         \/ \E c \in Callbacks, p \in Priority : Execute(c, p)
         \/ \E c \in Callbacks : Promote(c)
         \/ DispatchReturns \/ CloseDrained
  PROVE  Conversations'
<1>1. /\ UNCHANGED <<wireVars, remote, installed, busy, workersStarted,
                     cleanupFailed, workers, retiring>>
  BY DEF Execute, Promote, DispatchReturns, CloseDrained, closeVars, slotVars
<1>2. ASSUME NEW j \in JobIds
      PROVE  /\ job'[j].worker = job[j].worker
             /\ job'[j].started => job[j].started
             /\ job[j].worker # NoWorker =>
                  /\ job'[j].started = job[j].started
                  /\ job[j].aborted => job'[j].aborted
             /\ job'[j].status = "unsubmitted" => job[j].status = "unsubmitted"
  <2>1. CASE DispatchReturns \/ CloseDrained
    BY <2>1 DEF DispatchReturns, CloseDrained
  <2>2. ASSUME NEW c \in Callbacks, Promote(c)
        PROVE  /\ job'[j].worker = job[j].worker
               /\ job'[j].started = job[j].started
               /\ job'[j].aborted = job[j].aborted
               /\ job'[j].status = job[j].status
    <3>1. PICK k \in Pending : job' = [job EXCEPT ![k].priority = "required"]
      BY <2>2 DEF Promote
    <3>2. k \in JobIds /\ job[k] \in Job BY DEF Pending, IInv, TypeOK
    <3> QED BY <3>1, <3>2 DEF Job, IInv, TypeOK
  <2>3. ASSUME NEW c \in Callbacks, NEW p \in Priority, Execute(c, p)
        PROVE  /\ job'[j].worker = job[j].worker
               /\ job'[j].started => job[j].started
               /\ job[j].worker # NoWorker =>
                    /\ job'[j].started = job[j].started
                    /\ job'[j].aborted = job[j].aborted
               /\ job'[j].status = "unsubmitted" => job[j].status = "unsubmitted"
    <3> DEFINE new == [Unsubmitted EXCEPT !.callback = c, !.priority = p,
                                          !.status = "pending"]
    <3>1. nextJob \in JobIds
      <4>1. nextJob <= MaxJobs BY <2>3 DEF Execute
      <4> QED BY <4>1, BoundAssumption DEF IInv, TypeOK, JobIds
    <3>2. job' = [job EXCEPT ![nextJob] = new] BY <2>3 DEF Execute
    <3>3. new.worker = NoWorker /\ ~new.started /\ new.status = "pending"
      BY DEF Unsubmitted
    <3>4. job[nextJob].worker = NoWorker
      <4>1. job[nextJob].status = "unsubmitted"
        BY <3>1 DEF IInv, TypeOK, Bookkeeping, NumbersAgree
      <4> QED BY <3>1, <4>1 DEF Conversations, JobsAgree
    <3> HIDE DEF new
    <3> QED BY <3>1, <3>2, <3>3, <3>4 DEF IInv, TypeOK
  <2> QED BY <2>1, <2>2, <2>3
<1> QED BY <1>1, <1>2, QuietConversations

(* The candidate of #dispatch waits.                                       *)
LEMMA CandidateWaits ==
  ASSUME IInv, NEW j \in JobIds, Candidate(j)
  PROVE  j \in Pending /\ job[j].worker = NoWorker
<1>1. CASE required # <<>>
  BY <1>1, PeekLinked
  DEF Candidate, IInv, TypeOK, Bookkeeping, QueuesAgree, Waiting
<1>2. CASE required = <<>>
  BY <1>2, PeekLinked
  DEF Candidate, IInv, TypeOK, Bookkeeping, QueuesAgree, Waiting
<1> QED BY <1>1, <1>2

(* A queued job that ends, by its signal or because no worker could be     *)
(* created for it, is named by nothing in transit.                         *)
LEMMA QueuedEndConversations ==
  ASSUME IInv, Conversations, NEW j \in JobIds, AbortQueued(j) \/ StartFails(j)
  PROVE  Conversations'
<1>1. j \in Pending /\ job[j].worker = NoWorker
  BY CandidateWaits DEF AbortQueued, StartFails
<1>2. /\ Finish(j, "error")
      /\ UNCHANGED <<wireVars, remote, installed, workersStarted, cleanupFailed,
                     workers, retiring>>
  BY DEF AbortQueued, StartFails, closeVars
<1>3. job' = [job EXCEPT ![j] = Ended(j, "error")] /\ busy' = busy
  BY <1>1, <1>2 DEF Finish
<1>4. /\ Ended(j, "error").worker = NoWorker /\ ~Ended(j, "error").started
      /\ Ended(j, "error").status = "error"
  BY <1>1 DEF Ended, Unsubmitted
<1>5. /\ job'[j] = Ended(j, "error")
      /\ \A k \in JobIds : k # j => job'[k] = job[k]
  BY <1>3 DEF IInv, TypeOK
<1>6. \A k \in JobIds :
        /\ job'[k].worker = job[k].worker
        /\ job'[k].started => job[k].started
        /\ job'[k].status = "unsubmitted" => job[k].status = "unsubmitted"
        /\ job[k].worker # NoWorker => job'[k] = job[k]
  BY <1>1, <1>4, <1>5
<1> QED BY <1>2, <1>3, <1>6, QuietConversations

(* A worker that is lost keeps its connection until it is terminated, and  *)
(* the pool is closed when nothing is in transit any more.                 *)
LEMMA LossConversations ==
  ASSUME IInv, Conversations, Closed \/ \E w \in Workers : OnError(w)
  PROVE  Conversations'
<1>1. UNCHANGED <<wireVars, remote, installed, busy, workersStarted,
                  cleanupFailed, job>>
  BY DEF OnError, Closed, closeVars
<1>2. CASE \E w \in Workers : OnError(w)
  <2>1. PICK w \in Workers : Lose(w) BY <1>2 DEF OnError
  <2>2. workers' \subseteq workers
        /\ workers' \union retiring' = workers \union retiring
    BY <2>1 DEF Lose
  <2> QED BY <1>1, <2>2, QuietConversations
<1>3. CASE Closed
  <2>1. workers' = {} /\ retiring' = retiring /\ Pending = {}
    BY <1>3 DEF Closed, IInv, Bookkeeping, NumbersAgree
  <2>2. ASSUME NEW v \in Workers PROVE Conversation(v)'
    <3>1. Conversation(v) BY DEF Conversations
    <3>2. Abandoned(v) => Abandoned(v)' BY <1>1, <2>1 DEF Abandoned
    <3>3. UNCHANGED <<inbox, outbox, remote, installed, busy, workersStarted, job>>
      BY <1>1 DEF wireVars
    <3>4. v \notin workers' BY <2>1
    <3> QED BY ONLY <3>1, <3>2, <3>3, <3>4, IInv, Elsewhere, v \in Workers
  <2> QED BY <1>1, <2>2 DEF Conversations, JobsAgree
<1> QED BY <1>2, <1>3

-----------------------------------------------------------------------------
(* Cancellation.                                                           *)

(* What appending a message does to a connection.                          *)
LEMMA AppendFacts ==
  ASSUME NEW S, NEW q \in Seq(S), NEW m \in S
  PROVE  /\ Len(Append(q, m)) = Len(q) + 1 /\ Len(q) \in Nat
         /\ Append(q, m)[Len(q) + 1] = m
         /\ \A i \in 1..Len(q) : Append(q, m)[i] = q[i]
         /\ \A i \in 1..(Len(q) + 1) : i = Len(q) + 1 \/ i \in 1..Len(q)
OBVIOUS

(* A worker may be asked to cancel its present job at any time.            *)
LEMMA Cancelling ==
  ASSUME IInv, NEW w \in Workers, Conversation(w),
         busy[w] # NoJob,
         inbox'[w] = Append(inbox[w], Cancel(busy[w])),
         outbox'[w] = outbox[w], remote'[w] = remote[w], busy'[w] = busy[w],
         workersStarted' = workersStarted, cleanupFailed' = cleanupFailed,
         w \in workers' => w \in workers,
         w \in workers' \union retiring' => w \in workers \union retiring,
         job'[busy[w]].aborted,
         \A j \in JobIds : job[j].worker = w =>
           job'[j].worker = w /\ job'[j].started = job[j].started
  PROVE  Conversation(w)'
<1> DEFINE n == Len(inbox[w])
           m == Cancel(busy[w])
<1>1. /\ busy[w] \in JobIds /\ job[busy[w]].worker = w
      /\ w \in workers \union retiring /\ ~(w > workersStarted)
  BY BusyFacts
<1>2. inbox[w] \in Seq(Request) /\ m \in Request /\ m.kind = "cancel" /\ m.job = busy[w]
  BY <1>1, WireFacts DEF IInv, Cancel, Request
<1>3. /\ Len(inbox'[w]) = n + 1 /\ inbox'[w][n + 1] = m
      /\ \A i \in 1..n : inbox'[w][i] = inbox[w][i]
      /\ \A i \in 1..(n + 1) : i = n + 1 \/ i \in 1..n
      /\ n \in Nat
  BY <1>2, AppendFacts
<1>4. \A i \in 1..n : inbox[w][i].kind \in {"run", "cancel"} =>
                        inbox[w][i].job \in JobIds
  BY WireFacts DEF IInv, Mail
<1> HIDE DEF n, m
<1>5. NotBegun(w) => NotBegun(w)'
  BY <1>1 DEF NotBegun, Replies
<1>6. ASSUME NEW i \in 1..(n + 1), inbox'[w][i].kind = "cancel"
      PROVE  /\ job'[inbox'[w][i].job].worker = w
             /\ inbox'[w][i].job = busy[w] => job'[busy[w]].aborted
  <2>1. CASE i = n + 1 BY <1>1, <1>2, <1>3, <2>1
  <2>2. CASE i \in 1..n
    BY <1>3, <1>4, <1>6, <2>2 DEF n, Conversation, RequestsAgree, Mail
  <2> QED BY <1>3, <2>1, <2>2
<1>7. ASSUME NEW i \in 1..(n + 1), inbox'[w][i].kind = "run"
      PROVE  /\ inbox'[w][i].job = busy[w] /\ remote[w].running # busy[w]
             /\ NotBegun(w)'
             /\ \A k \in 1..(n + 1) : inbox'[w][k].kind = "run" => k = i
  <2>1. i \in 1..n /\ inbox[w][i].kind = "run" BY <1>2, <1>3, <1>7
  <2>2. /\ inbox[w][i].job = busy[w] /\ remote[w].running # busy[w]
        /\ NotBegun(w)
        /\ \A k \in 1..n : inbox[w][k].kind = "run" => k = i
    BY <2>1 DEF n, Conversation, RequestsAgree, Mail
  <2> QED BY <1>2, <1>3, <1>5, <2>1, <2>2
<1>8. RequestsAgree(w)'
  <2>1. Mail(w)' = 1..(n + 1) BY <1>3 DEF Mail
  <2> QED BY <1>6, <1>7, <2>1 DEF RequestsAgree
<1>9. RunAgrees(w)'
  BY <1>1, <1>5 DEF Conversation, RunAgrees, Abandoned
<1>10. RepliesAgree(w)'
  BY <1>1 DEF Conversation, RepliesAgree, Replies
<1> QED BY <1>1, <1>8, <1>9, <1>10 DEF Conversation

(* Aborting an assigned job posts a cancellation, or loses the worker.     *)
LEMMA AbortRunningConversations ==
  ASSUME IInv, Conversations, NEW j \in JobIds, AbortRunning(j)
  PROVE  Conversations'
<1>1. /\ j \in Pending /\ job[j].worker # NoWorker /\ job[j] \in Job
      /\ job[j].worker \in Workers
  BY DEF AbortRunning, IInv, TypeOK, Job
<1>2. PICK w \in Workers : w = job[j].worker BY <1>1
<1>3. busy[w] = j /\ j # NoJob /\ w # NoWorker
  BY <1>1, <1>2, BusyFacts DEF IInv, Bookkeeping, SlotsAgree
<1>4. job' = [job EXCEPT ![j].aborted = TRUE] BY DEF AbortRunning
<1>5. \A k \in JobIds :
        /\ job'[k].worker = job[k].worker /\ job'[k].started = job[k].started
        /\ job'[k].status = job[k].status
        /\ job[k].aborted => job'[k].aborted
  BY <1>1, <1>4 DEF IInv, TypeOK, Job
<1>6. job'[j].aborted BY <1>1, <1>4 DEF IInv, TypeOK, Job
<1>7. UNCHANGED <<workersStarted, busy, installed, cleanupFailed, outbox, remote>>
  BY DEF AbortRunning, closeVars
<1>8. CASE /\ inbox' = [inbox EXCEPT ![w] = Append(inbox[w], Cancel(j))]
           /\ UNCHANGED <<workers, retiring>>
  <2>1. inbox'[w] = Append(inbox[w], Cancel(j))
        /\ \A v \in Workers : v # w => inbox'[v] = inbox[v]
    BY <1>8 DEF IInv, TypeOK
  <2>2. ASSUME NEW v \in Workers, v # w PROVE Conversation(v)'
    <3>1. Conversation(v) BY DEF Conversations
    <3>2. Abandoned(v) => Abandoned(v)' BY <1>7, <1>8 DEF Abandoned
    <3>3. inbox'[v] = inbox[v] BY <2>1, <2>2
    <3> QED BY ONLY <1>5, <1>7, <1>8, <3>1, <3>2, <3>3, IInv, Elsewhere,
                    v \in Workers
  <2>3. Conversation(w)'
    <3>1. Conversation(w) BY DEF Conversations
    <3> QED BY ONLY <1>3, <1>5, <1>6, <1>7, <1>8, <2>1, <3>1, IInv, Cancelling,
                    w \in Workers
  <2> QED BY <1>5, <2>2, <2>3 DEF Conversations, JobsAgree
<1>9. CASE Lose(w) /\ UNCHANGED inbox
  <2>1. workers' \subseteq workers
        /\ workers' \union retiring' = workers \union retiring
    BY <1>9 DEF Lose
  <2> QED BY <1>5, <1>7, <1>9, <2>1, QuietConversations DEF wireVars
<1> QED BY <1>2, <1>8, <1>9 DEF AbortRunning

(* close() aborts every pending job: queued ones are named by nothing in   *)
(* transit, assigned ones are cancelled or lost with their worker.         *)
LEMMA CloseConversations ==
  ASSUME IInv, Conversations, Close
  PROVE  Conversations'
<1>1. PICK lost \in SUBSET (Cancelled \intersect workers) :
        /\ workers' = workers \ lost
        /\ retiring' = retiring \union lost
        /\ inbox' = [w \in Workers |->
                       IF w \in Cancelled \ lost
                       THEN Append(inbox[w], Cancel(busy[w])) ELSE inbox[w]]
  BY DEF Close
<1>2. /\ job' = [j \in JobIds |->
                   IF j \notin Pending THEN job[j]
                   ELSE IF job[j].worker = NoWorker THEN Ended(j, "error")
                        ELSE [job[j] EXCEPT !.aborted = TRUE]]
      /\ UNCHANGED <<workersStarted, busy, installed, cleanupFailed, outbox,
                     remote>>
  BY DEF Close, slotVars
<1>3. ASSUME NEW j \in JobIds
      PROVE  /\ job'[j].worker = job[j].worker
             /\ job'[j].status = "unsubmitted" => job[j].status = "unsubmitted"
             /\ job'[j].started => job[j].started
             /\ job[j].worker # NoWorker =>
                  /\ job'[j].started = job[j].started
                  /\ job[j].aborted => job'[j].aborted
                  /\ j \in Pending => job'[j].aborted
  <2>1. job[j] \in Job BY DEF IInv, TypeOK
  <2>2. CASE j \notin Pending BY <1>2, <2>2
  <2>3. CASE j \in Pending /\ job[j].worker = NoWorker
    <3>1. job'[j] = Ended(j, "error") BY <1>2, <2>3
    <3> QED BY <2>3, <3>1 DEF Ended, Unsubmitted
  <2>4. CASE j \in Pending /\ job[j].worker # NoWorker
    <3>1. job'[j] = [job[j] EXCEPT !.aborted = TRUE] BY <1>2, <2>4
    <3> QED BY <2>1, <3>1 DEF Job
  <2> QED BY <2>2, <2>3, <2>4
<1>4. workers' \subseteq workers
      /\ workers' \union retiring' = workers \union retiring
  BY <1>1
<1>5. ASSUME NEW v \in Workers PROVE Conversation(v)'
  <2>1. Conversation(v) BY DEF Conversations
  <2>2. v # NoWorker BY BusyFacts
  <2>3. CASE v \in Cancelled \ lost
    <3>1. inbox'[v] = Append(inbox[v], Cancel(busy[v])) BY <1>1, <2>3
    <3>2. PICK j \in Pending : job[j].worker = v BY <2>3 DEF Cancelled
    <3>3. busy[v] = j /\ j \in JobIds
      BY <2>2, <3>2 DEF IInv, Bookkeeping, SlotsAgree, Pending
    <3>4. busy[v] # NoJob /\ job'[busy[v]].aborted
      BY <1>3, <2>2, <3>2, <3>3, BusyFacts
    <3>5. \A k \in JobIds : job[k].worker = v =>
            job'[k].worker = v /\ job'[k].started = job[k].started
      BY <1>3, <2>2
    <3> QED BY ONLY <1>2, <1>4, <2>1, <3>1, <3>4, <3>5, IInv, Cancelling,
                    v \in Workers
  <2>4. CASE v \notin Cancelled \ lost
    <3>1. inbox'[v] = inbox[v] BY <1>1, <2>4
    <3>2. Abandoned(v) => Abandoned(v)' BY <1>2, <1>4 DEF Abandoned
    <3>3. \A k \in JobIds : job[k].worker = v =>
            /\ job'[k].worker = v /\ job'[k].started = job[k].started
            /\ job[k].aborted => job'[k].aborted
      BY <1>3, <2>2
    <3> QED BY ONLY <1>2, <1>4, <2>1, <3>1, <3>2, <3>3, IInv, Elsewhere,
                    v \in Workers
  <2> QED BY <2>3, <2>4
<1> QED BY <1>3, <1>5 DEF Conversations, JobsAgree

-----------------------------------------------------------------------------
(* Placement.                                                              *)

(* What appending several messages does to a connection.                   *)
LEMMA ConcatFacts ==
  ASSUME NEW S, NEW q \in Seq(S), NEW m \in Seq(S)
  PROVE  /\ Len(q \o m) = Len(q) + Len(m) /\ Len(q) \in Nat /\ Len(m) \in Nat
         /\ \A i \in 1..Len(q) : (q \o m)[i] = q[i]
         /\ \A i \in 1..Len(m) : (q \o m)[Len(q) + i] = m[i]
         /\ \A i \in 1..(Len(q) + Len(m)) :
              i \in 1..Len(q) \/ \E k \in 1..Len(m) : i = Len(q) + k
<1>1. Len(q) \in Nat /\ Len(m) \in Nat OBVIOUS
<1>2. ASSUME NEW i \in 1..(Len(q) + Len(m)), i \notin 1..Len(q)
      PROVE  \E k \in 1..Len(m) : i = Len(q) + k
  <2>1. i - Len(q) \in 1..Len(m) /\ i = Len(q) + (i - Len(q)) BY <1>1, <1>2
  <2> QED BY <2>1
<1> QED BY <1>1, <1>2

\* The messages m hand over job j: the run comes last, before it at most one
\* uninstall, of q, and one install, of the program p of the run.
Handover(m, j, p, q, evicts, present) ==
  /\ Len(m) \in Nat /\ Len(m) > 0
  /\ m[Len(m)] = [kind |-> "run", program |-> p, job |-> j]
  /\ \A i \in 1..Len(m) :
       /\ m[i].kind \in {"install", "uninstall", "run"}
       /\ m[i].kind = "install" => m[i].program = p /\ ~present
       /\ m[i].kind = "uninstall" => m[i].program = q /\ evicts
       /\ \A k \in 1..Len(m) : m[k].kind = m[i].kind => k = i
  /\ ~present => \E i \in 1..Len(m) : m[i].kind = "install"
  /\ evicts => \E i \in 1..Len(m) : m[i].kind = "uninstall"

(* #dispatch posts an uninstall, an install and the run, in this order, and*)
(* the first two when the program cache calls for them.                    *)
LEMMA PostsFacts ==
  ASSUME TypeOK, NEW j \in JobIds, NEW w \in Workers,
         job[j].callback \in Callbacks
  PROVE  LET p == ProgramOf[job[j].callback] IN
         Handover(Posts(w, j), j, p, Peek(installed[w]), Evicts(w, p),
                  Linked(installed[w], p))
<1> DEFINE p == ProgramOf[job[j].callback]
           q == Peek(installed[w])
           u == [kind |-> "uninstall", program |-> q]
           s == [kind |-> "install", program |-> p]
           r == [kind |-> "run", program |-> p, job |-> j]
<1>1. /\ u.kind = "uninstall" /\ u.program = q
      /\ s.kind = "install" /\ s.program = p /\ r.kind = "run"
  OBVIOUS
<1>2. Posts(w, j) = (IF Evicts(w, p) THEN <<u>> ELSE <<>>)
                    \o (IF Linked(installed[w], p) THEN <<>> ELSE <<s>>)
                    \o <<r>>
  BY DEF Posts
<1>3. Evicts(w, p) => ~Linked(installed[w], p) BY DEF Evicts
<1>4. Handover(Posts(w, j), j, p, q, Evicts(w, p), Linked(installed[w], p))
  <2> HIDE DEF p, q, u, s
  <2> DEFINE m == Posts(w, j)
  <2>1. CASE Evicts(w, p)
    <3>1. m = <<u>> \o <<s>> \o <<r>> BY <1>2, <1>3, <2>1
    <3>2. Len(m) = 3 /\ m[1] = u /\ m[2] = s /\ m[3] = r BY <3>1
    <3>3. 1..3 = {1, 2, 3} OBVIOUS
    <3> HIDE DEF m
    <3>4. Handover(m, j, p, q, Evicts(w, p), Linked(installed[w], p))
      BY <1>1, <1>3, <2>1, <3>2, <3>3 DEF Handover
    <3> QED BY <3>4 DEF m
  <2>2. CASE ~Evicts(w, p) /\ ~Linked(installed[w], p)
    <3>1. m = <<s>> \o <<r>> BY <1>2, <2>2
    <3>2. Len(m) = 2 /\ m[1] = s /\ m[2] = r BY <3>1
    <3>3. 1..2 = {1, 2} OBVIOUS
    <3> HIDE DEF m
    <3>4. Handover(m, j, p, q, Evicts(w, p), Linked(installed[w], p))
      BY <1>1, <2>2, <3>2, <3>3 DEF Handover
    <3> QED BY <3>4 DEF m
  <2>3. CASE Linked(installed[w], p)
    <3>1. m = <<>> \o <<>> \o <<r>> BY <1>2, <1>3, <2>3
    <3>2. Len(m) = 1 /\ m[1] = r BY <3>1
    <3>3. 1..1 = {1} OBVIOUS
    <3> HIDE DEF m
    <3>4. Handover(m, j, p, q, Evicts(w, p), Linked(installed[w], p))
      BY <1>1, <1>3, <2>3, <3>2, <3>3 DEF Handover
    <3> QED BY <3>4 DEF m
  <2> QED BY <2>1, <2>2, <2>3
<1> QED BY <1>4

(* Handing over j changes the record of j, and of no other job, by naming  *)
(* its worker.                                                             *)
LEMMA AssignedFacts ==
  ASSUME IInv, Conversations, NEW j \in JobIds, NEW w \in Workers,
         Candidate(j), Assign(j, w)
  PROVE  /\ job[j].worker = NoWorker /\ job'[j].worker = w
         /\ ~job'[j].started /\ job'[j].status = "pending"
         /\ \A k \in JobIds : k # j => job'[k] = job[k]
         /\ busy'[w] = j /\ \A v \in Workers : v # w => busy'[v] = busy[v]
         /\ JobsAgree'
<1>1. j \in Pending /\ job[j].worker = NoWorker BY CandidateWaits
<1>2. job' = [job EXCEPT ![j].worker = w] /\ busy' = [busy EXCEPT ![w] = j]
  BY DEF Assign
<1>3. job[j] \in Job /\ job[j].status = "pending" /\ ~job[j].started
  BY <1>1 DEF Pending, IInv, TypeOK, Conversations, JobsAgree
<1>4. /\ job'[j].worker = w /\ job'[j].status = "pending" /\ ~job'[j].started
      /\ \A k \in JobIds : k # j => job'[k] = job[k]
  BY <1>2, <1>3 DEF IInv, TypeOK, Job
<1>5. busy'[w] = j /\ \A v \in Workers : v # w => busy'[v] = busy[v]
  BY <1>2 DEF IInv, TypeOK
<1>6. w # NoWorker BY BusyFacts
<1>7. JobsAgree' BY <1>4, <1>6 DEF Conversations, JobsAgree
<1> QED BY <1>1, <1>4, <1>5, <1>7

(* The chosen worker is at rest: nothing runs there, no answer is on its   *)
(* way, and nothing but old cancellations is in its inbox.                 *)
LEMMA ChosenRests ==
  ASSUME IInv, NEW j \in JobIds, NEW w \in Workers, Conversation(w),
         Candidate(j), w \in Chosen,
         remote' = IF idle # <<>> THEN remote
                   ELSE [remote EXCEPT ![w] = FreshRemote]
  PROVE  /\ busy[w] = NoJob /\ outbox[w] = <<>>
         /\ remote'[w].running = NoJob /\ remote'[w].phase = "none"
         /\ \A i \in Mail(w) : inbox[w][i].kind # "run"
         /\ \A v \in Workers : v # w => remote'[v] = remote[v]
<1>1. /\ busy[w] = NoJob
      /\ idle = <<>> => w = workersStarted + 1
      /\ idle # <<>> => w \in workers
  BY ChosenFacts
<1>2. \A i \in Mail(w) : inbox[w][i].kind # "run"
  BY <1>1, RunFacts, BusyFacts
<1>3. CASE idle # <<>>
  <2>1. remote' = remote /\ outbox[w] = <<>> /\ remote[w].running = NoJob
    BY <1>1, <1>3, RunFacts
  <2>2. remote[w].phase = "none"
    BY <2>1 DEF IInv, Bookkeeping, NumbersAgree
  <2> QED BY <1>1, <1>2, <2>1, <2>2
<1>4. CASE idle = <<>>
  <2>1. w > workersStarted BY <1>1, <1>4 DEF IInv, TypeOK
  <2>2. outbox[w] = <<>> BY <2>1 DEF Conversation, Untouched
  <2>3. remote'[w] = FreshRemote /\ \A v \in Workers : v # w => remote'[v] = remote[v]
    BY <1>4 DEF IInv, TypeOK
  <2>4. FreshRemote.running = NoJob /\ FreshRemote.phase = "none"
    BY DEF FreshRemote
  <2> QED BY <1>1, <1>2, <2>2, <2>3, <2>4
<1> QED BY <1>3, <1>4

(* A turn of #dispatch keeps the conversations, whether or not its posts   *)
(* succeed.                                                                *)
LEMMA TurnConversations ==
  ASSUME IInv, Conversations, NEW j \in JobIds, NEW w \in Workers,
         Place(j, w) \/ PlaceFails(j, w), IInv'
  PROVE  Conversations'
<1>1. /\ Candidate(j) /\ w \in Chosen /\ Assign(j, w)
      /\ workersStarted' = IF idle # <<>> THEN workersStarted ELSE w
      /\ remote' = IF idle # <<>> THEN remote
                   ELSE [remote EXCEPT ![w] = FreshRemote]
      /\ UNCHANGED <<outbox, cleanupFailed>>
      /\ workers' \subseteq workers \union {w} /\ w \in workers' \union retiring'
      /\ workers' \union retiring' = workers \union retiring \union {w}
  BY DEF Place, PlaceFails, closeVars, wireVars
<1>2. Conversation(w) /\ JobsAgree BY DEF Conversations
<1>3. /\ busy[w] = NoJob /\ outbox[w] = <<>>
      /\ remote'[w].running = NoJob /\ remote'[w].phase = "none"
      /\ \A i \in Mail(w) : inbox[w][i].kind # "run"
      /\ \A v \in Workers : v # w => remote'[v] = remote[v]
  BY <1>1, <1>2, ChosenRests
<1>4. /\ job[j].worker = NoWorker /\ job'[j].worker = w
      /\ ~job'[j].started /\ job'[j].status = "pending"
      /\ \A k \in JobIds : k # j => job'[k] = job[k]
      /\ busy'[w] = j /\ \A v \in Workers : v # w => busy'[v] = busy[v]
      /\ JobsAgree'
  BY <1>1, AssignedFacts
<1>5. ASSUME NEW v \in Workers PROVE v # NoWorker BY BusyFacts
<1>6. j # NoJob BY BusyFacts
<1>7. /\ \A v \in Workers : v # w => inbox'[v] = inbox[v] /\ installed'[v] = installed[v]
      /\ inbox'[w] = inbox[w] \/ inbox'[w] = inbox[w] \o Posts(w, j)
  BY DEF Place, PlaceFails, IInv, TypeOK, wireVars
<1>8. ASSUME NEW v \in Workers, v # w PROVE Conversation(v)'
  <2>1. Conversation(v) BY DEF Conversations
  <2>2. Abandoned(v) => Abandoned(v)' BY <1>1, <1>8 DEF Abandoned
  <2>3. v \in workers' => v \in workers BY <1>1, <1>8
  <2>4. v > workersStarted' => v > workersStarted
    <3>1. CASE idle # <<>> BY <1>1, <3>1
    <3>2. CASE idle = <<>>
      <4>1. workersStarted' = workersStarted + 1 BY <1>1, <3>2, ChosenFacts
      <4> QED BY <4>1 DEF IInv, TypeOK, Workers
    <3> QED BY <3>1, <3>2
  <2>5. \A k \in JobIds : job[k].worker = v =>
          /\ job'[k].worker = v /\ job'[k].started = job[k].started
          /\ job[k].aborted => job'[k].aborted
    BY <1>4, <1>5
  <2>6. /\ inbox'[v] = inbox[v] /\ outbox'[v] = outbox[v]
        /\ remote'[v] = remote[v] /\ busy'[v] = busy[v]
        /\ installed'[v] = installed[v]
    BY <1>1, <1>3, <1>4, <1>7, <1>8
  <2> QED BY ONLY <2>1, <2>2, <2>3, <2>4, <2>5, <2>6, IInv, Elsewhere,
                  v \in Workers
<1>9. NotBegun(w)' BY <1>1, <1>3, <1>4 DEF NotBegun, Replies
<1>10. \A i \in Mail(w) : inbox[w][i].kind = "cancel" =>
         /\ inbox[w][i].job \in JobIds /\ inbox[w][i].job # j
         /\ job'[inbox[w][i].job].worker = w
  BY <1>2, <1>4, <1>5, WireFacts DEF Conversation, RequestsAgree, IInv
<1>11. RequestsAgree(w)'
  <2>1. CASE inbox'[w] = inbox[w]
    BY <1>3, <1>4, <1>10, <2>1 DEF RequestsAgree, Mail
  <2>2. CASE inbox'[w] = inbox[w] \o Posts(w, j)
    <3>1. PICK m : m = Posts(w, j) OBVIOUS
    <3>2. PICK q : q = inbox[w] OBVIOUS
    <3>3. job[j].callback \in Callbacks
      BY <1>1, ChosenFacts DEF Waiting, IInv, Bookkeeping, NumbersAgree
    <3>4. PICK p, d, e, l : Handover(m, j, p, d, e, l)
      BY <3>1, <3>3, PostsFacts DEF IInv
    <3>5. q \in Seq(Request) /\ m \in Seq(Request)
      BY <3>1, <3>2, <3>3, WireFacts, PostsType DEF IInv
    <3>6. /\ Len(q \o m) = Len(q) + Len(m) /\ Len(q) \in Nat /\ Len(m) \in Nat
          /\ \A i \in 1..Len(q) : (q \o m)[i] = q[i]
          /\ \A i \in 1..Len(m) : (q \o m)[Len(q) + i] = m[i]
          /\ \A i \in 1..(Len(q) + Len(m)) :
               i \in 1..Len(q) \/ \E k \in 1..Len(m) : i = Len(q) + k
      BY <3>5, ConcatFacts
    <3>7. /\ Mail(w)' = 1..(Len(q) + Len(m)) /\ inbox'[w] = q \o m
      BY <2>2, <3>1, <3>2, <3>6 DEF Mail
    <3>8. \A i \in 1..Len(m) : /\ m[i].kind # "cancel"
                               /\ m[i].kind = "run" => i = Len(m)
      BY <3>4 DEF Handover
    <3>9. m[Len(m)].kind = "run" /\ m[Len(m)].job = j BY <3>4 DEF Handover
    <3>10. \A i \in 1..Len(q) :
             /\ q[i].kind # "run"
             /\ q[i].kind = "cancel" => /\ q[i].job # j
                                        /\ job'[q[i].job].worker = w
      BY <1>3, <1>10, <3>2 DEF Mail
    <3>11. ASSUME NEW i \in 1..(Len(q) + Len(m))
           PROVE  /\ (q \o m)[i].kind = "cancel" =>
                       /\ job'[(q \o m)[i].job].worker = w
                       /\ (q \o m)[i].job # j
                  /\ (q \o m)[i].kind = "run" =>
                       (q \o m)[i].job = j /\ i = Len(q) + Len(m)
      <4>1. CASE i \in 1..Len(q)
        <5>1. (q \o m)[i] = q[i] BY <3>6, <4>1
        <5> QED BY ONLY <5>1, <3>10, <4>1
      <4>2. CASE \E k \in 1..Len(m) : i = Len(q) + k
        <5>1. PICK k \in 1..Len(m) : i = Len(q) + k BY <4>2
        <5>2. (q \o m)[i] = m[k] BY <3>6, <5>1
        <5>3. m[k].kind # "cancel" /\ (m[k].kind = "run" => k = Len(m) /\ m[k].job = j)
          BY <3>8, <3>9
        <5> QED BY ONLY <5>1, <5>2, <5>3
      <4> QED BY <3>6, <4>1, <4>2
    <3> QED BY <1>3, <1>4, <1>6, <1>9, <3>7, <3>11 DEF RequestsAgree
  <2> QED BY <1>7, <2>1, <2>2
<1>12. RunAgrees(w)' BY <1>3 DEF RunAgrees
<1>13. RepliesAgree(w)' BY <1>1, <1>3 DEF RepliesAgree, Replies
<1>14. ~(w > workersStarted)'
  <2>1. w \in workers' \union retiring' /\ w \in Int /\ workersStarted' \in Int
    BY <1>1 DEF IInv, TypeOK, Workers
  <2>2. w <= workersStarted' BY <2>1 DEF IInv, Bookkeeping, NumbersAgree
  <2> QED BY <2>1, <2>2
<1> QED BY <1>4, <1>8, <1>11, <1>12, <1>13, <1>14 DEF Conversations, Conversation

-----------------------------------------------------------------------------
(* Responses.                                                              *)

(* What receiving a message does to a connection.                          *)
LEMMA TailFacts ==
  ASSUME NEW S, NEW q \in Seq(S), q # <<>>
  PROVE  /\ Len(Tail(q)) = Len(q) - 1 /\ Len(q) \in Nat /\ Len(q) > 0
         /\ Head(q) = q[1] /\ 1 \in 1..Len(q)
         /\ \A i \in 1..(Len(q) - 1) : Tail(q)[i] = q[i + 1] /\ i + 1 \in 1..Len(q)
OBVIOUS

(* The host never loses a worker over a response: it answers the present   *)
(* job, starts it once, and is a cancellation only if the job was aborted. *)
LEMMA NeverRejected ==
  ASSUME IInv, NEW w \in Workers, Conversation(w), w \in workers, outbox[w] # <<>>
  PROVE  /\ ~Rejects(w, Head(outbox[w]))
         /\ Head(outbox[w]).job = busy[w] /\ busy[w] \in JobIds
         /\ \A i \in Mail(w) : inbox[w][i].kind # "run"
         /\ remote[w].running # NoJob => remote[w].phase # "waiting"
         /\ Head(outbox[w]).kind # "started" =>
              /\ Tail(outbox[w]) = <<>> /\ remote[w].running = NoJob
         /\ \A k \in 1..(Len(outbox[w]) - 1) :
              /\ Tail(outbox[w])[k] = outbox[w][k + 1] /\ k + 1 \in Replies(w)
              /\ outbox[w][k + 1].kind # "started"
         /\ Len(Tail(outbox[w])) = Len(outbox[w]) - 1 /\ Len(outbox[w]) \in Nat
<1> DEFINE q == outbox[w]
<1>1. q \in Seq(Response) /\ \A k \in Replies(w) : q[k].job \in JobIds
  BY WireFacts DEF IInv
<1>2. /\ Len(Tail(q)) = Len(q) - 1 /\ Len(q) \in Nat /\ Len(q) > 0
      /\ Head(q) = q[1] /\ 1 \in Replies(w)
      /\ \A i \in 1..(Len(q) - 1) : Tail(q)[i] = q[i + 1] /\ i + 1 \in Replies(w)
  BY <1>1, TailFacts DEF Replies
<1>3. \A k \in Replies(w) :
        /\ q[k].job = busy[w]
        /\ q[k].kind = "started" => k = 1 /\ ~job[busy[w]].started
        /\ q[k].kind # "started" => k = Len(q) /\ remote[w].running = NoJob
        /\ q[k].kind = "cancelled" => job[busy[w]].aborted
  BY DEF Conversation, RepliesAgree
<1>4. ~Rejects(w, Head(q)) BY <1>2, <1>3 DEF Rejects
<1>5. ~NotBegun(w) BY <1>2, <1>3 DEF NotBegun
<1>6. \A i \in Mail(w) : inbox[w][i].kind # "run" BY <1>5, RunFacts
<1>7. remote[w].running # NoJob => remote[w].phase # "waiting"
  BY <1>5 DEF Conversation, RunAgrees, Abandoned
<1>8. Head(q).kind # "started" => Tail(q) = <<>> /\ remote[w].running = NoJob
  <2> SUFFICES ASSUME Head(q).kind # "started"
               PROVE  Tail(q) = <<>> /\ remote[w].running = NoJob
    OBVIOUS
  <2>1. Len(q) = 1 /\ remote[w].running = NoJob BY <1>2, <1>3
  <2>2. PICK t : t = Tail(q) OBVIOUS
  <2>3. t \in Seq(Response) /\ Len(t) = 0 BY <1>1, <1>2, <2>1, <2>2
  <2>4. t = <<>> BY ONLY <2>3
  <2> QED BY <2>1, <2>2, <2>4
<1>9. \A k \in 1..(Len(q) - 1) : q[k + 1].kind # "started"
  <2>1. \A k \in 1..(Len(q) - 1) : k + 1 # 1 /\ k + 1 \in Replies(w) BY <1>2
  <2> QED BY <1>3, <2>1
<1> QED BY <1>1, <1>2, <1>3, <1>4, <1>6, <1>7, <1>8, <1>9

(* The host receives a response.                                           *)
LEMMA OnMessageConversations ==
  ASSUME IInv, Conversations, NEW w \in Workers, OnMessage(w)
  PROVE  Conversations'
<1>1. PICK m : m = Head(outbox[w]) OBVIOUS
<1>2. /\ outbox[w] # <<>> /\ w \in workers
      /\ outbox' = [outbox EXCEPT ![w] = Tail(outbox[w])]
      /\ UNCHANGED <<workersStarted, installed, cleanupFailed, inbox, remote>>
  BY DEF OnMessage, closeVars, Attached
<1>3. Conversation(w) BY DEF Conversations
<1>4. /\ ~Rejects(w, m) /\ m.job = busy[w] /\ busy[w] \in JobIds
      /\ \A i \in Mail(w) : inbox[w][i].kind # "run"
      /\ remote[w].running # NoJob => remote[w].phase # "waiting"
      /\ m.kind # "started" => /\ Tail(outbox[w]) = <<>>
                               /\ remote[w].running = NoJob
      /\ \A k \in 1..(Len(outbox[w]) - 1) :
           /\ Tail(outbox[w])[k] = outbox[w][k + 1] /\ k + 1 \in Replies(w)
           /\ outbox[w][k + 1].kind # "started"
      /\ Len(Tail(outbox[w])) = Len(outbox[w]) - 1 /\ Len(outbox[w]) \in Nat
  BY <1>1, <1>2, <1>3, NeverRejected
<1>5. UNCHANGED <<workers, retiring>> BY <1>1, <1>4 DEF OnMessage
<1>6. PICK j \in JobIds : j = busy[w] BY <1>4
<1>7. j \in Pending /\ job[j].worker = w /\ j # NoJob /\ job[j] \in Job
  BY <1>6, BusyFacts DEF IInv, TypeOK
<1>8. /\ outbox'[w] = Tail(outbox[w])
      /\ \A v \in Workers : v # w => outbox'[v] = outbox[v]
  BY <1>2 DEF IInv, TypeOK
<1>9. ASSUME NEW v \in Workers, v # w, busy'[v] = busy[v],
             \A k \in JobIds : k # j => job'[k] = job[k]
      PROVE  Conversation(v)'
  <2>1. Conversation(v) BY DEF Conversations
  <2>2. Abandoned(v) => Abandoned(v)' BY <1>2, <1>5 DEF Abandoned
  <2>3. \A k \in JobIds : job[k].worker = v =>
          /\ job'[k].worker = v /\ job'[k].started = job[k].started
          /\ job[k].aborted => job'[k].aborted
    BY <1>7, <1>9
  <2>4. outbox'[v] = outbox[v] BY <1>8, <1>9
  <2> QED BY ONLY <1>2, <1>5, <1>9, <2>1, <2>2, <2>3, <2>4, IInv, Elsewhere,
                  v \in Workers
<1>10. \A i \in Mail(w) : inbox[w][i].kind = "cancel" =>
         /\ inbox[w][i].job \in JobIds /\ job[inbox[w][i].job].worker = w
         /\ inbox[w][i].job = busy[w] => job[busy[w]].aborted
  BY <1>3, WireFacts DEF Conversation, RequestsAgree, IInv
<1>11. CASE m.kind = "started"
  <2>1. /\ job' = [job EXCEPT ![j].started = TRUE]
        /\ UNCHANGED slotVars
    BY <1>1, <1>4, <1>6, <1>11 DEF OnMessage
  <2>2. /\ \A k \in JobIds : k # j => job'[k] = job[k]
        /\ job'[j].worker = w /\ job'[j].aborted = job[j].aborted
        /\ job'[j].status = job[j].status /\ busy' = busy
    BY <1>7, <2>1 DEF IInv, TypeOK, Job, slotVars
  <2>3. \A v \in Workers : v # w => Conversation(v)' BY <1>9, <2>2
  <2>4. RequestsAgree(w)'
    BY <1>2, <1>4, <1>6, <1>7, <1>10, <2>2 DEF RequestsAgree, Mail
  <2>5. RunAgrees(w)'
    BY <1>2, <1>3, <1>4, <1>5, <1>6, <2>2 DEF Conversation, RunAgrees, Abandoned
  <2>6. RepliesAgree(w)'
    <3>1. \A k \in Replies(w) :
            /\ outbox[w][k].job = busy[w]
            /\ outbox[w][k].kind # "started" =>
                 k = Len(outbox[w]) /\ remote[w].running = NoJob
            /\ outbox[w][k].kind = "cancelled" => job[busy[w]].aborted
      BY <1>2, <1>3 DEF Conversation, RepliesAgree
    <3>2. Replies(w)' = 1..(Len(outbox[w]) - 1) BY <1>4, <1>8 DEF Replies
    <3>3. \A k \in 1..(Len(outbox[w]) - 1) :
            /\ outbox'[w][k] = outbox[w][k + 1]
            /\ k + 1 \in Replies(w) /\ outbox[w][k + 1].kind # "started"
            /\ k + 1 = Len(outbox[w]) => k = Len(outbox'[w])
      BY <1>4, <1>8
    <3> QED BY <1>2, <1>6, <2>2, <3>1, <3>2, <3>3 DEF RepliesAgree
  <2>7. (w > workersStarted => Untouched(w))'
    BY <1>2, <1>5, BusyFacts
  <2>8. JobsAgree' BY <1>7, <2>2, BusyFacts DEF Conversations, JobsAgree
  <2> QED BY <2>3, <2>4, <2>5, <2>6, <2>7, <2>8 DEF Conversations, Conversation
<1>12. CASE m.kind # "started"
  <2>1. PICK o \in Settled : Finish(j, o)
    <3>1. Finish(m.job, IF m.kind = "returned" /\ ~job[m.job].aborted
                        THEN "value" ELSE "error")
      BY <1>1, <1>4, <1>12 DEF OnMessage
    <3> QED BY <1>4, <1>6, <3>1 DEF Settled
  <2>2. /\ \A k \in JobIds : k # j => job'[k] = job[k]
        /\ job'[j].worker = w /\ job'[j].status \in Settled
        /\ \A v \in Workers : v # w => busy'[v] = busy[v]
        /\ busy'[w] = NoJob
    BY <1>5, <1>7, <2>1, FinishFacts, BusyFacts DEF IInv, Bookkeeping
  <2>3. \A v \in Workers : v # w => Conversation(v)' BY <1>9, <2>2
  <2>4. outbox'[w] = <<>> /\ remote[w].running = NoJob BY <1>4, <1>8, <1>12
  <2>5. RequestsAgree(w)'
    BY <1>2, <1>4, <1>7, <1>10, <2>2, BusyFacts DEF RequestsAgree, Mail
  <2>6. RunAgrees(w)' BY <1>2, <2>4 DEF RunAgrees
  <2>7. RepliesAgree(w)' BY <2>4 DEF RepliesAgree, Replies
  <2>8. (w > workersStarted => Untouched(w))'
    BY <1>2, <1>5, BusyFacts
  <2>9. JobsAgree'
    BY <1>7, <2>2, BusyFacts DEF Conversations, JobsAgree, Settled
  <2> QED BY <2>3, <2>5, <2>6, <2>7, <2>8, <2>9 DEF Conversations, Conversation
<1> QED BY <1>11, <1>12

-----------------------------------------------------------------------------
(* Termination.                                                            *)

(* A connection whose terminate() has settled carries nothing.             *)
LEMMA TerminatedConversation ==
  ASSUME IInv, NEW w \in Workers, Conversation(w), Terminate(w),
         w \in workers \union retiring, workersStarted' = workersStarted,
         busy'[w] = NoJob,
         remote[w].running = NoJob \/ w \notin workers' \union retiring'
  PROVE  Conversation(w)'
<1>1. inbox'[w] = <<>> /\ outbox'[w] = <<>>
  BY DEF Terminate, IInv, TypeOK
<1>2. \/ remote'[w] = NoRemote
      \/ remote'[w] = remote[w] /\ cleanupFailed'
  BY DEF Terminate, IInv, TypeOK
<1>3. NoRemote.running = NoJob /\ NoRemote.phase = "none"
  BY DEF NoRemote, FreshRemote
<1>4. RequestsAgree(w)' BY <1>1 DEF RequestsAgree, Mail
<1>5. RepliesAgree(w)' BY <1>1 DEF RepliesAgree, Replies
<1>6. RunAgrees(w)'
  BY <1>2, <1>3 DEF Conversation, RunAgrees, Abandoned
<1>7. ~(w > workersStarted)' BY BusyFacts
<1> QED BY <1>4, <1>5, <1>6, <1>7 DEF Conversation

(* terminate() of one worker leaves the other connections alone.           *)
LEMMA TerminatedElsewhere ==
  ASSUME IInv, NEW w \in Workers, NEW v \in Workers, v # w, Terminate(w)
  PROVE  /\ inbox'[v] = inbox[v] /\ outbox'[v] = outbox[v]
         /\ remote'[v] = remote[v] /\ (cleanupFailed => cleanupFailed')
BY DEF Terminate, IInv, TypeOK

(* The retirement of a lost worker ends its conversation.                  *)
LEMMA RetireConversations ==
  ASSUME IInv, Conversations, NEW w \in Workers, Retire(w)
  PROVE  Conversations'
<1>1. /\ w \in retiring /\ Terminate(w) /\ retiring' = retiring \ {w}
      /\ UNCHANGED <<workers, workersStarted, installed>>
  BY DEF Retire
<1>2. w \notin workers BY <1>1 DEF IInv, Bookkeeping, NumbersAgree
<1>3. /\ \A k \in JobIds : k # busy[w] => job'[k] = job[k]
      /\ busy[w] # NoJob => /\ job'[busy[w]].worker = w
                            /\ job'[busy[w]].status \in Settled
      /\ \A v \in Workers : v # w => busy'[v] = busy[v]
      /\ busy'[w] = NoJob
  <2>1. CASE busy[w] = NoJob BY <2>1 DEF Retire, slotVars
  <2>2. CASE busy[w] # NoJob
    <3>1. Finish(busy[w], "error") BY <2>2 DEF Retire
    <3>2. busy[w] \in Pending /\ job[busy[w]].worker = w BY <2>2, BusyFacts
    <3> QED
      BY <1>1, <2>2, <3>1, <3>2, FinishFacts, BusyFacts
      DEF IInv, Bookkeeping, Settled
  <2> QED BY <2>1, <2>2
<1>4. busy[w] # NoJob => job[busy[w]].worker = w BY BusyFacts
<1>5. ASSUME NEW v \in Workers, v # w PROVE Conversation(v)'
  <2>1. Conversation(v) BY DEF Conversations
  <2>2. /\ inbox'[v] = inbox[v] /\ outbox'[v] = outbox[v]
        /\ remote'[v] = remote[v] /\ (cleanupFailed => cleanupFailed')
    BY <1>1, <1>5, TerminatedElsewhere
  <2>3. Abandoned(v) => Abandoned(v)' BY <1>1, <1>5, <2>2 DEF Abandoned
  <2>4. \A k \in JobIds : job[k].worker = v =>
          /\ job'[k].worker = v /\ job'[k].started = job[k].started
          /\ job[k].aborted => job'[k].aborted
    BY <1>3, <1>4, <1>5, BusyFacts
  <2>5. busy'[v] = busy[v] BY <1>3, <1>5
  <2> QED BY ONLY <1>1, <2>1, <2>2, <2>3, <2>4, <2>5, IInv, Elsewhere,
                  v \in Workers
<1>6. Conversation(w)'
  BY <1>1, <1>2, <1>3, TerminatedConversation DEF Conversations
<1>7. JobsAgree'
  BY <1>3, <1>4, BusyFacts DEF Conversations, JobsAgree, Settled
<1> QED BY <1>5, <1>6, <1>7 DEF Conversations

(* close() terminates workers that have no job any more.                   *)
LEMMA CloseTerminatesConversations ==
  ASSUME IInv, Conversations, NEW w \in Workers, CloseTerminates(w)
  PROVE  Conversations'
<1>1. /\ w \in workers /\ Terminate(w) /\ closing = "terminating"
      /\ UNCHANGED <<workers, retiring, workersStarted, installed, job, busy>>
  BY DEF CloseTerminates, slotVars
<1>2. busy[w] = NoJob BY <1>1, BusyFacts DEF IInv, Bookkeeping, NumbersAgree
<1>3. remote[w].running = NoJob BY <1>1, <1>2, RunFacts DEF Conversations
<1>4. ASSUME NEW v \in Workers, v # w PROVE Conversation(v)'
  <2>1. Conversation(v) BY DEF Conversations
  <2>2. /\ inbox'[v] = inbox[v] /\ outbox'[v] = outbox[v]
        /\ remote'[v] = remote[v] /\ (cleanupFailed => cleanupFailed')
    BY <1>1, <1>4, TerminatedElsewhere
  <2>3. Abandoned(v) => Abandoned(v)' BY <1>1, <2>2 DEF Abandoned
  <2> QED BY ONLY <1>1, <2>1, <2>2, <2>3, IInv, Elsewhere, v \in Workers
<1>5. Conversation(w)'
  BY <1>1, <1>2, <1>3, TerminatedConversation DEF Conversations
<1> QED BY <1>1, <1>4, <1>5 DEF Conversations, JobsAgree

-----------------------------------------------------------------------------
(* serveWorker.                                                            *)

(* A request that a worker receives is the first of its mail; the others   *)
(* move up.                                                                *)
LEMMA ReceivedFacts ==
  ASSUME TypeOK, NEW w \in Workers, inbox[w] # <<>>, Consume(w)
  PROVE  /\ 1 \in Mail(w) /\ Head(inbox[w]) = inbox[w][1]
         /\ \A i \in Mail(w)' : /\ i + 1 \in Mail(w) /\ i + 1 # 1 /\ i \in Nat
                                /\ inbox'[w][i] = inbox[w][i + 1]
         /\ \A i \in Mail(w) : i # 1 =>
              i - 1 \in Mail(w)' /\ inbox'[w][i - 1] = inbox[w][i]
         /\ \A v \in Workers : v # w => inbox'[v] = inbox[v]
<1>1. PICK q : q = inbox[w] OBVIOUS
<1>2. q \in Seq(Request) /\ q # <<>> BY <1>1, WireFacts
<1>3. /\ Len(Tail(q)) = Len(q) - 1 /\ Len(q) \in Nat /\ Len(q) > 0
      /\ Head(q) = q[1] /\ 1 \in 1..Len(q)
      /\ \A i \in 1..(Len(q) - 1) : Tail(q)[i] = q[i + 1] /\ i + 1 \in 1..Len(q)
  BY <1>2, TailFacts
<1>4. /\ inbox'[w] = Tail(q) /\ \A v \in Workers : v # w => inbox'[v] = inbox[v]
  BY <1>1 DEF Consume, TypeOK
<1>5. Mail(w) = 1..Len(q) /\ Mail(w)' = 1..(Len(q) - 1)
  BY <1>1, <1>3, <1>4 DEF Mail
<1>6. \A i \in 1..(Len(q) - 1) : i + 1 # 1 /\ i \in Nat BY <1>3
<1>7. \A i \in 1..Len(q) : i # 1 => /\ i - 1 \in 1..(Len(q) - 1)
                                    /\ (i - 1) + 1 = i
  BY <1>3
<1> QED BY <1>1, <1>3, <1>4, <1>5, <1>6, <1>7

(* What a worker does leaves the other conversations alone.                *)
LEMMA WorkersApart ==
  ASSUME IInv, NEW w \in Workers, NEW v \in Workers, v # w, Conversation(v),
         HostUnchanged,
         inbox'[v] = inbox[v], outbox'[v] = outbox[v], remote'[v] = remote[v]
  PROVE  Conversation(v)'
<1>1. UNCHANGED <<job, workers, retiring, workersStarted, busy, installed,
                  cleanupFailed>>
  BY DEF HostUnchanged, slotVars, closeVars
<1>2. Abandoned(v) => Abandoned(v)' BY <1>1 DEF Abandoned
<1> QED BY ONLY <1>1, <1>2, IInv, Elsewhere, v \in Workers, Conversation(v),
           inbox'[v] = inbox[v], outbox'[v] = outbox[v], remote'[v] = remote[v]

(* The requests still to be received stay in order while the run among     *)
(* them, if any, is not begun.                                             *)
LEMMA RequestsLeft ==
  ASSUME IInv, NEW w \in Workers, Conversation(w), HostUnchanged,
         inbox'[w] = inbox[w] \/ (inbox[w] # <<>> /\ Consume(w)),
         (\E i \in Mail(w)' : inbox'[w][i].kind = "run") =>
           remote'[w].running # busy[w] /\ NotBegun(w)'
  PROVE  RequestsAgree(w)'
<1>1. job' = job /\ busy' = busy BY DEF HostUnchanged, slotVars
<1>2. CASE inbox'[w] = inbox[w]
  BY <1>1, <1>2 DEF Conversation, RequestsAgree, Mail
<1>3. CASE inbox[w] # <<>> /\ Consume(w)
  <2>1. \A i \in Mail(w)' : /\ i + 1 \in Mail(w) /\ i \in Nat
                            /\ inbox'[w][i] = inbox[w][i + 1]
    BY <1>3, ReceivedFacts DEF IInv
  <2>2. ASSUME NEW i \in Mail(w)', NEW k \in Mail(w)',
               inbox'[w][i].kind = "run", inbox'[w][k].kind = "run"
        PROVE  k = i
    <3>1. /\ i + 1 \in Mail(w) /\ k + 1 \in Mail(w) /\ i \in Nat /\ k \in Nat
          /\ inbox[w][i + 1].kind = "run" /\ inbox[w][k + 1].kind = "run"
      BY <2>1, <2>2
    <3>2. k + 1 = i + 1 BY <3>1 DEF Conversation, RequestsAgree
    <3> QED BY <3>1, <3>2
  <2>3. \A i \in Mail(w) :
          /\ inbox[w][i].kind = "cancel" =>
               /\ job[inbox[w][i].job].worker = w
               /\ inbox[w][i].job = busy[w] => job[busy[w]].aborted
          /\ inbox[w][i].kind = "run" => inbox[w][i].job = busy[w]
    BY DEF Conversation, RequestsAgree
  <2>4. \A i \in Mail(w)' :
          /\ inbox'[w][i].kind = "cancel" =>
               /\ job'[inbox'[w][i].job].worker = w
               /\ inbox'[w][i].job = busy'[w] => job'[busy'[w]].aborted
          /\ inbox'[w][i].kind = "run" => inbox'[w][i].job = busy'[w]
    BY <1>1, <2>1, <2>3
  <2> QED BY <1>1, <2>2, <2>4 DEF RequestsAgree
<1> QED BY <1>2, <1>3

(* A worker that is up has been created.                                   *)
LEMMA UpFacts ==
  ASSUME NEW w \in Workers, Conversation(w), remote[w].up
  PROVE  ~(w > workersStarted)
BY DEF Conversation, Untouched, NoRemote, FreshRemote

(* A step of a worker that answers nothing and begins nothing.             *)
LEMMA QuietStep ==
  ASSUME IInv, NEW w \in Workers, Conversation(w), HostUnchanged,
         remote[w].up, outbox'[w] = outbox[w],
         inbox'[w] = inbox[w] \/ (inbox[w] # <<>> /\ Consume(w)),
         remote'[w].running \in {NoJob, remote[w].running},
         remote'[w].running # NoJob =>
           /\ remote'[w].phase = remote[w].phase
           /\ remote'[w].aborted /\ remote[w].running = busy[w] =>
                remote[w].aborted \/ job[busy[w]].aborted
  PROVE  Conversation(w)'
<1>1. UNCHANGED <<job, busy, workers, retiring, workersStarted, cleanupFailed>>
  BY DEF HostUnchanged, slotVars, closeVars
<1>2. NotBegun(w)' <=> NotBegun(w) BY <1>1 DEF NotBegun, Replies
<1>3. (\E i \in Mail(w)' : inbox'[w][i].kind = "run") =>
        \E i \in Mail(w) : inbox[w][i].kind = "run"
  <2>1. CASE inbox'[w] = inbox[w] BY <2>1 DEF Mail
  <2>2. CASE inbox[w] # <<>> /\ Consume(w)
    <3>1. \A i \in Mail(w)' : /\ i + 1 \in Mail(w)
                              /\ inbox'[w][i] = inbox[w][i + 1]
      BY <2>2, ReceivedFacts DEF IInv
    <3> QED BY <3>1
  <2> QED BY <2>1, <2>2
<1>4. (\E i \in Mail(w)' : inbox'[w][i].kind = "run") =>
        remote'[w].running # busy[w] /\ NotBegun(w)'
  BY <1>2, <1>3, RunFacts, BusyFacts
<1>5. RequestsAgree(w)' BY <1>4, RequestsLeft
<1>6. RunAgrees(w)'
  BY <1>1, <1>2 DEF Conversation, RunAgrees, Abandoned
<1>7. RepliesAgree(w)'
  BY <1>1 DEF Conversation, RepliesAgree, Replies
<1>8. ~(w > workersStarted)' BY <1>1, UpFacts
<1> QED BY <1>5, <1>6, <1>7, <1>8 DEF Conversation

(* The worker takes up the run request, which was for its present job.     *)
LEMMA RunStep ==
  ASSUME IInv, NEW w \in Workers, Conversation(w), HostUnchanged,
         remote[w].up, outbox'[w] = outbox[w],
         inbox[w] # <<>>, Consume(w), Head(inbox[w]).kind = "run",
         remote'[w].running = Head(inbox[w]).job,
         remote'[w].phase = "waiting", ~remote'[w].aborted
  PROVE  Conversation(w)'
<1>1. UNCHANGED <<job, busy, workers, retiring, workersStarted, cleanupFailed>>
  BY DEF HostUnchanged, slotVars, closeVars
<1>2. /\ 1 \in Mail(w) /\ inbox[w][1] = Head(inbox[w])
      /\ \A i \in Mail(w)' : /\ i + 1 \in Mail(w) /\ i + 1 # 1
                             /\ inbox'[w][i] = inbox[w][i + 1]
  BY ReceivedFacts DEF IInv
<1>3. /\ Head(inbox[w]).job = busy[w] /\ NotBegun(w)
      /\ \A k \in Mail(w) : inbox[w][k].kind = "run" => k = 1
  BY <1>2 DEF Conversation, RequestsAgree
<1>4. NotBegun(w)' BY <1>1, <1>3 DEF NotBegun, Replies
<1>5. \A i \in Mail(w)' : inbox'[w][i].kind # "run" BY <1>2, <1>3
<1>6. RequestsAgree(w)' BY <1>5, RequestsLeft
<1>7. RunAgrees(w)' BY <1>1, <1>3, <1>4 DEF RunAgrees
<1>8. RepliesAgree(w)'
  <2>1. w \in workers => outbox[w] = <<>>
    <3> SUFFICES ASSUME w \in workers PROVE outbox[w] = <<>> OBVIOUS
    <3>1. \A k \in Replies(w) : outbox[w][k].job = busy[w]
      BY DEF Conversation, RepliesAgree
    <3>2. \A k \in Replies(w) : FALSE BY <1>3, <3>1 DEF NotBegun
    <3>3. outbox[w] \in Seq(Response) BY WireFacts DEF IInv
    <3> QED BY <3>2, <3>3 DEF Replies
  <2> QED BY <1>1, <2>1 DEF RepliesAgree, Replies
<1>9. ~(w > workersStarted)' BY <1>1, UpFacts
<1> QED BY <1>6, <1>7, <1>8, <1>9 DEF Conversation

(* A response joins those on their way, if the host still listens: it is   *)
(* the start of the present job, or its end.                               *)
LEMMA AnswerStep ==
  ASSUME IInv, NEW w \in Workers, Conversation(w), HostUnchanged,
         remote[w].up, remote[w].phase # "none",
         UNCHANGED inbox,
         NEW kind \in {"started", "returned", "cancelled", "failed"},
         Reply(w, kind),
         kind = "cancelled" => remote[w].aborted,
         kind = "started" =>
           /\ remote[w].phase = "waiting" /\ remote'[w].phase = "executing"
           /\ remote'[w].running = remote[w].running
           /\ remote'[w].aborted = remote[w].aborted,
         kind # "started" => remote'[w].running = NoJob
  PROVE  Conversation(w)'
<1> DEFINE m == [kind |-> kind, job |-> remote[w].running]
<1>1. UNCHANGED <<job, busy, workers, retiring, workersStarted, cleanupFailed>>
  BY DEF HostUnchanged, slotVars, closeVars
<1>2. remote[w].running # NoJob BY DEF IInv, Bookkeeping, NumbersAgree
<1>3. \A i \in Mail(w) : inbox[w][i].kind # "run" BY <1>2, RunFacts
<1>4. RequestsAgree(w)' BY <1>3, RequestsLeft DEF Mail
<1>5. RunAgrees(w)'
  BY <1>1, <1>2 DEF Conversation, RunAgrees, Abandoned
<1>6. ~(w > workersStarted)' BY <1>1, UpFacts
<1>7. RepliesAgree(w)'
  <2>1. CASE w \notin workers BY <1>1, <2>1 DEF RepliesAgree
  <2>2. CASE w \in workers
    <3>1. PICK q : q = outbox[w] OBVIOUS
    <3>2. remote[w].running = busy[w] /\ busy[w] \in JobIds
      BY <1>2, <2>2, RunFacts, BusyFacts
    <3>3. q \in Seq(Response) /\ m \in Response
      BY <3>1, <3>2, WireFacts DEF IInv, Response
    <3>4. outbox'[w] = Append(q, m) BY <2>2, <3>1 DEF Reply, IInv, TypeOK
    <3>5. m.kind = kind /\ m.job = busy[w] BY <3>2
    <3> HIDE DEF m
    <3>6. /\ Len(Append(q, m)) = Len(q) + 1 /\ Len(q) \in Nat
          /\ Append(q, m)[Len(q) + 1] = m
          /\ \A i \in 1..Len(q) : Append(q, m)[i] = q[i]
          /\ \A i \in 1..(Len(q) + 1) : i = Len(q) + 1 \/ i \in 1..Len(q)
      BY <3>3, AppendFacts
    <3>7. \A k \in 1..Len(q) : /\ q[k].job = busy[w] /\ q[k].kind = "started"
                               /\ k = 1 /\ ~job[busy[w]].started
      BY <1>2, <2>2, <3>1 DEF Conversation, RepliesAgree, Replies
    <3>8. kind = "started" => Len(q) = 0 /\ ~job[busy[w]].started
      <4>1. ASSUME kind = "started" PROVE NotBegun(w)
        BY <1>2, <3>2, <4>1 DEF Conversation, RunAgrees
      <4>2. ASSUME kind = "started" PROVE \A k \in 1..Len(q) : FALSE
        BY <3>1, <3>7, <4>1, <4>2 DEF NotBegun, Replies
      <4> QED BY <3>6, <4>1, <4>2 DEF NotBegun
    <3>9. kind = "cancelled" => job[busy[w]].aborted
      BY <1>2, <3>2 DEF Conversation, RunAgrees
    <3>10. Replies(w)' = 1..(Len(q) + 1) BY <3>4, <3>6 DEF Replies
    <3>11. ASSUME NEW k \in 1..(Len(q) + 1)
           PROVE  /\ outbox'[w][k].job = busy[w]
                  /\ outbox'[w][k].kind = "started" =>
                       k = 1 /\ ~job[busy[w]].started
                  /\ outbox'[w][k].kind # "started" =>
                       k = Len(outbox'[w]) /\ remote'[w].running = NoJob
                  /\ outbox'[w][k].kind = "cancelled" => job[busy[w]].aborted
      <4>1. CASE k = Len(q) + 1
        <5>1. outbox'[w][k] = m /\ k = Len(outbox'[w]) BY <3>4, <3>6, <4>1
        <5> QED BY <3>5, <3>8, <3>9, <4>1, <5>1
      <4>2. CASE k \in 1..Len(q)
        <5>1. outbox'[w][k] = q[k] BY <3>4, <3>6, <4>2
        <5> QED BY <3>7, <4>2, <5>1
      <4> QED BY <3>6, <4>1, <4>2
    <3> QED BY <1>1, <3>10, <3>11 DEF RepliesAgree
  <2> QED BY <2>1, <2>2
<1> QED BY <1>4, <1>5, <1>6, <1>7 DEF Conversation

(* Every step of serveWorker keeps the conversations.                      *)
LEMMA WorkerConversations ==
  ASSUME IInv, Conversations, NEW w \in Workers, Worker(w)
  PROVE  Conversations'
<1> DEFINE r == remote[w]
           m == Head(inbox[w])
<1>1. /\ HostUnchanged /\ r.up /\ r \in Remote
      /\ \A v \in Workers : v # w => remote'[v] = remote[v]
      /\ inbox' = inbox \/ (inbox[w] # <<>> /\ Consume(w))
      /\ outbox' = outbox \/ \E kind : Reply(w, kind)
  BY DEF Worker, RemoteInstall, RemoteUninstall, RemoteCancel, RemoteRun,
         RemoteStarts, RemoteRefuses, RemoteStartFails, RemoteReturns,
         RemoteFails, RemoteCrashes, Respond, Receives, Dies, wireVars,
         IInv, TypeOK
<1>2. Conversation(w) BY DEF Conversations
<1>3. ASSUME NEW v \in Workers, v # w PROVE Conversation(v)'
  <2>1. inbox'[v] = inbox[v] BY <1>1, <1>3 DEF Consume, IInv, TypeOK
  <2>2. outbox'[v] = outbox[v] BY <1>1, <1>3 DEF Reply, IInv, TypeOK
  <2>3. Conversation(v) BY DEF Conversations
  <2> QED BY <1>1, <1>3, <2>1, <2>2, <2>3, WorkersApart
<1>4. Conversation(w)'
  <2>1. NoRemote.running = NoJob BY DEF NoRemote, FreshRemote
  <2>2. ASSUME remote' = [remote EXCEPT ![w] = NoRemote], outbox' = outbox
        PROVE  Conversation(w)'
    <3>1. remote'[w].running = NoJob BY <2>1, <2>2 DEF IInv, TypeOK
    <3> QED BY <1>1, <1>2, <2>2, <3>1, QuietStep
  <2>3. CASE RemoteInstall(w)
    <3>1. outbox' = outbox BY <2>3 DEF RemoteInstall
    <3>2. \/ remote' = [remote EXCEPT ![w] = NoRemote]
          \/ /\ remote'[w].running = r.running /\ remote'[w].phase = r.phase
             /\ remote'[w].aborted = r.aborted
      BY <2>3, <1>1 DEF RemoteInstall, Dies, IInv, TypeOK, Remote
    <3> QED BY <1>1, <1>2, <2>2, <3>1, <3>2, QuietStep
  <2>4. CASE RemoteUninstall(w)
    <3>1. outbox' = outbox BY <2>4 DEF RemoteUninstall
    <3>2. \/ remote' = [remote EXCEPT ![w] = NoRemote]
          \/ /\ remote'[w].running = r.running /\ remote'[w].phase = r.phase
             /\ remote'[w].aborted = r.aborted
      BY <2>4, <1>1 DEF RemoteUninstall, Dies, IInv, TypeOK, Remote
    <3> QED BY <1>1, <1>2, <2>2, <3>1, <3>2, QuietStep
  <2>5. CASE RemoteCancel(w)
    <3>1. /\ outbox' = outbox /\ inbox[w] # <<>> /\ m.kind = "cancel"
          /\ Consume(w)
          /\ remote' = [remote EXCEPT ![w].aborted = r.aborted \/ Cancels(w, m.job)]
      BY <2>5 DEF RemoteCancel, Receives
    <3>2. /\ remote'[w].running = r.running /\ remote'[w].phase = r.phase
          /\ remote'[w].aborted = (r.aborted \/ Cancels(w, m.job))
      BY <1>1, <3>1 DEF IInv, TypeOK, Remote
    <3>3. 1 \in Mail(w) /\ inbox[w][1] = m BY <3>1, ReceivedFacts DEF IInv
    <3>4. m.job = busy[w] => job[busy[w]].aborted
      BY <1>2, <3>1, <3>3 DEF Conversation, RequestsAgree
    <3>5. remote'[w].aborted /\ r.running = busy[w] =>
            r.aborted \/ job[busy[w]].aborted
      BY <3>2, <3>4 DEF Cancels
    <3> QED BY <1>1, <1>2, <3>1, <3>2, <3>5, QuietStep
  <2>6. CASE RemoteRun(w)
    <3>1. outbox' = outbox /\ inbox[w] # <<>> /\ m.kind = "run" /\ Consume(w)
      BY <2>6 DEF RemoteRun, Receives
    <3>2. \/ remote' = [remote EXCEPT ![w] = NoRemote]
          \/ /\ remote'[w].running = m.job /\ remote'[w].phase = "waiting"
             /\ ~remote'[w].aborted
      BY <2>6, <1>1 DEF RemoteRun, Dies, IInv, TypeOK, Remote
    <3> QED BY <1>1, <1>2, <2>2, <3>1, <3>2, RunStep
  <2>7. CASE RemoteStarts(w)
    <3>1. /\ r.phase = "waiting" /\ Reply(w, "started") /\ UNCHANGED inbox
          /\ remote' = [remote EXCEPT ![w].programs[r.program] = "live",
                                      ![w].phase = "executing"]
      BY <2>7 DEF RemoteStarts
    <3>2. /\ remote'[w].running = r.running /\ remote'[w].phase = "executing"
          /\ remote'[w].aborted = r.aborted
      BY <1>1, <3>1 DEF IInv, TypeOK, Remote
    <3> QED BY <1>1, <1>2, <3>1, <3>2, AnswerStep
  <2>8. ASSUME NEW kind \in {"returned", "cancelled", "failed"}, NEW state,
               r.phase # "none", UNCHANGED inbox, Respond(w, kind, state),
               kind = "cancelled" => r.aborted
        PROVE  Conversation(w)'
    <3>1. Reply(w, kind) /\ remote'[w].running = NoJob
      BY <2>8, <1>1 DEF Respond, IInv, TypeOK, Remote
    <3> QED BY <1>1, <1>2, <2>8, <3>1, AnswerStep
  <2>9. CASE RemoteRefuses(w) \/ RemoteStartFails(w) \/ RemoteFails(w)
    <3>1. /\ r.phase # "none" /\ UNCHANGED inbox
          /\ \E state : Respond(w, ErrorKind(w), state)
      BY <2>9 DEF RemoteRefuses, RemoteStartFails, RemoteFails
    <3>2. /\ ErrorKind(w) \in {"returned", "cancelled", "failed"}
          /\ ErrorKind(w) = "cancelled" => r.aborted
      BY DEF ErrorKind
    <3> QED BY <2>8, <3>1, <3>2
  <2>10. CASE RemoteReturns(w)
    <3>1. r.phase # "none" /\ UNCHANGED inbox /\ Respond(w, "returned", "live")
      BY <2>10 DEF RemoteReturns
    <3> QED BY <2>8, <3>1
  <2>11. CASE RemoteCrashes(w)
    BY <2>2, <2>11 DEF RemoteCrashes, Dies, wireVars
  <2> QED BY <2>3, <2>4, <2>5, <2>6, <2>7, <2>9, <2>10, <2>11 DEF Worker
<1>5. job' = job BY <1>1 DEF HostUnchanged
<1> QED BY <1>3, <1>4, <1>5 DEF Conversations, JobsAgree

-----------------------------------------------------------------------------
(* Conversations hold in every reachable state.                            *)

(* Before the first job nothing is in transit.                             *)
LEMMA InitConversations == Init => Conversations
<1> SUFFICES ASSUME Init PROVE Conversations OBVIOUS
<1>1. NoRemote.running = NoJob /\ NoRemote.phase = "none"
  BY DEF NoRemote, FreshRemote
<1>2. ASSUME NEW w \in Workers PROVE Conversation(w)
  <2>1. /\ inbox[w] = <<>> /\ outbox[w] = <<>> /\ installed[w] = <<>>
        /\ remote[w] = NoRemote
    BY DEF Init
  <2> QED BY <1>1, <2>1
      DEF Conversation, RequestsAgree, RunAgrees, RepliesAgree, Untouched,
          Mail, Replies
<1>3. JobsAgree BY DEF Init, JobsAgree, Unsubmitted
<1> QED BY <1>2, <1>3 DEF Conversations

(* Every step keeps the conversations.                                     *)
LEMMA NextConversations ==
  ASSUME IInv, Conversations, [Next]_vars
  PROVE  Conversations'
<1>1. CASE Host
  <2>1. CASE \/ \E c \in Callbacks, p \in Priority : Execute(c, p)
             \/ \E c \in Callbacks : Promote(c)
             \/ DispatchReturns \/ CloseDrained
    BY <2>1, CallsConversations
  <2>2. CASE \E j \in JobIds : AbortQueued(j) \/ StartFails(j)
    BY <2>2, QueuedEndConversations
  <2>3. CASE \E j \in JobIds : AbortRunning(j)
    BY <2>3, AbortRunningConversations
  <2>4. CASE \E j \in JobIds, w \in Workers : Place(j, w) \/ PlaceFails(j, w)
    <3>1. IInv' BY NextIInv
    <3> QED BY <2>4, <3>1, TurnConversations
  <2>5. CASE \E w \in Workers : OnMessage(w) BY <2>5, OnMessageConversations
  <2>6. CASE Closed \/ \E w \in Workers : OnError(w) BY <2>6, LossConversations
  <2>7. CASE \E w \in Workers : Retire(w) BY <2>7, RetireConversations
  <2>8. CASE Close BY <2>8, CloseConversations
  <2>9. CASE \E w \in Workers : CloseTerminates(w)
    BY <2>9, CloseTerminatesConversations
  <2> QED BY <1>1, <2>1, <2>2, <2>3, <2>4, <2>5, <2>6, <2>7, <2>8, <2>9 DEF Host
<1>2. CASE \E w \in Workers : Worker(w) BY <1>2, WorkerConversations
<1>3. CASE UNCHANGED vars
  <2>1. UNCHANGED <<wireVars, remote, installed, busy, workersStarted,
                    cleanupFailed, workers, retiring, job>>
    BY <1>3 DEF vars, slotVars, closeVars
  <2> QED BY <2>1, QuietConversations DEF Conversations, JobsAgree
<1> QED BY <1>1, <1>2, <1>3 DEF Next

-----------------------------------------------------------------------------
(* The programs of a worker.                                               *)

\* A request of this kind about program p is on its way to w.
Due(w, kind, p) ==
  \E i \in Mail(w) : inbox[w][i].kind = kind /\ inbox[w][i].program = p

\* Installing and retiring prepare a run that follows, and each is done once.
InstallsAgree(w) ==
  \A i \in Mail(w) : inbox[w][i].kind \in {"install", "uninstall"} =>
    /\ \E k \in Mail(w) : k > i /\ inbox[w][k].kind = "run"
    /\ \A k \in Mail(w) : inbox[w][k].kind = inbox[w][i].kind => k = i

\* w will have what the host believes it has, and has what a run needs.
ProgramsAgree(w) ==
  \A p \in Programs :
    /\ remote[w].programs[p] # "absent" <=>
         \/ Linked(installed[w], p) /\ ~Due(w, "install", p)
         \/ Due(w, "uninstall", p)
    /\ Due(w, "install", p) \/ Due(w, "run", p) => Linked(installed[w], p)
    /\ Due(w, "uninstall", p) => ~Linked(installed[w], p)

\* The program of the job that w runs is there.
RunInstalled(w) ==
  remote[w].phase # "none" =>
    /\ remote[w].program \in Programs
    /\ remote[w].programs[remote[w].program] # "absent"

Preparation(w) ==
  /\ Distinct(installed[w]) /\ InstallsAgree(w) /\ RunInstalled(w)
  /\ remote[w].up /\ w \in workers \union retiring => ProgramsAgree(w)

Preparations == \A w \in Workers : Preparation(w)

(* What happens elsewhere leaves the preparations of a worker alone.       *)
LEMMA PreparedElsewhere ==
  ASSUME NEW v \in Workers, Preparation(v),
         inbox'[v] = inbox[v], remote'[v] = remote[v],
         installed'[v] = installed[v],
         v \in workers' \union retiring' => v \in workers \union retiring
  PROVE  Preparation(v)'
<1>1. Mail(v)' = Mail(v) BY DEF Mail
<1>2. InstallsAgree(v)' BY <1>1 DEF Preparation, InstallsAgree
<1>3. RunInstalled(v)' BY DEF Preparation, RunInstalled
<1>4. \A kind, p : Due(v, kind, p)' <=> Due(v, kind, p) BY <1>1 DEF Due
<1>5. (remote[v].up /\ v \in workers \union retiring => ProgramsAgree(v))'
  BY <1>4 DEF Preparation, ProgramsAgree
<1> QED BY <1>2, <1>3, <1>5 DEF Preparation

(* A cancellation prepares nothing.                                        *)
LEMMA PreparedCancelling ==
  ASSUME IInv, NEW w \in Workers, Preparation(w), busy[w] \in JobIds,
         inbox'[w] = Append(inbox[w], Cancel(busy[w])),
         remote'[w] = remote[w], installed'[w] = installed[w],
         w \in workers' \union retiring' => w \in workers \union retiring
  PROVE  Preparation(w)'
<1>1. PICK q : q = inbox[w] OBVIOUS
<1>2. PICK m : m = Cancel(busy[w]) OBVIOUS
<1>3. q \in Seq(Request) /\ m \in Request /\ m.kind = "cancel"
  BY <1>1, <1>2, WireFacts DEF IInv, Cancel, Request
<1>4. /\ Len(Append(q, m)) = Len(q) + 1 /\ Len(q) \in Nat
      /\ Append(q, m)[Len(q) + 1] = m
      /\ \A i \in 1..Len(q) : Append(q, m)[i] = q[i]
      /\ \A i \in 1..(Len(q) + 1) : i = Len(q) + 1 \/ i \in 1..Len(q)
  BY <1>3, AppendFacts
<1>5. /\ Mail(w)' = 1..(Len(q) + 1) /\ Mail(w) = 1..Len(q)
      /\ inbox'[w] = Append(q, m) /\ inbox[w] = q
  BY <1>1, <1>2, <1>4 DEF Mail
<1>6. /\ \A i \in Mail(w) : i \in Mail(w)' /\ inbox'[w][i] = inbox[w][i]
      /\ \A i \in Mail(w)' : inbox'[w][i].kind # "cancel" => i \in Mail(w)
  BY <1>3, <1>4, <1>5
<1>7. InstallsAgree(w)'
  <2> SUFFICES ASSUME NEW i \in Mail(w)',
                      inbox'[w][i].kind \in {"install", "uninstall"}
               PROVE  /\ \E k \in Mail(w)' : k > i /\ inbox'[w][k].kind = "run"
                      /\ \A k \in Mail(w)' :
                           inbox'[w][k].kind = inbox'[w][i].kind => k = i
    BY DEF InstallsAgree
  <2>1. i \in Mail(w) /\ inbox'[w][i] = inbox[w][i] BY <1>6
  <2>2. /\ \E k \in Mail(w) : k > i /\ inbox[w][k].kind = "run"
        /\ \A k \in Mail(w) : inbox[w][k].kind = inbox[w][i].kind => k = i
    BY <2>1 DEF Preparation, InstallsAgree
  <2>3. \A k \in Mail(w)' : inbox'[w][k].kind = inbox'[w][i].kind => k = i
    BY <1>6, <2>1, <2>2
  <2> QED BY <1>6, <2>2, <2>3
<1>8. \A kind \in {"install", "uninstall", "run"} : \A p :
        Due(w, kind, p)' <=> Due(w, kind, p)
  BY <1>6 DEF Due
<1>9. RunInstalled(w)' BY DEF Preparation, RunInstalled
<1>10. (remote[w].up /\ w \in workers \union retiring => ProgramsAgree(w))'
  BY <1>8 DEF Preparation, ProgramsAgree
<1> QED BY <1>7, <1>9, <1>10 DEF Preparation

(* Making p the newest program of a worker adds p and evicts at most the   *)
(* oldest program.                                                         *)
LEMMA RefreshedFacts ==
  ASSUME TypeOK, NEW w \in Workers, NEW p \in Programs, Distinct(installed[w])
  PROVE  /\ Distinct(Refreshed(w, p))
         /\ \A x : Linked(Refreshed(w, p), x) <=>
                     \/ x = p
                     \/ /\ Linked(installed[w], x)
                        /\ ~(Evicts(w, p) /\ x = Peek(installed[w]))
         /\ Evicts(w, p) => /\ ~Linked(installed[w], p)
                            /\ Linked(installed[w], Peek(installed[w]))
<1>1. PICK c : c = installed[w] OBVIOUS
<1>2. c \in Seq(Programs) /\ Distinct(c) /\ Len(c) \in Nat BY <1>1 DEF TypeOK
<1>3. CASE Evicts(w, p)
  <2>1. ~Linked(c, p) /\ Len(c) >= CacheSize BY <1>1, <1>3 DEF Evicts
  <2>2. c # <<>> BY <1>2, <2>1, CacheAssumption
  <2>3. Linked(c, Peek(c)) BY <1>2, <2>2, PeekLinked
  <2>4. PICK u : u = Unlink(c, Peek(c)) OBVIOUS
  <2>5. /\ u \in Seq(Programs) /\ Distinct(u)
        /\ \A x : Linked(u, x) <=> Linked(c, x) /\ x # Peek(c)
    BY <1>2, <2>4, UnlinkType, UnlinkDistinct, UnlinkLinked
  <2>6. Refreshed(w, p) = Push(u, p) BY <1>1, <1>3, <2>4 DEF Refreshed, Shift
  <2>7. Distinct(Push(u, p)) BY <2>1, <2>5, PushDistinct
  <2>8. \A x : Linked(Push(u, p), x) <=> Linked(u, x) \/ x = p
    BY <2>5, PushLinked
  <2> QED BY <1>1, <1>3, <2>1, <2>3, <2>5, <2>6, <2>7, <2>8
<1>4. CASE ~Evicts(w, p)
  <2>1. PICK u : u = Unlink(c, p) OBVIOUS
  <2>2. /\ u \in Seq(Programs) /\ Distinct(u)
        /\ \A x : Linked(u, x) <=> Linked(c, x) /\ x # p
    BY <1>2, <2>1, UnlinkType, UnlinkDistinct, UnlinkLinked
  <2>3. Refreshed(w, p) = Push(u, p) BY <1>1, <1>4, <2>1 DEF Refreshed
  <2>4. Distinct(Push(u, p)) BY <2>2, PushDistinct
  <2>5. \A x : Linked(Push(u, p), x) <=> Linked(u, x) \/ x = p
    BY <2>2, PushLinked
  <2> QED BY <1>1, <1>4, <2>2, <2>3, <2>4, <2>5
<1> QED BY <1>3, <1>4

(* The chosen worker has the programs that the host believes it has, and   *)
(* nothing but old cancellations on the way.                               *)
LEMMA ChosenPrograms ==
  ASSUME IInv, NEW j \in JobIds, NEW w \in Workers, Conversation(w),
         Preparation(w), Candidate(j), w \in Chosen,
         remote' = IF idle # <<>> THEN remote
                   ELSE [remote EXCEPT ![w] = FreshRemote]
  PROVE  /\ \A i \in Mail(w) : inbox[w][i].kind = "cancel"
         /\ remote'[w].up => \A p \in Programs :
              remote'[w].programs[p] # "absent" <=> Linked(installed[w], p)
<1>1. \A i \in Mail(w) : inbox[w][i].kind # "run" BY ChosenRests
<1>2. \A i \in Mail(w) : inbox[w][i].kind = "cancel"
  <2>1. \A i \in Mail(w) : inbox[w][i].kind \notin {"install", "uninstall"}
    BY <1>1 DEF Preparation, InstallsAgree
  <2>2. \A i \in Mail(w) :
          inbox[w][i].kind \in {"install", "uninstall", "run", "cancel"}
    BY WireFacts, RequestFacts DEF IInv
  <2> QED BY <1>1, <2>1, <2>2
<1>3. CASE idle # <<>>
  <2>1. w \in workers BY <1>3, ChosenFacts
  <2>2. \A p \in Programs : ~Due(w, "install", p) /\ ~Due(w, "uninstall", p)
    BY <1>2 DEF Due
  <2> QED BY <1>2, <1>3, <2>1, <2>2 DEF Preparation, ProgramsAgree
<1>4. CASE idle = <<>>
  <2>1. w > workersStarted BY <1>4, ChosenFacts DEF IInv, TypeOK
  <2>2. installed[w] = <<>> BY <2>1 DEF Conversation, Untouched
  <2>3. remote'[w] = FreshRemote BY <1>4 DEF IInv, TypeOK
  <2>4. \A p \in Programs : remote'[w].programs[p] = "absent"
    BY <2>3 DEF FreshRemote
  <2> QED BY <1>2, <2>2, <2>4, EmptyQueue
<1> QED BY <1>3, <1>4

(* A handover prepares the chosen worker for its job.                      *)
LEMMA PlacedPreparation ==
  ASSUME IInv, NEW j \in JobIds, NEW w \in Workers, Conversation(w),
         Preparation(w), Place(j, w)
  PROVE  Preparation(w)'
<1>1. /\ Candidate(j) /\ w \in Chosen
      /\ remote' = IF idle # <<>> THEN remote
                   ELSE [remote EXCEPT ![w] = FreshRemote]
  BY DEF Place
<1>2. /\ \A i \in Mail(w) : inbox[w][i].kind = "cancel"
      /\ remote'[w].up => \A x \in Programs :
           remote'[w].programs[x] # "absent" <=> Linked(installed[w], x)
  BY <1>1, ChosenPrograms
<1>3. job[j].callback \in Callbacks
  BY <1>1, ChosenFacts DEF Waiting, IInv, Bookkeeping, NumbersAgree
<1>4. PICK p \in Programs : p = ProgramOf[job[j].callback]
  BY <1>3, CallbackAssumption
<1>5. PICK c : c = installed[w] OBVIOUS
<1>6. PICK m : m = Posts(w, j) OBVIOUS
<1>7. PICK q : q = inbox[w] OBVIOUS
<1>8. Handover(m, j, p, Peek(c), Evicts(w, p), Linked(c, p))
  BY <1>3, <1>4, <1>5, <1>6, PostsFacts DEF IInv
<1>9. q \in Seq(Request) /\ m \in Seq(Request)
  BY <1>3, <1>6, <1>7, WireFacts, PostsType DEF IInv
<1>10. /\ Len(q \o m) = Len(q) + Len(m) /\ Len(q) \in Nat /\ Len(m) \in Nat
       /\ \A i \in 1..Len(q) : (q \o m)[i] = q[i]
       /\ \A i \in 1..Len(m) : (q \o m)[Len(q) + i] = m[i]
       /\ \A i \in 1..(Len(q) + Len(m)) :
            i \in 1..Len(q) \/ \E k \in 1..Len(m) : i = Len(q) + k
  BY <1>9, ConcatFacts
<1>11. /\ inbox'[w] = q \o m /\ Mail(w)' = 1..(Len(q) + Len(m))
       /\ installed'[w] = Refreshed(w, p)
  BY <1>4, <1>6, <1>7, <1>10 DEF Place, Mail, IInv, TypeOK
<1>12. PICK box : box = inbox'[w] OBVIOUS
<1>13. /\ \A i \in Mail(w)' : box[i].kind # "cancel" =>
            \E k \in 1..Len(m) : i = Len(q) + k /\ box[i] = m[k]
       /\ \A k \in 1..Len(m) : Len(q) + k \in Mail(w)' /\ box[Len(q) + k] = m[k]
  <2>1. ASSUME NEW i \in Mail(w)', box[i].kind # "cancel"
        PROVE  \E k \in 1..Len(m) : i = Len(q) + k /\ box[i] = m[k]
    <3>1. i \notin 1..Len(q)
      <4>1. \A x \in 1..Len(q) : q[x].kind = "cancel" BY <1>2, <1>7 DEF Mail
      <4> QED BY <1>10, <1>11, <1>12, <2>1, <4>1
    <3> QED BY <1>10, <1>11, <1>12, <2>1, <3>1
  <2>2. \A k \in 1..Len(m) : Len(q) + k \in 1..(Len(q) + Len(m)) BY <1>10
  <2> QED BY <1>10, <1>11, <1>12, <2>1, <2>2
<1>14. /\ Len(m) \in 1..Len(m)
       /\ m[Len(m)].kind = "run" /\ m[Len(m)].program = p
       /\ \A i \in 1..Len(m) :
            /\ m[i].kind \in {"install", "uninstall", "run"}
            /\ m[i].kind = "install" => m[i].program = p /\ ~Linked(c, p)
            /\ m[i].kind = "uninstall" => m[i].program = Peek(c) /\ Evicts(w, p)
            /\ m[i].kind = "run" => m[i].program = p
            /\ \A k \in 1..Len(m) : m[k].kind = m[i].kind => k = i
       /\ ~Linked(c, p) => \E i \in 1..Len(m) : m[i].kind = "install"
       /\ Evicts(w, p) => \E i \in 1..Len(m) : m[i].kind = "uninstall"
  <2>1. Len(m) \in 1..Len(m) BY <1>8 DEF Handover
  <2> QED BY <1>8, <2>1 DEF Handover
<1>15. InstallsAgree(w)'
  <2> SUFFICES ASSUME NEW i \in Mail(w)',
                      box[i].kind \in {"install", "uninstall"}
               PROVE  /\ \E k \in Mail(w)' : k > i /\ box[k].kind = "run"
                      /\ \A k \in Mail(w)' : box[k].kind = box[i].kind => k = i
    BY <1>12 DEF InstallsAgree
  <2>1. PICK n \in 1..Len(m) : i = Len(q) + n /\ box[i] = m[n] BY <1>13
  <2>2. n # Len(m) BY <1>14, <2>1
  <2>3. Len(q) + Len(m) > i BY <1>10, <2>1, <2>2
  <2>4. Len(q) + Len(m) \in Mail(w)' /\ box[Len(q) + Len(m)].kind = "run"
    BY <1>13, <1>14
  <2>5. ASSUME NEW k \in Mail(w)', box[k].kind = box[i].kind PROVE k = i
    <3>1. PICK l \in 1..Len(m) : k = Len(q) + l /\ box[k] = m[l]
      BY <1>13, <2>5
    <3>2. l = n BY <1>14, <2>1, <2>5, <3>1
    <3> QED BY <2>1, <3>1, <3>2
  <2> QED BY <2>3, <2>4, <2>5
<1>16. \A x \in Programs :
         /\ Due(w, "install", x)' <=> ~Linked(c, p) /\ x = p
         /\ Due(w, "uninstall", x)' <=> Evicts(w, p) /\ x = Peek(c)
         /\ Due(w, "run", x)' => x = p
  <2>1. \A kind \in {"install", "uninstall", "run"}, x \in Programs :
          Due(w, kind, x)' <=>
            \E k \in 1..Len(m) : m[k].kind = kind /\ m[k].program = x
    BY <1>12, <1>13 DEF Due
  <2> QED BY <1>14, <2>1
<1>17. /\ Distinct(Refreshed(w, p))
       /\ \A x : Linked(Refreshed(w, p), x) <=>
                    \/ x = p
                    \/ Linked(c, x) /\ ~(Evicts(w, p) /\ x = Peek(c))
       /\ Evicts(w, p) => ~Linked(c, p) /\ Linked(c, Peek(c))
  BY <1>5, RefreshedFacts DEF Preparation, IInv
<1>18. ASSUME remote'[w].up PROVE ProgramsAgree(w)'
  <2>1. \A x \in Programs :
          remote'[w].programs[x] # "absent" <=> Linked(c, x)
    BY <1>2, <1>5, <1>18
  <2> QED BY <1>11, <1>16, <1>17, <2>1 DEF ProgramsAgree
<1>19. RunInstalled(w)' BY <1>1, ChosenRests DEF RunInstalled
<1> QED BY <1>11, <1>15, <1>17, <1>18, <1>19 DEF Preparation

(* A handover that fails prepares nothing.                                 *)
LEMMA LostPreparation ==
  ASSUME IInv, NEW j \in JobIds, NEW w \in Workers, Conversation(w),
         Preparation(w), PlaceFails(j, w)
  PROVE  Preparation(w)'
<1>1. /\ Candidate(j) /\ w \in Chosen
      /\ remote' = IF idle # <<>> THEN remote
                   ELSE [remote EXCEPT ![w] = FreshRemote]
      /\ UNCHANGED <<inbox, installed>>
  BY DEF PlaceFails, wireVars
<1>2. /\ \A i \in Mail(w) : inbox[w][i].kind = "cancel"
      /\ remote'[w].up => \A x \in Programs :
           remote'[w].programs[x] # "absent" <=> Linked(installed[w], x)
  BY <1>1, ChosenPrograms
<1>3. Mail(w)' = Mail(w) BY <1>1 DEF Mail
<1>4. \A kind \in {"install", "uninstall", "run"} : \A x : ~Due(w, kind, x)'
  BY <1>1, <1>2, <1>3 DEF Due
<1>5. InstallsAgree(w)' BY <1>1, <1>2, <1>3 DEF InstallsAgree
<1>6. RunInstalled(w)' BY <1>1, ChosenRests DEF RunInstalled
<1>7. remote'[w].up => ProgramsAgree(w)'
  BY <1>1, <1>2, <1>4 DEF ProgramsAgree
<1>8. Distinct(installed[w])' BY <1>1 DEF Preparation
<1> QED BY <1>5, <1>6, <1>7, <1>8 DEF Preparation

(* A connection whose terminate() has settled has nothing under way.       *)
LEMMA TerminatedPreparation ==
  ASSUME IInv, NEW w \in Workers, Conversation(w), Preparation(w), Terminate(w),
         installed' = installed,
         \/ w \notin workers' \union retiring'
         \/ w \in workers /\ busy[w] = NoJob
  PROVE  Preparation(w)'
<1>1. inbox'[w] = <<>> BY DEF Terminate, IInv, TypeOK
<1>2. remote'[w] = NoRemote \/ remote'[w] = remote[w]
  BY DEF Terminate, IInv, TypeOK
<1>3. ~NoRemote.up /\ NoRemote.phase = "none" BY DEF NoRemote, FreshRemote
<1>4. Mail(w)' = {} BY <1>1 DEF Mail
<1>5. InstallsAgree(w)' BY <1>4 DEF InstallsAgree
<1>6. RunInstalled(w)' BY <1>2, <1>3 DEF Preparation, RunInstalled
<1>7. ASSUME remote'[w].up, w \in workers, busy[w] = NoJob
      PROVE  ProgramsAgree(w)'
  <2>1. remote'[w] = remote[w] BY <1>2, <1>3, <1>7
  <2>2. \A i \in Mail(w) : inbox[w][i].kind # "run"
    BY <1>7, RunFacts, BusyFacts
  <2>3. \A x : ~Due(w, "install", x) /\ ~Due(w, "uninstall", x)
    BY <2>2 DEF Preparation, InstallsAgree, Due
  <2>4. \A kind, x : ~Due(w, kind, x)' BY <1>4 DEF Due
  <2> QED BY <1>7, <2>1, <2>3, <2>4 DEF Preparation, ProgramsAgree
<1> QED BY <1>5, <1>6, <1>7 DEF Preparation

(* Every host step keeps what is prepared.                                 *)
LEMMA HostPreparations ==
  ASSUME IInv, Conversations, Preparations, Host, NEW v \in Workers
  PROVE  Preparation(v)'
<1>1. Conversation(v) /\ Preparation(v) BY DEF Conversations, Preparations
<1>2. CASE \/ \E c \in Callbacks, p \in Priority : Execute(c, p)
           \/ \E c \in Callbacks : Promote(c)
           \/ \E j \in JobIds : AbortQueued(j) \/ StartFails(j)
           \/ DispatchReturns \/ CloseDrained \/ Closed
           \/ \E w \in Workers : OnMessage(w) \/ OnError(w)
  <2>1. UNCHANGED <<inbox, remote, installed>>
    BY <1>2 DEF Execute, Promote, AbortQueued, StartFails, DispatchReturns,
                CloseDrained, Closed, OnMessage, OnError, wireVars
  <2>2. workers' \union retiring' \subseteq workers \union retiring
    BY <1>2 DEF Execute, Promote, AbortQueued, StartFails, DispatchReturns,
                CloseDrained, Closed, OnMessage, OnError, Lose
  <2> QED BY <1>1, <2>1, <2>2, PreparedElsewhere
<1>3. CASE \E j \in JobIds, w \in Workers : Place(j, w) \/ PlaceFails(j, w)
  <2>1. PICK j \in JobIds, w \in Workers : Place(j, w) \/ PlaceFails(j, w)
    BY <1>3
  <2>2. CASE v = w BY <1>1, <2>1, <2>2, PlacedPreparation, LostPreparation
  <2>3. CASE v # w
    <3>1. /\ inbox'[v] = inbox[v] /\ remote'[v] = remote[v]
          /\ installed'[v] = installed[v]
      BY <2>1, <2>3 DEF Place, PlaceFails, IInv, TypeOK, wireVars
    <3>2. v \in workers' \union retiring' => v \in workers \union retiring
      BY <2>1, <2>3 DEF Place, PlaceFails
    <3> QED BY <1>1, <3>1, <3>2, PreparedElsewhere
  <2> QED BY <2>2, <2>3
<1>4. CASE \E j \in JobIds : AbortRunning(j)
  <2>1. PICK j \in JobIds : AbortRunning(j) BY <1>4
  <2>2. PICK w \in Workers : w = job[j].worker
    BY <2>1 DEF AbortRunning, IInv, TypeOK, Job
  <2>3. busy[w] = j BY <2>1, <2>2 DEF AbortRunning, IInv, Bookkeeping, SlotsAgree
  <2>4. UNCHANGED <<remote, installed>> BY <2>1 DEF AbortRunning
  <2>5. workers' \union retiring' \subseteq workers \union retiring
    BY <2>1, <2>2 DEF AbortRunning, Lose
  <2>6. \/ inbox'[v] = inbox[v]
        \/ v = w /\ inbox'[v] = Append(inbox[v], Cancel(busy[v]))
    BY <2>1, <2>2, <2>3 DEF AbortRunning, IInv, TypeOK
  <2> QED BY <1>1, <2>3, <2>4, <2>5, <2>6, PreparedElsewhere, PreparedCancelling
<1>5. CASE Close
  <2>1. /\ UNCHANGED <<remote, installed>>
        /\ workers' \union retiring' \subseteq workers \union retiring
        /\ \/ inbox'[v] = inbox[v]
           \/ v \in Cancelled /\ inbox'[v] = Append(inbox[v], Cancel(busy[v]))
    BY <1>5 DEF Close
  <2>2. ASSUME v \in Cancelled PROVE busy[v] \in JobIds
    <3>1. PICK j \in Pending : job[j].worker = v /\ v # NoWorker
      BY <2>2 DEF Cancelled
    <3> QED BY <3>1 DEF IInv, Bookkeeping, SlotsAgree, Pending
  <2> QED BY <1>1, <2>1, <2>2, PreparedElsewhere, PreparedCancelling
<1>6. CASE \E w \in Workers : Retire(w) \/ CloseTerminates(w)
  <2>1. PICK w \in Workers : Retire(w) \/ CloseTerminates(w) BY <1>6
  <2>2. /\ Terminate(w) /\ installed' = installed
        /\ workers' \union retiring' \subseteq workers \union retiring
    BY <2>1 DEF Retire, CloseTerminates
  <2>3. CASE v # w
    BY <1>1, <2>2, <2>3, TerminatedElsewhere, PreparedElsewhere
  <2>4. CASE v = w
    <3>1. \/ w \notin workers' \union retiring'
          \/ w \in workers /\ busy[w] = NoJob
      <4>1. CASE Retire(w)
        BY <4>1 DEF Retire, IInv, Bookkeeping, NumbersAgree
      <4>2. CASE CloseTerminates(w)
        BY <4>2, BusyFacts
        DEF CloseTerminates, IInv, Bookkeeping, NumbersAgree
      <4> QED BY <2>1, <4>1, <4>2
    <3> QED BY <1>1, <2>2, <2>4, <3>1, TerminatedPreparation
  <2> QED BY <2>3, <2>4
<1> QED BY <1>2, <1>3, <1>4, <1>5, <1>6 DEF Host

(* Receiving a request leaves the rest of the preparation ahead of its run.*)
LEMMA ReceivedPreparation ==
  ASSUME IInv, NEW w \in Workers, Conversation(w), Preparation(w),
         inbox[w] # <<>>, Consume(w), NEW h, h = Head(inbox[w])
  PROVE  /\ InstallsAgree(w)'
         /\ \A kind, x : Due(w, kind, x) <=>
              Due(w, kind, x)' \/ (h.kind = kind /\ h.program = x)
         /\ h.kind \in {"install", "uninstall", "run"} =>
              \A x : ~Due(w, h.kind, x)'
         /\ h.kind = "run" =>
              \A x : ~Due(w, "install", x) /\ ~Due(w, "uninstall", x)
<1>1. /\ 1 \in Mail(w) /\ h = inbox[w][1]
      /\ \A i \in Mail(w)' : /\ i + 1 \in Mail(w) /\ i + 1 # 1 /\ i \in Nat
                             /\ inbox'[w][i] = inbox[w][i + 1]
      /\ \A i \in Mail(w) : i # 1 =>
           i - 1 \in Mail(w)' /\ inbox'[w][i - 1] = inbox[w][i]
  BY ReceivedFacts DEF IInv
<1>2. \A i \in Mail(w) : i \in Nat /\ i >= 1 BY WireFacts DEF Mail, IInv
<1>3. \A i \in Mail(w) : inbox[w][i].kind \in {"install", "uninstall"} =>
        /\ \E k \in Mail(w) : k > i /\ inbox[w][k].kind = "run"
        /\ \A k \in Mail(w) : inbox[w][k].kind = inbox[w][i].kind => k = i
  BY DEF Preparation, InstallsAgree
<1>4. \A i \in Mail(w), k \in Mail(w) :
        inbox[w][i].kind = "run" /\ inbox[w][k].kind = "run" => k = i
  BY DEF Conversation, RequestsAgree
<1>5. InstallsAgree(w)'
  <2> SUFFICES ASSUME NEW i \in Mail(w)',
                      inbox'[w][i].kind \in {"install", "uninstall"}
               PROVE  /\ \E k \in Mail(w)' : k > i /\ inbox'[w][k].kind = "run"
                      /\ \A k \in Mail(w)' :
                           inbox'[w][k].kind = inbox'[w][i].kind => k = i
    BY DEF InstallsAgree
  <2>1. i + 1 \in Mail(w) /\ i \in Nat /\ inbox'[w][i] = inbox[w][i + 1]
    BY <1>1
  <2>2. PICK k \in Mail(w) : k > i + 1 /\ inbox[w][k].kind = "run"
    BY <1>3, <2>1
  <2>3. k - 1 \in Mail(w)' /\ k - 1 > i /\ inbox'[w][k - 1].kind = "run"
    BY <1>1, <1>2, <2>1, <2>2
  <2>4. ASSUME NEW l \in Mail(w)', inbox'[w][l].kind = inbox'[w][i].kind
        PROVE  l = i
    <3>1. l + 1 \in Mail(w) /\ l \in Nat /\ inbox'[w][l] = inbox[w][l + 1]
      BY <1>1
    <3>2. l + 1 = i + 1 BY <1>3, <2>1, <2>4, <3>1
    <3> QED BY <2>1, <3>1, <3>2
  <2> QED BY <2>3, <2>4
<1>6. ASSUME NEW kind, NEW x
      PROVE  Due(w, kind, x) <=>
               Due(w, kind, x)' \/ (h.kind = kind /\ h.program = x)
  <2>1. ASSUME NEW i \in Mail(w), inbox[w][i].kind = kind, inbox[w][i].program = x
        PROVE  Due(w, kind, x)' \/ (h.kind = kind /\ h.program = x)
    <3>1. CASE i = 1 BY <1>1, <2>1, <3>1
    <3>2. CASE i # 1
      <4>1. PICK k \in Mail(w)' : inbox'[w][k] = inbox[w][i] BY <1>1, <3>2
      <4> QED BY <2>1, <4>1 DEF Due
    <3> QED BY <3>1, <3>2
  <2>2. ASSUME NEW i \in Mail(w)', inbox'[w][i].kind = kind,
               inbox'[w][i].program = x
        PROVE  Due(w, kind, x)
    BY <1>1, <2>2 DEF Due
  <2>3. h.kind = kind /\ h.program = x => Due(w, kind, x) BY <1>1 DEF Due
  <2> QED BY <2>1, <2>2, <2>3 DEF Due
<1>7. ASSUME h.kind \in {"install", "uninstall", "run"},
             NEW i \in Mail(w)', inbox'[w][i].kind = h.kind
      PROVE  FALSE
  <2>1. i + 1 \in Mail(w) /\ i + 1 # 1 /\ inbox[w][i + 1].kind = h.kind
    BY <1>1, <1>7
  <2> QED BY <1>1, <1>3, <1>4, <1>7, <2>1
<1>8. ASSUME h.kind = "run", NEW i \in Mail(w),
             inbox[w][i].kind \in {"install", "uninstall"}
      PROVE  FALSE
  <2>1. PICK k \in Mail(w) : k > i /\ inbox[w][k].kind = "run" BY <1>3, <1>8
  <2>2. k = 1 BY <1>1, <1>4, <1>8, <2>1
  <2>3. i \in Nat /\ i >= 1 BY <1>2
  <2> QED BY ONLY <2>1, <2>2, <2>3
<1>9. h.kind \in {"install", "uninstall", "run"} => \A x : ~Due(w, h.kind, x)'
  BY <1>7 DEF Due
<1>10. h.kind = "run" => \A x : ~Due(w, "install", x) /\ ~Due(w, "uninstall", x)
  BY <1>8 DEF Due
<1> QED BY <1>5, <1>6, <1>9, <1>10

(* serveWorker accepts the next request: a program to install is absent, a *)
(* program to retire is there and nothing runs, and a run follows the end  *)
(* of the last one and the installation of its program.                    *)
LEMMA NextAccepted ==
  ASSUME IInv, NEW w \in Workers, Conversation(w), Preparation(w), remote[w].up,
         inbox[w] # <<>>
  PROVE  LET h == Head(inbox[w]) IN
         /\ Accepts(remote[w], h) /\ h \in Request
         /\ h.kind # "cancel" =>
              /\ w \in workers \union retiring /\ ProgramsAgree(w)
              /\ remote[w].running = NoJob /\ remote[w].phase = "none"
              /\ h.program \in Programs
              /\ Due(w, h.kind, h.program)
<1> DEFINE h == Head(inbox[w])
<1>1. 1 \in Mail(w) /\ h = inbox[w][1]
  BY WireFacts, TailFacts DEF IInv, Mail
<1>2. /\ h \in Request /\ h.kind \in {"install", "uninstall", "run", "cancel"}
      /\ h.kind # "cancel" => h.program \in Programs
  BY <1>1, WireFacts, RequestFacts DEF IInv
<1> HIDE DEF h
<1>3. ASSUME h.kind # "cancel"
      PROVE  /\ w \in workers \union retiring /\ ProgramsAgree(w)
             /\ remote[w].running = NoJob /\ remote[w].phase = "none"
             /\ h.program \in Programs /\ Due(w, h.kind, h.program)
  <2>1. \E i \in Mail(w) : inbox[w][i].kind = "run"
    BY <1>1, <1>2, <1>3 DEF Preparation, InstallsAgree
  <2>2. w \in workers \union retiring /\ remote[w].running = NoJob
    BY <2>1, RunFacts
  <2>3. remote[w].phase = "none" BY <2>2 DEF IInv, Bookkeeping, NumbersAgree
  <2>4. Due(w, h.kind, h.program) BY <1>1 DEF Due
  <2> QED BY <1>2, <1>3, <2>2, <2>3, <2>4 DEF Preparation
<1>4. CASE h.kind = "install"
  <2>1. /\ Linked(installed[w], h.program) /\ Due(w, "install", h.program)
        /\ ~Due(w, "uninstall", h.program)
    BY <1>3, <1>4 DEF ProgramsAgree
  <2>2. remote[w].programs[h.program] = "absent"
    BY <1>3, <1>4, <2>1 DEF ProgramsAgree
  <2> QED BY <1>2, <1>3, <1>4, <2>2 DEF Accepts, h
<1>5. CASE h.kind = "uninstall"
  <2>1. remote[w].programs[h.program] # "absent"
    BY <1>3, <1>5 DEF ProgramsAgree
  <2> QED BY <1>2, <1>3, <1>5, <2>1 DEF Accepts, h
<1>6. CASE h.kind = "run" BY <1>2, <1>3, <1>6 DEF Accepts, h
<1>7. CASE h.kind = "cancel" BY <1>2, <1>7 DEF Accepts, h
<1> QED BY <1>2, <1>4, <1>5, <1>6, <1>7

(* A request that is received leaves the programs of the worker as the     *)
(* host believes them to be.                                               *)
LEMMA RequestPreparation ==
  ASSUME IInv, NEW w \in Workers, Conversation(w), Preparation(w),
         \/ RemoteInstall(w) \/ RemoteUninstall(w)
         \/ RemoteCancel(w) \/ RemoteRun(w)
  PROVE  Preparation(w)'
<1>1. PICK h : h = Head(inbox[w]) OBVIOUS
<1>2. /\ remote[w].up /\ inbox[w] # <<>> /\ Consume(w) /\ HostUnchanged
  BY DEF RemoteInstall, RemoteUninstall, RemoteCancel, RemoteRun, Receives
<1>3. UNCHANGED <<installed, workers, retiring>>
  BY <1>2 DEF HostUnchanged
<1>4. /\ InstallsAgree(w)'
      /\ \A kind, x : Due(w, kind, x) <=>
           Due(w, kind, x)' \/ (h.kind = kind /\ h.program = x)
      /\ h.kind \in {"install", "uninstall", "run"} => \A x : ~Due(w, h.kind, x)'
      /\ h.kind = "run" =>
           \A x : ~Due(w, "install", x) /\ ~Due(w, "uninstall", x)
  BY <1>1, <1>2, ReceivedPreparation
<1>5. /\ Accepts(remote[w], h) /\ h \in Request
      /\ h.kind # "cancel" =>
           /\ w \in workers \union retiring /\ ProgramsAgree(w)
           /\ remote[w].running = NoJob /\ remote[w].phase = "none"
           /\ h.program \in Programs /\ Due(w, h.kind, h.program)
  BY <1>1, <1>2, NextAccepted
<1>6. Distinct(installed[w])' BY <1>3 DEF Preparation
<1>7. remote[w] \in Remote /\ remote \in [Workers -> Remote]
  BY DEF IInv, TypeOK
<1>8. CASE RemoteInstall(w)
  <2>1. h.kind = "install" /\ remote' = [remote EXCEPT ![w].programs[h.program] = "fresh"]
    BY <1>1, <1>5, <1>8 DEF RemoteInstall, Receives
  <2>2. /\ remote'[w].phase = "none"
        /\ \A x \in Programs : remote'[w].programs[x] =
             IF x = h.program THEN "fresh" ELSE remote[w].programs[x]
    BY <1>5, <1>7, <2>1 DEF Remote
  <2>3. RunInstalled(w)' BY <2>2 DEF RunInstalled
  <2>4. ProgramsAgree(w)'
    <3> SUFFICES ASSUME NEW x \in Programs
                 PROVE  /\ remote'[w].programs[x] # "absent" <=>
                             \/ Linked(installed'[w], x) /\ ~Due(w, "install", x)'
                             \/ Due(w, "uninstall", x)'
                        /\ Due(w, "install", x)' \/ Due(w, "run", x)' =>
                             Linked(installed'[w], x)
                        /\ Due(w, "uninstall", x)' => ~Linked(installed'[w], x)
      BY DEF ProgramsAgree
    <3>1. /\ remote[w].programs[x] # "absent" <=>
               \/ Linked(installed[w], x) /\ ~Due(w, "install", x)
               \/ Due(w, "uninstall", x)
          /\ Due(w, "install", x) \/ Due(w, "run", x) => Linked(installed[w], x)
          /\ Due(w, "uninstall", x) => ~Linked(installed[w], x)
      BY <1>5, <2>1 DEF ProgramsAgree
    <3>2. /\ ~Due(w, "install", x)' /\ (Due(w, "install", x) <=> h.program = x)
          /\ (Due(w, "uninstall", x) <=> Due(w, "uninstall", x)')
          /\ (Due(w, "run", x) <=> Due(w, "run", x)')
      BY <1>4, <2>1
    <3>3. installed'[w] = installed[w] BY <1>3
    <3> QED BY <2>2, <3>1, <3>2, <3>3
  <2> QED BY <1>4, <1>6, <2>3, <2>4 DEF Preparation
<1>9. CASE RemoteUninstall(w)
  <2>1. h.kind = "uninstall" BY <1>1, <1>9 DEF RemoteUninstall, Receives
  <2>2. /\ remote'[w].phase = remote[w].phase
        /\ \A x \in Programs : remote'[w].programs[x] =
             IF x = h.program THEN "absent" ELSE remote[w].programs[x]
    BY <1>1, <1>5, <1>7, <1>9, <2>1 DEF RemoteUninstall, Remote
  <2>3. RunInstalled(w)' BY <1>5, <2>1, <2>2 DEF RunInstalled
  <2>4. ProgramsAgree(w)'
    <3> SUFFICES ASSUME NEW x \in Programs
                 PROVE  /\ remote'[w].programs[x] # "absent" <=>
                             \/ Linked(installed'[w], x) /\ ~Due(w, "install", x)'
                             \/ Due(w, "uninstall", x)'
                        /\ Due(w, "install", x)' \/ Due(w, "run", x)' =>
                             Linked(installed'[w], x)
                        /\ Due(w, "uninstall", x)' => ~Linked(installed'[w], x)
      BY DEF ProgramsAgree
    <3>1. /\ remote[w].programs[x] # "absent" <=>
               \/ Linked(installed[w], x) /\ ~Due(w, "install", x)
               \/ Due(w, "uninstall", x)
          /\ Due(w, "install", x) \/ Due(w, "run", x) => Linked(installed[w], x)
          /\ Due(w, "uninstall", x) => ~Linked(installed[w], x)
      BY <1>5, <2>1 DEF ProgramsAgree
    <3>2. /\ ~Due(w, "uninstall", x)' /\ (Due(w, "uninstall", x) <=> h.program = x)
          /\ (Due(w, "install", x) <=> Due(w, "install", x)')
          /\ (Due(w, "run", x) <=> Due(w, "run", x)')
      BY <1>4, <2>1
    <3>3. installed'[w] = installed[w] BY <1>3
    <3> QED BY <2>2, <3>1, <3>2, <3>3
  <2> QED BY <1>4, <1>6, <2>3, <2>4 DEF Preparation
<1>10. CASE RemoteRun(w)
  <2>1. /\ h.kind = "run"
        /\ remote' = [remote EXCEPT ![w].running = h.job, ![w].program = h.program,
                                    ![w].phase = "waiting", ![w].aborted = FALSE]
    BY <1>1, <1>5, <1>10 DEF RemoteRun, Receives
  <2>2. remote'[w].program = h.program /\ remote'[w].programs = remote[w].programs
    BY <1>7, <2>1 DEF Remote
  <2>3. \A x : /\ ~Due(w, "install", x) /\ ~Due(w, "uninstall", x)
               /\ (Due(w, "install", x) <=> Due(w, "install", x)')
               /\ (Due(w, "uninstall", x) <=> Due(w, "uninstall", x)')
               /\ (Due(w, "run", x)' => Due(w, "run", x))
    BY <1>4, <2>1
  <2>4. RunInstalled(w)'
    BY <1>5, <2>1, <2>2, <2>3 DEF RunInstalled, ProgramsAgree
  <2>5. ProgramsAgree(w)' BY <1>3, <1>5, <2>1, <2>2, <2>3 DEF ProgramsAgree
  <2> QED BY <1>4, <1>6, <2>4, <2>5 DEF Preparation
<1>11. CASE RemoteCancel(w)
  <2>1. h.kind = "cancel" BY <1>1, <1>11 DEF RemoteCancel, Receives
  <2>2. /\ remote'[w].program = remote[w].program /\ remote'[w].up = remote[w].up
        /\ remote'[w].programs = remote[w].programs
        /\ remote'[w].phase = remote[w].phase
    BY <1>7, <1>11 DEF RemoteCancel, Remote
  <2>3. \A kind \in {"install", "uninstall", "run"} : \A x :
          Due(w, kind, x) <=> Due(w, kind, x)'
    BY <1>4, <2>1
  <2>4. RunInstalled(w)' BY <2>2 DEF Preparation, RunInstalled
  <2>5. (remote[w].up /\ w \in workers \union retiring => ProgramsAgree(w))'
    BY <1>3, <2>2, <2>3 DEF Preparation, ProgramsAgree
  <2> QED BY <1>4, <1>6, <2>4, <2>5 DEF Preparation
<1> QED BY <1>8, <1>9, <1>10, <1>11

(* Every step of serveWorker keeps what is prepared: a run changes the     *)
(* state of its program, which stays installed.                            *)
LEMMA WorkerPreparations ==
  ASSUME IInv, Conversations, Preparations, NEW w \in Workers, Worker(w),
         NEW v \in Workers
  PROVE  Preparation(v)'
<1>1. /\ Conversation(v) /\ Preparation(v) /\ Conversation(w) /\ Preparation(w)
  BY DEF Conversations, Preparations
<1>2. /\ UNCHANGED <<installed, workers, retiring>>
      /\ \A u \in Workers : u # w =>
           inbox'[u] = inbox[u] /\ remote'[u] = remote[u]
  BY DEF Worker, RemoteInstall, RemoteUninstall, RemoteCancel, RemoteRun,
         RemoteStarts, RemoteRefuses, RemoteStartFails, RemoteReturns,
         RemoteFails, RemoteCrashes, Respond, Consume, Dies, wireVars,
         HostUnchanged, IInv, TypeOK
<1>3. CASE v # w BY <1>1, <1>2, <1>3, PreparedElsewhere
<1>4. CASE /\ v = w
           /\ \/ RemoteInstall(w) \/ RemoteUninstall(w)
              \/ RemoteCancel(w) \/ RemoteRun(w)
  BY <1>1, <1>4, RequestPreparation
<1>5. CASE v = w /\ RemoteCrashes(w)
  <2>1. ~remote'[w].up /\ remote'[w].phase = "none" /\ inbox' = inbox
    BY <1>5 DEF RemoteCrashes, Dies, NoRemote, FreshRemote, IInv, TypeOK, wireVars
  <2>2. InstallsAgree(w)' BY <1>1, <2>1 DEF Preparation, InstallsAgree, Mail
  <2>3. RunInstalled(w)' BY <2>1 DEF RunInstalled
  <2> QED BY <1>1, <1>2, <1>5, <2>1, <2>2, <2>3 DEF Preparation
<1>6. CASE /\ v = w
           /\ \/ RemoteStarts(w) \/ RemoteRefuses(w) \/ RemoteStartFails(w)
              \/ RemoteReturns(w) \/ RemoteFails(w)
  <2>1. remote[w].phase # "none" /\ inbox' = inbox
    BY <1>6 DEF RemoteStarts, RemoteRefuses, RemoteStartFails, RemoteReturns,
                RemoteFails
  <2>2. PICK p \in Programs :
          p = remote[w].program /\ remote[w].programs[p] # "absent"
    BY <1>1, <2>1 DEF Preparation, RunInstalled
  <2>3. remote[w] \in Remote /\ remote \in [Workers -> Remote]
    BY DEF IInv, TypeOK
  <2>4. PICK state :
          /\ state # "absent"
          /\ \/ remote' = [remote EXCEPT ![w].programs[p] = state,
                                         ![w].phase = "executing"]
             \/ remote' = [remote EXCEPT ![w].programs[p] = state,
                                         ![w].running = NoJob,
                                         ![w].program = NoJob,
                                         ![w].phase = "none",
                                         ![w].aborted = FALSE]
    BY <1>6, <2>2
    DEF RemoteStarts, RemoteRefuses, RemoteStartFails, RemoteReturns,
        RemoteFails, Respond
  <2>5. /\ remote'[w].up = remote[w].up
        /\ \A x \in Programs : remote'[w].programs[x] =
             IF x = p THEN state ELSE remote[w].programs[x]
        /\ \/ remote'[w].phase = "none"
           \/ remote'[w].program = p
    BY <2>2, <2>3, <2>4 DEF Remote
  <2>6. Mail(w)' = Mail(w) /\ inbox'[w] = inbox[w] BY <2>1 DEF Mail
  <2>7. InstallsAgree(w)' BY <1>1, <2>6 DEF Preparation, InstallsAgree
  <2>8. RunInstalled(w)' BY <2>4, <2>5 DEF RunInstalled
  <2>9. \A kind, x : Due(w, kind, x)' <=> Due(w, kind, x) BY <2>6 DEF Due
  <2>10. \A x \in Programs :
           remote'[w].programs[x] # "absent" <=> remote[w].programs[x] # "absent"
    BY <2>2, <2>4, <2>5
  <2>11. (remote[w].up /\ w \in workers \union retiring => ProgramsAgree(w))'
    BY <1>1, <1>2, <2>5, <2>9, <2>10 DEF Preparation, ProgramsAgree
  <2> QED BY <1>1, <1>2, <1>6, <2>7, <2>8, <2>11 DEF Preparation
<1> QED BY <1>3, <1>4, <1>5, <1>6 DEF Worker

-----------------------------------------------------------------------------
(* The two layers hold in every reachable state.                           *)

(* Before the first job no worker has a program.                           *)
LEMMA InitPreparations == Init => Preparations
<1> SUFFICES ASSUME Init, NEW w \in Workers PROVE Preparation(w)
  BY DEF Preparations
<1>1. NoRemote.phase = "none" /\ ~NoRemote.up BY DEF NoRemote, FreshRemote
<1>2. inbox[w] = <<>> /\ installed[w] = <<>> /\ remote[w] = NoRemote
  BY DEF Init
<1>3. Distinct(installed[w]) BY <1>2 DEF Distinct
<1> QED BY <1>1, <1>2, <1>3 DEF Preparation, InstallsAgree, RunInstalled, Mail

(* Every step keeps what is prepared.                                      *)
LEMMA NextPreparations ==
  ASSUME IInv, Conversations, Preparations, [Next]_vars
  PROVE  Preparations'
<1> SUFFICES ASSUME NEW v \in Workers PROVE Preparation(v)'
  BY DEF Preparations
<1>1. CASE Host BY <1>1, HostPreparations
<1>2. CASE \E w \in Workers : Worker(w) BY <1>2, WorkerPreparations
<1>3. CASE UNCHANGED vars
  <2>1. UNCHANGED <<inbox, remote, installed, workers, retiring>>
    BY <1>3 DEF vars, wireVars
  <2>2. Preparation(v) BY DEF Preparations
  <2> QED BY <2>1, <2>2, PreparedElsewhere
<1> QED BY <1>1, <1>2, <1>3 DEF Next

(***************************************************************************)
(* Queues, slots, connections and program caches of worker_executor.ts and *)
(* worker_runtime.ts agree in every reachable state.                       *)
(***************************************************************************)
THEOREM ProtocolInvariant == Spec => [](IInv /\ Conversations /\ Preparations)
<1>1. Init => IInv /\ Conversations /\ Preparations
  BY InitIInv, InitConversations, InitPreparations
<1>2. IInv /\ Conversations /\ Preparations /\ [Next]_vars =>
        (IInv /\ Conversations /\ Preparations)'
  BY NextIInv, NextConversations, NextPreparations
<1> QED BY <1>1, <1>2, PTL DEF Spec

-----------------------------------------------------------------------------
(* What follows for the pool and its workers.                              *)

(***************************************************************************)
(* Neither onMessage of #startWorker nor serveWorker ever meets a message  *)
(* that its checks reject, for every pool size, cache size and number of   *)
(* faults: a healthy worker is never lost over the protocol.               *)
(***************************************************************************)
THEOREM MessagesAccepted == Spec => []ProtocolHolds
<1>1. IInv /\ Conversations /\ Preparations => ProtocolHolds
  <2> SUFFICES ASSUME IInv, Conversations, Preparations, NEW w \in Workers
               PROVE  /\ remote[w].up =>
                           /\ inbox[w] # <<>> => Accepts(remote[w], Head(inbox[w]))
                           /\ remote[w].phase = "waiting" =>
                                remote[w].programs[remote[w].program] # "absent"
                      /\ Attached(w) /\ outbox[w] # <<>> =>
                           ~Rejects(w, Head(outbox[w]))
    BY DEF ProtocolHolds, WorkerAccepts, HostAccepts
  <2>1. Conversation(w) /\ Preparation(w) BY DEF Conversations, Preparations
  <2>2. remote[w].up /\ inbox[w] # <<>> => Accepts(remote[w], Head(inbox[w]))
    BY <2>1, NextAccepted
  <2>3. remote[w].phase = "waiting" =>
          remote[w].programs[remote[w].program] # "absent"
    BY <2>1 DEF Preparation, RunInstalled
  <2>4. Attached(w) /\ outbox[w] # <<>> => ~Rejects(w, Head(outbox[w]))
    BY <2>1, NeverRejected DEF Attached
  <2> QED BY <2>2, <2>3, <2>4
<1> QED BY <1>1, ProtocolInvariant, PTL

(***************************************************************************)
(* #finish settles a job only when no worker runs it any more, unless a    *)
(* terminate() was rejected and the pool recorded that.                    *)
(***************************************************************************)
THEOREM SettledAfterWork == Spec => []NoWorkAfterSettling
<1>1. IInv /\ Conversations => NoWorkAfterSettling
  <2> SUFFICES ASSUME IInv, Conversations, NEW w \in Workers,
                      remote[w].running # NoJob
               PROVE  remote[w].running \in Pending \/ cleanupFailed
    BY DEF NoWorkAfterSettling
  <2>1. remote[w].running = busy[w] \/ Abandoned(w)
    BY DEF Conversations, Conversation, RunAgrees
  <2> QED BY <2>1, BusyFacts DEF Abandoned
<1> QED BY <1>1, ProtocolInvariant, PTL

-----------------------------------------------------------------------------
(* A job is given once, begun once and settled once.                       *)

(* #finish keeps the worker of the one job that it settles.                *)
LEMMA FinishKeeps ==
  ASSUME TypeOK, NEW k \in Pending, NEW outcome \in Settled, Finish(k, outcome),
         NEW j \in JobIds
  PROVE  /\ job'[j].worker = job[j].worker
         /\ job[j].status \in Settled => job'[j] = job[j]
<1>1. job' = [job EXCEPT ![k] = Ended(k, outcome)] BY DEF Finish
<1>2. /\ \A i \in JobIds : i # k => job'[i] = job[i]
      /\ job'[k].worker = job[k].worker
  BY <1>1, EndedFacts
<1>3. job[k].status \notin Settled BY DEF Pending, Settled
<1> QED BY <1>2, <1>3

(* A job keeps its worker, and a settled job its record.                   *)
LEMMA RecordsKept ==
  ASSUME IInv, Conversations, [Next]_vars, NEW j \in JobIds
  PROVE  /\ job[j].worker # NoWorker => job'[j].worker = job[j].worker
         /\ job[j].status \in Settled => job'[j] = job[j]
<1> USE DEF IInv
<1> DEFINE Kept == /\ job[j].worker # NoWorker => job'[j].worker = job[j].worker
                   /\ job[j].status \in Settled => job'[j] = job[j]
<1>1. \A k \in Pending : k \in JobIds /\ job[k].status \notin Settled
  BY DEF Pending, Settled
<1>2. CASE job' = job BY <1>2
<1>3. ASSUME NEW c \in Callbacks, NEW p \in Priority, Execute(c, p) PROVE Kept
  <2>1. PICK r : job' = [job EXCEPT ![nextJob] = r] BY <1>3 DEF Execute
  <2>2. nextJob \in JobIds
    BY <1>3, BoundAssumption DEF Execute, TypeOK, JobIds
  <2>3. job[nextJob].status = "unsubmitted"
    BY <2>2 DEF TypeOK, Bookkeeping, NumbersAgree
  <2>4. job[nextJob].worker = NoWorker /\ job[nextJob].status \notin Settled
    BY <2>2, <2>3 DEF Conversations, JobsAgree, Settled
  <2> QED BY <2>1, <2>4 DEF TypeOK
<1>4. ASSUME NEW c \in Callbacks, Promote(c) PROVE Kept
  <2>1. PICK k \in Pending : job' = [job EXCEPT ![k].priority = "required"]
    BY <1>4 DEF Promote
  <2>2. job[k] \in Job /\ job \in [JobIds -> Job] BY <1>1 DEF TypeOK
  <2>3. /\ \A i \in JobIds : i # k => job'[i] = job[i]
        /\ job'[k].worker = job[k].worker
    BY <1>1, <2>1, <2>2 DEF Job
  <2> QED BY <1>1, <2>3
<1>5. ASSUME NEW k \in JobIds, AbortRunning(k) PROVE Kept
  <2>1. k \in Pending /\ job' = [job EXCEPT ![k].aborted = TRUE]
    BY <1>5 DEF AbortRunning
  <2>2. job[k] \in Job /\ job \in [JobIds -> Job] BY DEF TypeOK
  <2>3. /\ \A i \in JobIds : i # k => job'[i] = job[i]
        /\ job'[k].worker = job[k].worker
    BY <2>1, <2>2 DEF Job
  <2> QED BY <1>1, <2>1, <2>3
<1>6. ASSUME NEW k \in JobIds, AbortQueued(k) \/ StartFails(k) PROVE Kept
  <2>1. k \in Pending /\ Finish(k, "error")
    BY <1>6, CandidateWaits DEF AbortQueued, StartFails
  <2> QED BY <2>1, FinishKeeps DEF Settled
<1>7. ASSUME NEW k \in JobIds, NEW w \in Workers, Place(k, w) \/ PlaceFails(k, w)
      PROVE  Kept
  <2>1. k \in Pending /\ job[k].worker = NoWorker
        /\ \A i \in JobIds : i # k => job'[i] = job[i]
    BY <1>7, CandidateWaits, AssignedFacts DEF Place, PlaceFails
  <2> QED BY <1>1, <2>1
<1>8. ASSUME NEW w \in Workers, OnMessage(w) PROVE Kept
  <2>1. PICK m : m = Head(outbox[w]) OBVIOUS
  <2>2. Conversation(w) /\ w \in workers /\ outbox[w] # <<>>
    BY <1>8 DEF Conversations, OnMessage, Attached
  <2>3. ~Rejects(w, m) /\ m.job = busy[w] /\ busy[w] \in JobIds
    BY <2>1, <2>2, NeverRejected
  <2>4. m.job \in Pending BY <2>3, BusyFacts
  <2>5. CASE m.kind = "started"
    <3>1. job' = [job EXCEPT ![m.job].started = TRUE]
      BY <1>8, <2>1, <2>3, <2>5 DEF OnMessage
    <3>2. job[m.job] \in Job /\ job \in [JobIds -> Job] BY <2>3 DEF TypeOK
    <3>3. /\ \A i \in JobIds : i # m.job => job'[i] = job[i]
          /\ job'[m.job].worker = job[m.job].worker
      BY <2>3, <3>1, <3>2 DEF Job
    <3> QED BY <1>1, <2>4, <3>3
  <2>6. CASE m.kind # "started"
    <3>1. PICK outcome \in Settled : Finish(m.job, outcome)
      BY <1>8, <2>1, <2>3, <2>6 DEF OnMessage, Settled
    <3> QED BY <2>4, <3>1, FinishKeeps
  <2> QED BY <2>5, <2>6
<1>9. ASSUME NEW w \in Workers, Retire(w) PROVE Kept
  <2>1. CASE busy[w] = NoJob BY <1>9, <2>1 DEF Retire
  <2>2. CASE busy[w] # NoJob
    <3>1. busy[w] \in Pending /\ Finish(busy[w], "error")
      BY <1>9, <2>2, BusyFacts DEF Retire
    <3> QED BY <3>1, FinishKeeps DEF Settled
  <2> QED BY <2>1, <2>2
<1>10. ASSUME Close PROVE Kept
  <2>1. job'[j] = IF j \notin Pending THEN job[j]
                  ELSE IF job[j].worker = NoWorker THEN Ended(j, "error")
                       ELSE [job[j] EXCEPT !.aborted = TRUE]
    BY <1>10 DEF Close
  <2>2. job[j] \in Job BY DEF TypeOK
  <2> QED BY <1>1, <2>1, <2>2 DEF Job
<1>11. ASSUME \/ DispatchReturns \/ CloseDrained \/ Closed
              \/ \E w \in Workers : OnError(w) \/ CloseTerminates(w) \/ Worker(w)
              \/ UNCHANGED vars
       PROVE  job' = job
  BY <1>11 DEF DispatchReturns, CloseDrained, Closed, OnError, CloseTerminates,
               Worker, RemoteInstall, RemoteUninstall, RemoteCancel, RemoteRun,
               RemoteStarts, RemoteRefuses, RemoteStartFails, RemoteReturns,
               RemoteFails, RemoteCrashes, HostUnchanged, vars
<1> HIDE DEF Kept
<1>12. Kept
  BY <1>3, <1>4, <1>5, <1>6, <1>7, <1>8, <1>9, <1>10, <1>11, <1>2
  DEF Next, Host, Kept
<1> QED BY <1>12 DEF Kept

(* A worker begins a job only on the run request for it, which the host    *)
(* posts once and to the worker of the job.                                *)
LEMMA BegunOnce ==
  ASSUME IInv, Conversations, [Next]_vars, NEW j \in JobIds, NEW w \in Workers,
         remote[w].running # j, remote'[w].running = j
  PROVE  /\ job[j].worker = w /\ ~job[j].started
         /\ \A i \in 1..Len(outbox[w]) : outbox[w][i].job # j
<1>1. NoRemote.running = NoJob /\ FreshRemote.running = NoJob /\ j # NoJob
  BY NoneAssumption DEF NoRemote, FreshRemote, JobIds
<1>2. remote \in [Workers -> Remote] /\ remote[w] \in Remote
  BY DEF IInv, TypeOK
<1>3. CASE Host
  <2>1. \E v \in Workers :
          remote' \in {remote, [remote EXCEPT ![v] = FreshRemote],
                       [remote EXCEPT ![v] = NoRemote]}
    BY <1>3 DEF Host, Execute, Promote, AbortQueued, AbortRunning, Place,
                PlaceFails, StartFails, DispatchReturns, OnMessage, OnError,
                Retire, Terminate, Close, CloseDrained, CloseTerminates, Closed
  <2> QED BY <1>1, <1>2, <2>1
<1>4. CASE UNCHANGED vars BY <1>4 DEF vars
<1>5. ASSUME NEW v \in Workers, Worker(v)
      PROVE  v = w /\ RemoteRun(w) /\ Accepts(remote[w], Head(inbox[w]))
  <2>1. CASE RemoteRun(v)
    BY <1>1, <1>2, <2>1 DEF RemoteRun, Dies
  <2>2. ASSUME ~RemoteRun(v)
        PROVE  remote'[w].running \in {NoJob, remote[w].running}
    <3>1. CASE \/ RemoteInstall(v) \/ RemoteUninstall(v)
               \/ RemoteCancel(v) \/ RemoteCrashes(v) \/ RemoteStarts(v)
      <4>1. CASE RemoteInstall(v)
        BY <1>1, <1>2, <4>1 DEF RemoteInstall, Dies, Remote
      <4>2. CASE RemoteUninstall(v)
        BY <1>1, <1>2, <4>2 DEF RemoteUninstall, Dies, Remote
      <4>3. CASE RemoteCancel(v) BY <1>2, <4>3 DEF RemoteCancel, Remote
      <4>4. CASE RemoteCrashes(v) BY <1>1, <1>2, <4>4 DEF RemoteCrashes, Dies
      <4>5. CASE RemoteStarts(v) BY <1>2, <4>5 DEF RemoteStarts, Remote
      <4> QED BY <3>1, <4>1, <4>2, <4>3, <4>4, <4>5
    <3>2. CASE \/ RemoteRefuses(v) \/ RemoteStartFails(v)
               \/ RemoteReturns(v) \/ RemoteFails(v)
      <4>1. PICK kind, state : Respond(v, kind, state)
        BY <3>2 DEF RemoteRefuses, RemoteStartFails, RemoteReturns, RemoteFails
      <4> QED BY <1>2, <4>1 DEF Respond, Remote
    <3> QED BY <1>5, <2>2, <3>1, <3>2 DEF Worker
  <2> QED BY <1>1, <2>1, <2>2
<1>6. ASSUME RemoteRun(w), Accepts(remote[w], Head(inbox[w]))
      PROVE  /\ job[j].worker = w /\ ~job[j].started
             /\ \A i \in 1..Len(outbox[w]) : outbox[w][i].job # j
  <2>1. PICK h : h = Head(inbox[w]) OBVIOUS
  <2>2. /\ h.kind = "run" /\ inbox[w] # <<>>
        /\ remote' = [remote EXCEPT ![w].running = h.job,
                                    ![w].program = h.program,
                                    ![w].phase = "waiting", ![w].aborted = FALSE]
    BY <1>6, <2>1 DEF RemoteRun, Receives
  <2>3. h.job = j BY <1>2, <2>2 DEF Remote
  <2>4. 1 \in Mail(w) /\ h = inbox[w][1]
    BY <2>1, <2>2, WireFacts, TailFacts DEF IInv, Mail
  <2>5. h.job = busy[w] /\ NotBegun(w)
    BY <2>2, <2>4 DEF Conversations, Conversation, RequestsAgree
  <2> QED BY <1>1, <2>3, <2>5, BusyFacts DEF NotBegun, Replies
<1> QED BY <1>3, <1>4, <1>5, <1>6 DEF Next

(***************************************************************************)
(* At most once: a job of the pool keeps its worker and its outcome, and   *)
(* only the worker it was given begins it, once, whatever is lost, retried *)
(* or cancelled meanwhile.                                                 *)
(***************************************************************************)
THEOREM JobsRunAtMostOnce == Spec => AtMostOnce
<1>1. IInv /\ Conversations /\ [Next]_vars =>
        \A j \in JobIds :
          /\ job[j].worker # NoWorker => job'[j].worker = job[j].worker
          /\ job[j].status \in Settled => job'[j] = job[j]
          /\ \A w \in Workers :
               remote[w].running # j /\ remote'[w].running = j =>
                 /\ job[j].worker = w /\ ~job[j].started
                 /\ \A i \in 1..Len(outbox[w]) : outbox[w][i].job # j
  BY RecordsKept, BegunOnce
<1> QED BY <1>1, ProtocolInvariant, PTL DEF Spec, AtMostOnce
=============================================================================
