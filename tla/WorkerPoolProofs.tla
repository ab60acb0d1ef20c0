-------------------------- MODULE WorkerPoolProofs --------------------------
(***************************************************************************)
(* Proofs about WorkerPool for every pool size, number of jobs and number  *)
(* of faults.                                                              *)
(***************************************************************************)
EXTENDS WorkerPool, QueueProofs, FiniteSetTheorems

\* The inductive invariant: types, and the agreement of queues and slots.
IInv == TypeOK /\ Bookkeeping

(* Faults stay within their budget.                                        *)
LEMMA FaultType ==
  ASSUME TypeOK, Fault
  PROVE  faults' \in 0..MaxFaults
<1>1. faults \in 0..MaxFaults /\ faults < MaxFaults /\ faults' = faults + 1
  BY DEF TypeOK, Fault
<1> QED BY <1>1, BoundAssumption

(* Posting to one connection keeps the types of all of them.               *)
LEMMA PostType ==
  ASSUME NEW S, NEW wire \in [Workers -> Seq(S)], NEW w \in Workers,
         NEW msgs \in Seq(S)
  PROVE  [wire EXCEPT ![w] = wire[w] \o msgs] \in [Workers -> Seq(S)]
<1>1. wire[w] \o msgs \in Seq(S) OBVIOUS
<1> QED BY <1>1

(* Posting one message does.                                               *)
LEMMA PostOneType ==
  ASSUME NEW S, NEW wire \in [Workers -> Seq(S)], NEW w \in Workers, NEW m \in S
  PROVE  [wire EXCEPT ![w] = Append(wire[w], m)] \in [Workers -> Seq(S)]
<1>1. Append(wire[w], m) \in Seq(S) OBVIOUS
<1> QED BY <1>1

(* Receiving from one connection does, too.                                *)
LEMMA ReceiveType ==
  ASSUME NEW S, NEW wire \in [Workers -> Seq(S)], NEW w \in Workers,
         wire[w] # <<>>
  PROVE  /\ Head(wire[w]) \in S
         /\ [wire EXCEPT ![w] = Tail(wire[w])] \in [Workers -> Seq(S)]
<1>1. Head(wire[w]) \in S /\ Tail(wire[w]) \in Seq(S) OBVIOUS
<1> QED BY <1>1

-----------------------------------------------------------------------------
(* What the private methods do to the bookkeeping.                         *)

(* A job that ends leaves #pending and its record, and no other, changes.  *)
LEMMA EndedFacts ==
  ASSUME TypeOK, NEW j \in Pending, NEW outcome \in Settled,
         job' = [job EXCEPT ![j] = Ended(j, outcome)]
  PROVE  /\ job' \in [JobIds -> Job]
         /\ \A k \in JobIds : k # j => job'[k] = job[k]
         /\ job'[j].worker = job[j].worker /\ job'[j].status = outcome
         /\ Pending' = Pending \ {j}
<1>1. j \in JobIds /\ job[j] \in Job BY DEF Pending, TypeOK
<1>2. Ended(j, outcome) \in Job
  BY <1>1 DEF Ended, Unsubmitted, Job, Priority, Settled
<1>3. /\ Ended(j, outcome).worker = job[j].worker
      /\ Ended(j, outcome).status = outcome
  BY DEF Ended, Unsubmitted
<1>4. job' \in [JobIds -> Job] BY <1>2 DEF TypeOK
<1>5. \A k \in JobIds : k # j => job'[k] = job[k] BY DEF TypeOK
<1>6. job'[j] = Ended(j, outcome) BY <1>1 DEF TypeOK
<1>7. outcome # "pending" BY DEF Settled
<1> QED BY <1>1, <1>3, <1>4, <1>5, <1>6, <1>7 DEF Pending

(* #finish of a pending job keeps queues, slots and idle workers in        *)
(* agreement.                                                              *)
LEMMA FinishFacts ==
  ASSUME TypeOK, QueuesAgree, SlotsAgree, IdleAgrees,
         NEW j \in Pending, NEW outcome \in Settled,
         Finish(j, outcome), workers' = workers
  PROVE  /\ job' \in [JobIds -> Job]
         /\ required' \in Seq(JobIds) /\ speculative' \in Seq(JobIds)
         /\ busy' \in [Workers -> JobIds \union {NoJob}]
         /\ idle' \in Seq(Workers) /\ activeSpeculative' \in Int
         /\ Pending' = Pending \ {j}
         /\ \A k \in JobIds : k # j => job'[k] = job[k]
         /\ job'[j].status = outcome /\ job'[j].worker = job[j].worker
         /\ \A w \in Workers : w # job[j].worker => busy'[w] = busy[w]
         /\ job[j].worker # NoWorker => busy'[job[j].worker] = NoJob
         /\ QueuesAgree' /\ IdleAgrees'
<1> DEFINE w == job[j].worker
<1>1. j \in JobIds /\ w \in Workers \union {NoWorker}
  BY DEF Pending, TypeOK, Job
<1>2. /\ job' \in [JobIds -> Job]
      /\ \A k \in JobIds : k # j => job'[k] = job[k]
      /\ job'[j].worker = w /\ job'[j].status = outcome
      /\ Pending' = Pending \ {j}
  BY EndedFacts DEF Finish
<1>3. NoWorker \notin Workers BY NoneAssumption DEF Workers
<1>4. /\ busy' \in [Workers -> JobIds \union {NoJob}]
      /\ \A v \in Workers : v # w => busy'[v] = busy[v]
      /\ w # NoWorker => busy'[w] = NoJob
  BY <1>1, <1>3 DEF Finish, TypeOK
<1>5. required' \in Seq(JobIds) /\ speculative' \in Seq(JobIds)
  BY UnlinkType DEF Finish, TypeOK
<1>6. activeSpeculative' \in Int BY DEF Finish, TypeOK
<1>7. QueuesAgree'
  <2>1. Distinct(required') /\ Distinct(speculative')
    BY UnlinkDistinct DEF Finish, TypeOK, QueuesAgree
  <2>2. ASSUME NEW k \in JobIds
        PROVE  /\ Linked(required', k) <=> Linked(required, k) /\ k # j
               /\ Linked(speculative', k) <=> Linked(speculative, k) /\ k # j
    BY UnlinkLinked DEF Finish, TypeOK, QueuesAgree
  <2>3. ASSUME NEW k \in JobIds
        PROVE  /\ Waiting(k)' <=> Waiting(k) /\ k # j
               /\ k # j => job'[k].priority = job[k].priority
    BY <1>2 DEF Waiting
  <2> QED BY <2>1, <2>2, <2>3 DEF QueuesAgree
<1>8. idle' \in Seq(Workers) /\ IdleAgrees'
  <2>1. CASE w = NoWorker
    <3>1. idle' = idle /\ busy' = busy BY <2>1 DEF Finish
    <3> QED BY <3>1 DEF IdleAgrees, TypeOK
  <2>2. CASE w # NoWorker /\ w \notin workers
    <3>1. idle' = idle BY <2>2 DEF Finish, Freed
    <3>2. \A v \in Workers : v \in workers => busy'[v] = busy[v]
      BY <1>4, <2>2
    <3> QED BY <3>1, <3>2 DEF IdleAgrees, TypeOK
  <2>3. CASE w # NoWorker /\ w \in workers
    <3>1. w \in Workers /\ busy[w] = j BY <1>1, <2>3 DEF SlotsAgree
    <3>2. idle' = Push(idle, w) BY <2>3 DEF Finish, Freed
    <3>3. j # NoJob BY <1>1, NoneAssumption DEF JobIds
    <3>4. ~Linked(idle, w) BY <3>1, <3>3 DEF IdleAgrees
    <3>5. idle' \in Seq(Workers) BY <3>1, <3>2, PushType DEF TypeOK
    <3>6. Distinct(idle')
      BY <3>1, <3>2, <3>4, PushDistinct DEF TypeOK, IdleAgrees
    <3>7. \A v \in Workers : Linked(idle', v) <=> Linked(idle, v) \/ v = w
      BY <3>1, <3>2, PushLinked DEF TypeOK
    <3>8. \A v \in Workers : Linked(idle', v) <=> v \in workers' /\ busy'[v] = NoJob
      BY <3>7, <1>4, <2>3, <3>1 DEF IdleAgrees
    <3> QED BY <3>5, <3>6, <3>8 DEF IdleAgrees
  <2> QED BY <2>1, <2>2, <2>3
<1> QED BY <1>2, <1>4, <1>5, <1>6, <1>7, <1>8

(* #lose takes a worker out of the pool and out of the idle queue, and     *)
(* keeps its slot for the retirement.                                      *)
LEMMA LoseFacts ==
  ASSUME TypeOK, SlotsAgree, IdleAgrees, NumbersAgree, NEW w \in Workers,
         Lose(w), UNCHANGED <<job, busy, nextJob, workersStarted, closing, remote>>
  PROVE  /\ workers' \subseteq Workers /\ retiring' \subseteq Workers
         /\ idle' \in Seq(Workers) /\ dispatching' \in BOOLEAN
         /\ SlotsAgree' /\ IdleAgrees' /\ NumbersAgree'
<1>1. CASE w \notin workers
  <2>1. UNCHANGED <<workers, idle, retiring, dispatching>> BY <1>1 DEF Lose
  <2> QED BY <2>1 DEF SlotsAgree, IdleAgrees, NumbersAgree, TypeOK, Pending
<1>2. CASE w \in workers
  <2>1. /\ workers' = workers \ {w} /\ idle' = Unlink(idle, w)
        /\ retiring' = retiring \union {w} /\ dispatching' = (closing = "open")
    BY <1>2 DEF Lose, CallDispatch
  <2>2. idle' \in Seq(Workers) BY <2>1, UnlinkType DEF TypeOK
  <2>3. Distinct(idle') BY <2>1, UnlinkDistinct DEF TypeOK, IdleAgrees
  <2>4. \A v \in Workers : Linked(idle', v) <=> Linked(idle, v) /\ v # w
    BY <2>1, UnlinkLinked DEF TypeOK, IdleAgrees
  <2>5. IdleAgrees' BY <2>1, <2>3, <2>4 DEF IdleAgrees
  <2>6. SlotsAgree' BY <2>1 DEF SlotsAgree, Pending
  <2>7. NumbersAgree' BY <1>2, <2>1 DEF NumbersAgree, Pending
  <2> QED BY <2>1, <2>2, <2>5, <2>6, <2>7 DEF TypeOK
<1> QED BY <1>1, <1>2

(* The worker that a turn of the loop uses has no job, and the job that it *)
(* looks at waits.                                                         *)
LEMMA ChosenFacts ==
  ASSUME IInv, NEW j \in JobIds, NEW w \in Workers, Candidate(j), w \in Chosen
  PROVE  /\ Waiting(j) /\ busy[w] = NoJob /\ w \notin retiring
         /\ idle = <<>> => w = workersStarted + 1 /\ w \notin workers
         /\ idle # <<>> => w = Peek(idle) /\ w \in workers
<1>1. Waiting(j)
  <2>1. CASE required # <<>>
    BY <2>1, PeekLinked DEF Candidate, IInv, TypeOK, Bookkeeping, QueuesAgree
  <2>2. CASE required = <<>>
    BY <2>2, PeekLinked DEF Candidate, IInv, TypeOK, Bookkeeping, QueuesAgree
  <2> QED BY <2>1, <2>2
<1>2. CASE idle = <<>>
  <2>1. w = workersStarted + 1 BY <1>2 DEF Chosen
  <2>2. w \notin workers \union retiring
    BY <2>1 DEF IInv, TypeOK, Bookkeeping, NumbersAgree
  <2>3. busy[w] = NoJob BY <2>2 DEF IInv, Bookkeeping, SlotsAgree
  <2> QED BY <1>1, <1>2, <2>1, <2>2, <2>3
<1>3. CASE idle # <<>>
  <2>1. w = Peek(idle) BY <1>3 DEF Chosen
  <2>2. w \in workers /\ busy[w] = NoJob
    BY <1>3, <2>1, PeekLinked DEF IInv, TypeOK, Bookkeeping, IdleAgrees
  <2>3. w \notin retiring BY <2>2 DEF IInv, Bookkeeping, NumbersAgree
  <2> QED BY <1>1, <1>3, <2>1, <2>2, <2>3
<1> QED BY <1>2, <1>3

(* Giving a waiting job to a worker without one keeps queues and slots in  *)
(* agreement.                                                              *)
LEMMA AssignFacts ==
  ASSUME TypeOK, QueuesAgree, SlotsAgree, NEW j \in JobIds, NEW w \in Workers,
         Waiting(j), busy[w] = NoJob, Assign(j, w)
  PROVE  /\ job' \in [JobIds -> Job]
         /\ required' \in Seq(JobIds) /\ speculative' \in Seq(JobIds)
         /\ busy' \in [Workers -> JobIds \union {NoJob}]
         /\ activeSpeculative' \in Int
         /\ Pending' = Pending
         /\ \A k \in JobIds : /\ k # j => job'[k] = job[k]
                              /\ job'[k].status = job[k].status
                              /\ job'[k].callback = job[k].callback
                              /\ job'[k].priority = job[k].priority
         /\ job'[j].worker = w /\ busy'[w] = j
         /\ \A v \in Workers : v # w => busy'[v] = busy[v]
         /\ QueuesAgree'
<1>1. job[j] \in Job BY DEF TypeOK
<1>2. [job[j] EXCEPT !.worker = w] \in Job BY <1>1 DEF Job
<1>3. job' = [job EXCEPT ![j] = [job[j] EXCEPT !.worker = w]] BY DEF Assign
<1>4. job' \in [JobIds -> Job] BY <1>2, <1>3 DEF TypeOK
<1>5. \A k \in JobIds : k # j => job'[k] = job[k] BY <1>3 DEF TypeOK
<1>6. job'[j] = [job[j] EXCEPT !.worker = w] BY <1>3 DEF TypeOK
<1>7. /\ job'[j].worker = w /\ job'[j].status = job[j].status
      /\ job'[j].callback = job[j].callback
      /\ job'[j].priority = job[j].priority
  BY <1>1, <1>6 DEF Job
<1>8. Pending' = Pending BY <1>5, <1>7 DEF Pending
<1>9. /\ busy' \in [Workers -> JobIds \union {NoJob}] /\ busy'[w] = j
      /\ \A v \in Workers : v # w => busy'[v] = busy[v]
  BY DEF Assign, TypeOK
<1>10. /\ required' = Unlink(required, j) /\ speculative' = Unlink(speculative, j)
       /\ activeSpeculative' \in Int
  BY DEF Assign, TypeOK
<1>11. required' \in Seq(JobIds) /\ speculative' \in Seq(JobIds)
  BY <1>10, UnlinkType DEF TypeOK
<1>12. QueuesAgree'
  <2>1. Distinct(required') /\ Distinct(speculative')
    BY <1>10, UnlinkDistinct DEF TypeOK, QueuesAgree
  <2>2. ASSUME NEW k \in JobIds
        PROVE  /\ Linked(required', k) <=> Linked(required, k) /\ k # j
               /\ Linked(speculative', k) <=> Linked(speculative, k) /\ k # j
    BY <1>10, UnlinkLinked DEF TypeOK, QueuesAgree
  <2>3. ASSUME NEW k \in JobIds
        PROVE  /\ Waiting(k)' <=> Waiting(k) /\ k # j
               /\ job'[k].priority = job[k].priority
    BY <1>5, <1>7, <1>8, NoneAssumption DEF Waiting, Workers
  <2> QED BY <2>1, <2>2, <2>3 DEF QueuesAgree
<1> QED BY <1>4, <1>5, <1>7, <1>8, <1>9, <1>10, <1>11, <1>12

-----------------------------------------------------------------------------
(* Each operation keeps the inductive invariant.                           *)

(* The invariant holds initially: nothing is submitted, started or queued. *)
LEMMA InitIInv == Init => IInv
<1> SUFFICES ASSUME Init PROVE IInv OBVIOUS
<1>1. Unsubmitted \in Job BY DEF Unsubmitted, Job, Priority
<1>2. FreshRemote \in Remote /\ NoRemote \in Remote /\ NoRemote.phase = "none"
  BY DEF FreshRemote, NoRemote, Remote
<1>3. Pending = {} BY DEF Init, Pending, Unsubmitted
<1>4. TypeOK
  <2>1. nextJob \in 1..(MaxJobs + 1) BY BoundAssumption DEF Init
  <2>2. job \in [JobIds -> Job] BY <1>1 DEF Init
  <2>3. workersStarted \in 0..(Size + MaxFaults) /\ faults \in 0..MaxFaults
    BY SizeAssumption, BoundAssumption DEF Init
  <2>4. /\ installed \in [Workers -> Seq(Programs)]
        /\ \A w \in Workers : Len(installed[w]) <= CacheSize
    BY CacheAssumption DEF Init
  <2>5. /\ inbox \in [Workers -> Seq(Request)]
        /\ outbox \in [Workers -> Seq(Response)]
    BY DEF Init
  <2>6. remote \in [Workers -> Remote] BY <1>2 DEF Init
  <2>7. busy \in [Workers -> JobIds \union {NoJob}] BY DEF Init
  <2>8. /\ required \in Seq(JobIds) /\ speculative \in Seq(JobIds)
        /\ idle \in Seq(Workers) /\ activeSpeculative \in Int
    BY DEF Init
  <2>9. /\ workers \subseteq Workers /\ retiring \subseteq Workers
        /\ terminated \subseteq Workers
        /\ closing \in {"open", "draining", "terminating", "closed"}
        /\ cleanupFailed \in BOOLEAN /\ dispatching \in BOOLEAN
    BY DEF Init
  <2> QED BY <2>1, <2>2, <2>3, <2>4, <2>5, <2>6, <2>7, <2>8, <2>9 DEF TypeOK
<1>5. QueuesAgree BY <1>3, EmptyQueue DEF Init, QueuesAgree, Waiting
<1>6. SlotsAgree BY <1>3 DEF Init, SlotsAgree
<1>7. IdleAgrees BY EmptyQueue DEF Init, IdleAgrees
<1>8. NumbersAgree
  BY <1>2, <1>3 DEF Init, NumbersAgree, Unsubmitted, Workers
<1> QED BY <1>4, <1>5, <1>6, <1>7, <1>8 DEF IInv, Bookkeeping

(* execute: the identity it hands out is new, so it is linked nowhere.     *)
LEMMA ExecuteIInv ==
  ASSUME IInv, NEW c \in Callbacks, NEW p \in Priority, Execute(c, p)
  PROVE  IInv'
<1> USE DEF IInv, Bookkeeping
<1> DEFINE new == [Unsubmitted EXCEPT !.callback = c, !.priority = p,
                                      !.status = "pending"]
<1>1. /\ new \in Job /\ new.callback = c /\ new.priority = p
      /\ new.status = "pending" /\ new.worker = NoWorker
  BY DEF Unsubmitted, Job, Priority
<1>2. nextJob \in JobIds BY DEF Execute, TypeOK, JobIds
<1>3. job' = [job EXCEPT ![nextJob] = new] BY DEF Execute
<1> HIDE DEF new
<1>4. /\ job' \in [JobIds -> Job] /\ job'[nextJob] = new
      /\ \A k \in JobIds : k # nextJob => job'[k] = job[k]
  BY <1>1, <1>2, <1>3 DEF TypeOK
<1>5. job[nextJob].status = "unsubmitted" BY <1>2 DEF NumbersAgree, TypeOK
<1>6. nextJob \notin Pending /\ Pending' = Pending \union {nextJob}
  BY <1>1, <1>2, <1>4, <1>5 DEF Pending
<1>7. ~Linked(required, nextJob) /\ ~Linked(speculative, nextJob)
  BY <1>2, <1>6 DEF QueuesAgree, Waiting
<1>8. /\ p = "required" => required' = Push(required, nextJob)
      /\ p # "required" => required' = required
      /\ p = "speculative" => speculative' = Push(speculative, nextJob)
      /\ p # "speculative" => speculative' = speculative
  BY DEF Execute
<1>9. /\ nextJob' = nextJob + 1 /\ dispatching' \in BOOLEAN
      /\ UNCHANGED <<workers, workersStarted, slotVars, installed, retiring,
                     closeVars, wireVars, remote, faults>>
  BY DEF Execute, CallDispatch
<1>10. required' \in Seq(JobIds) /\ speculative' \in Seq(JobIds)
  BY <1>2, <1>8, PushType DEF TypeOK
<1>11. nextJob' \in 1..(MaxJobs + 1)
  BY <1>2, <1>9, BoundAssumption DEF JobIds
<1>12. TypeOK'
  BY <1>4, <1>9, <1>10, <1>11
  DEF TypeOK, slotVars, closeVars, wireVars
<1>13. QueuesAgree'
  <2>1. Distinct(required') /\ Distinct(speculative')
    BY <1>2, <1>7, <1>8, PushDistinct DEF TypeOK, QueuesAgree
  <2>2. ASSUME NEW k \in JobIds
        PROVE  /\ Linked(required', k) <=>
                    Linked(required, k) \/ (k = nextJob /\ p = "required")
               /\ Linked(speculative', k) <=>
                    Linked(speculative, k) \/ (k = nextJob /\ p = "speculative")
    BY <1>2, <1>8, PushLinked DEF TypeOK
  <2>3. ASSUME NEW k \in JobIds
        PROVE  /\ k = nextJob => Waiting(k)' /\ job'[k].priority = p
               /\ k # nextJob => /\ Waiting(k)' <=> Waiting(k)
                                 /\ job'[k].priority = job[k].priority
    BY <1>1, <1>4, <1>6 DEF Waiting
  <2> QED BY <1>7, <2>1, <2>2, <2>3 DEF QueuesAgree, Priority
<1>14. SlotsAgree'
  <2>1. \A w \in Workers : busy[w] # nextJob BY <1>6, <1>2, NoneAssumption
    DEF SlotsAgree, JobIds
  <2> QED BY <2>1, <1>1, <1>4, <1>6, <1>9 DEF SlotsAgree, slotVars, Pending
<1>15. IdleAgrees' BY <1>9 DEF IdleAgrees, slotVars
<1>16. NumbersAgree'
  <2>1. closing = "open" BY DEF Execute
  <2> QED BY <2>1, <1>1, <1>2, <1>4, <1>6, <1>9
    DEF NumbersAgree, closeVars, Pending, TypeOK, JobIds
<1> QED BY <1>12, <1>13, <1>14, <1>15, <1>16

(* promote: the job changes its queue, or only its priority.               *)
LEMMA PromoteIInv ==
  ASSUME IInv, NEW c \in Callbacks, Promote(c)
  PROVE  IInv'
<1> USE DEF IInv, Bookkeeping
<1>1. PICK j \in Pending :
        /\ job[j].priority = "speculative"
        /\ job' = [job EXCEPT ![j].priority = "required"]
        /\ IF job[j].worker = NoWorker
           THEN /\ speculative' = Unlink(speculative, j)
                /\ required' = Push(required, j)
                /\ UNCHANGED activeSpeculative
           ELSE /\ activeSpeculative' = activeSpeculative - 1
                /\ UNCHANGED queueVars
  BY DEF Promote
<1>2. /\ dispatching' \in BOOLEAN
      /\ UNCHANGED <<nextJob, workers, workersStarted, busy, idle, installed,
                     retiring, closeVars, wireVars, remote, faults>>
  BY DEF Promote, CallDispatch
<1>3. j \in JobIds /\ job[j] \in Job BY DEF Pending, TypeOK
<1>4. [job[j] EXCEPT !.priority = "required"] \in Job
  BY <1>3 DEF Job, Priority
<1>5. job' = [job EXCEPT ![j] = [job[j] EXCEPT !.priority = "required"]]
  BY <1>1
<1>6. /\ job' \in [JobIds -> Job]
      /\ job'[j] = [job[j] EXCEPT !.priority = "required"]
      /\ \A k \in JobIds : k # j => job'[k] = job[k]
  BY <1>3, <1>4, <1>5 DEF TypeOK
<1>7. \A k \in JobIds : /\ job'[k].status = job[k].status
                        /\ job'[k].worker = job[k].worker
                        /\ job'[k].callback = job[k].callback
                        /\ k # j => job'[k].priority = job[k].priority
  BY <1>3, <1>6 DEF Job
<1>8. job'[j].priority = "required" BY <1>3, <1>6 DEF Job
<1>9. Pending' = Pending /\ \A k \in JobIds : Waiting(k)' <=> Waiting(k)
  BY <1>7 DEF Pending, Waiting
<1>10. required' \in Seq(JobIds) /\ speculative' \in Seq(JobIds)
  BY <1>1, <1>3, PushType, UnlinkType DEF TypeOK, queueVars
<1>11. activeSpeculative' \in Int BY <1>1 DEF TypeOK
<1>12. TypeOK' BY <1>2, <1>6, <1>10, <1>11 DEF TypeOK, closeVars, wireVars
<1>13. QueuesAgree'
  <2>1. CASE job[j].worker = NoWorker
    <3>1. Waiting(j) BY <2>1 DEF Waiting
    <3>2. ~Linked(required, j) BY <1>1, <1>3 DEF QueuesAgree
    <3>3. Distinct(required') /\ Distinct(speculative')
      BY <1>1, <1>3, <2>1, <3>2, PushDistinct, UnlinkDistinct
      DEF TypeOK, QueuesAgree
    <3>4. ASSUME NEW k \in JobIds
          PROVE  /\ Linked(required', k) <=> Linked(required, k) \/ k = j
                 /\ Linked(speculative', k) <=> Linked(speculative, k) /\ k # j
      BY <1>1, <1>3, <2>1, PushLinked, UnlinkLinked DEF TypeOK, QueuesAgree
    <3> QED BY <1>3, <1>7, <1>8, <1>9, <3>1, <3>3, <3>4 DEF QueuesAgree
  <2>2. CASE job[j].worker # NoWorker
    <3>1. ~Waiting(j) BY <2>2 DEF Waiting
    <3>2. UNCHANGED queueVars BY <1>1, <2>2
    <3> QED BY <1>7, <1>9, <3>1, <3>2 DEF QueuesAgree, queueVars
  <2> QED BY <2>1, <2>2
<1>14. SlotsAgree'
  <2>1. \A w \in Workers : busy[w] # NoJob => busy[w] \in JobIds BY DEF TypeOK
  <2> QED BY <2>1, <1>2, <1>7, <1>9 DEF SlotsAgree, Pending
<1>15. IdleAgrees' BY <1>2 DEF IdleAgrees
<1>16. NumbersAgree' BY <1>2, <1>7, <1>9 DEF NumbersAgree, closeVars, Pending
<1> QED BY <1>12, <1>13, <1>14, <1>15, <1>16

(* What #finish, called outside close(), leaves of the agreement that does *)
(* not follow from FinishFacts alone.                                      *)
LEMMA FinishIInv ==
  ASSUME IInv, NEW j \in Pending, NEW outcome \in Settled, Finish(j, outcome),
         UNCHANGED <<nextJob, workers, workersStarted, closing>>,
         retiring' \subseteq retiring,
         \A w \in Workers : w \in retiring \ retiring' => busy[w] = j,
         \A w \in Workers : remote'[w].phase # "none" => remote'[w].running # NoJob
  PROVE  Bookkeeping'
<1> USE DEF IInv, Bookkeeping
<1>1. /\ Pending' = Pending \ {j}
      /\ \A k \in JobIds : k # j => job'[k] = job[k]
      /\ job'[j].status = outcome /\ job'[j].worker = job[j].worker
      /\ \A w \in Workers : w # job[j].worker => busy'[w] = busy[w]
      /\ job[j].worker # NoWorker => busy'[job[j].worker] = NoJob
      /\ QueuesAgree' /\ IdleAgrees'
  BY FinishFacts
<1>2. j \in JobIds /\ NoWorker \notin Workers
  BY NoneAssumption DEF Pending, Workers
<1>3. SlotsAgree'
  <2>1. ASSUME NEW w \in Workers, busy'[w] # NoJob
        PROVE  /\ busy'[w] \in Pending' /\ job'[busy'[w]].worker = w
               /\ w \in workers' \union retiring'
    <3>1. w # job[j].worker /\ busy'[w] = busy[w]
      BY <1>1, <1>2, <2>1
    <3>2. busy[w] \in Pending /\ job[busy[w]].worker = w
      BY <2>1, <3>1 DEF SlotsAgree
    <3>3. busy[w] # j BY <3>1, <3>2
    <3>4. w \in workers \union retiring' BY <2>1, <3>1, <3>3 DEF SlotsAgree
    <3> QED BY <1>1, <3>1, <3>2, <3>3, <3>4 DEF Pending
  <2>2. ASSUME NEW k \in Pending', job'[k].worker # NoWorker
        PROVE  busy'[job'[k].worker] = k
    <3>1. k \in Pending /\ k # j /\ job'[k] = job[k] /\ k \in JobIds
      BY <1>1 DEF Pending
    <3>2. busy[job[k].worker] = k /\ job[k].worker \in Workers
      BY <2>2, <3>1 DEF SlotsAgree, TypeOK, Job
    <3>3. job[k].worker # job[j].worker
      BY <2>2, <3>1, <3>2 DEF SlotsAgree
    <3> QED BY <1>1, <3>1, <3>2, <3>3
  <2> QED BY <2>1, <2>2 DEF SlotsAgree
<1>4. NumbersAgree'
  <2>1. \A k \in JobIds : k >= nextJob => k # j
    BY <1>2 DEF NumbersAgree, Pending
  <2>2. \A k \in Pending' : k \in Pending /\ job'[k] = job[k]
    BY <1>1 DEF Pending
  <2> QED BY <1>1, <2>1, <2>2 DEF NumbersAgree
<1> QED BY <1>1, <1>3, <1>4

(* A queued job that is aborted ends where it waits.                       *)
LEMMA AbortQueuedIInv ==
  ASSUME IInv, NEW j \in JobIds, AbortQueued(j)
  PROVE  IInv'
<1> USE DEF IInv
<1>1. /\ j \in Pending /\ Finish(j, "error")
      /\ UNCHANGED <<nextJob, workers, workersStarted, installed, retiring,
                     closeVars, dispatching, wireVars, remote, faults>>
  BY DEF AbortQueued
<1>2. "error" \in Settled BY DEF Settled
<1>3. Bookkeeping'
  BY <1>1, <1>2, FinishIInv DEF closeVars, Bookkeeping, NumbersAgree
<1>4. TypeOK'
  BY <1>1, <1>2, FinishFacts DEF TypeOK, closeVars, wireVars, Bookkeeping
<1> QED BY <1>3, <1>4

(* A cancellation request changes no slot; a failing post loses the worker.*)
LEMMA AbortRunningIInv ==
  ASSUME IInv, NEW j \in JobIds, AbortRunning(j)
  PROVE  IInv'
<1> USE DEF IInv, Bookkeeping
<1> DEFINE w == job[j].worker
<1>1. /\ j \in Pending /\ w \in Workers /\ job[j] \in Job
  BY DEF AbortRunning, TypeOK, Job
<1>2. job' = [job EXCEPT ![j] = [job[j] EXCEPT !.aborted = TRUE]]
  BY DEF AbortRunning
<1>3. [job[j] EXCEPT !.aborted = TRUE] \in Job BY <1>1 DEF Job
<1>4. /\ job' \in [JobIds -> Job]
      /\ job'[j] = [job[j] EXCEPT !.aborted = TRUE]
      /\ \A k \in JobIds : k # j => job'[k] = job[k]
  BY <1>2, <1>3 DEF TypeOK
<1>5. \A k \in JobIds : /\ job'[k].status = job[k].status
                        /\ job'[k].worker = job[k].worker
                        /\ job'[k].callback = job[k].callback
                        /\ job'[k].priority = job[k].priority
  BY <1>1, <1>4 DEF Job
<1>6. Pending' = Pending /\ \A k \in JobIds : Waiting(k)' <=> Waiting(k)
  BY <1>5 DEF Pending, Waiting
<1>7. UNCHANGED <<nextJob, queueVars, workersStarted, busy, activeSpeculative,
                  installed, closeVars, outbox, remote>>
  BY DEF AbortRunning
<1>8. QueuesAgree' BY <1>5, <1>6, <1>7 DEF QueuesAgree, queueVars
<1>9. \A v \in Workers : busy[v] # NoJob => busy[v] \in JobIds BY DEF TypeOK
<1>10. CASE /\ inbox' = [inbox EXCEPT ![w] = Append(@, Cancel(j))]
            /\ UNCHANGED <<workers, retiring, idle, dispatching, faults>>
  <2>1. Cancel(j) \in Request BY DEF Cancel, Request
  <2>2. inbox' = [inbox EXCEPT ![w] = Append(inbox[w], Cancel(j))] BY <1>10
  <2>3. inbox' \in [Workers -> Seq(Request)]
    BY <1>1, <2>1, <2>2, PostOneType DEF TypeOK
  <2>4. TypeOK' BY <1>4, <1>7, <1>10, <2>3 DEF TypeOK, queueVars, closeVars
  <2>5. SlotsAgree' BY <1>5, <1>6, <1>7, <1>9, <1>10 DEF SlotsAgree, Pending
  <2>6. IdleAgrees' BY <1>7, <1>10 DEF IdleAgrees
  <2>7. NumbersAgree'
    BY <1>5, <1>6, <1>7, <1>10 DEF NumbersAgree, closeVars, Pending
  <2> QED BY <1>8, <2>4, <2>5, <2>6, <2>7
<1>11. CASE Fault /\ Lose(w) /\ UNCHANGED inbox
  <2>1. faults' \in 0..MaxFaults BY <1>11, FaultType
  <2>2. CASE w \notin workers
    <3>1. UNCHANGED <<workers, idle, retiring, dispatching>>
      BY <1>11, <2>2 DEF Lose
    <3>2. TypeOK'
      BY <1>4, <1>7, <1>11, <2>1, <3>1 DEF TypeOK, queueVars, closeVars
    <3>3. SlotsAgree' BY <1>5, <1>6, <1>7, <1>9, <3>1 DEF SlotsAgree, Pending
    <3>4. IdleAgrees' BY <1>7, <3>1 DEF IdleAgrees
    <3>5. NumbersAgree'
      BY <1>5, <1>6, <1>7, <3>1 DEF NumbersAgree, closeVars, Pending
    <3> QED BY <1>8, <3>2, <3>3, <3>4, <3>5
  <2>3. CASE w \in workers
    <3>1. /\ workers' = workers \ {w} /\ idle' = Unlink(idle, w)
          /\ retiring' = retiring \union {w} /\ dispatching' \in BOOLEAN
      BY <1>11, <2>3 DEF Lose, CallDispatch
    <3>2. idle' \in Seq(Workers) /\ Distinct(idle')
      BY <3>1, UnlinkType, UnlinkDistinct DEF TypeOK, IdleAgrees
    <3>3. \A v \in Workers : Linked(idle', v) <=> Linked(idle, v) /\ v # w
      BY <3>1, UnlinkLinked DEF TypeOK, IdleAgrees
    <3>4. TypeOK'
      BY <1>1, <1>4, <1>7, <1>11, <2>1, <3>1, <3>2
      DEF TypeOK, queueVars, closeVars
    <3>5. SlotsAgree' BY <1>5, <1>6, <1>7, <1>9, <3>1 DEF SlotsAgree, Pending
    <3>6. IdleAgrees' BY <1>7, <3>1, <3>2, <3>3 DEF IdleAgrees
    <3>7. NumbersAgree'
      BY <1>5, <1>6, <1>7, <2>3, <3>1 DEF NumbersAgree, closeVars, Pending
    <3> QED BY <1>8, <3>4, <3>5, <3>6, <3>7
  <2> QED BY <2>2, <2>3
<1> QED BY <1>10, <1>11 DEF AbortRunning

(* The messages that hand over a job are requests, and the program cache   *)
(* does not outgrow its bound.                                             *)
LEMMA PostsType ==
  ASSUME TypeOK, NEW j \in JobIds, NEW w \in Workers,
         job[j].callback \in Callbacks
  PROVE  /\ Posts(w, j) \in Seq(Request)
         /\ Refreshed(w, ProgramOf[job[j].callback]) \in Seq(Programs)
         /\ Len(Refreshed(w, ProgramOf[job[j].callback])) <= CacheSize
<1> DEFINE p == ProgramOf[job[j].callback]
           c == installed[w]
<1>1. p \in Programs BY CallbackAssumption
<1>2. c \in Seq(Programs) /\ Len(c) <= CacheSize /\ Len(c) \in Nat
  BY DEF TypeOK
<1>3. Evicts(w, p) => /\ c # <<>> /\ ~Linked(c, p) /\ Len(c) >= CacheSize
                      /\ Peek(c) \in Programs /\ Linked(c, Peek(c))
  <2> SUFFICES ASSUME Evicts(w, p)
               PROVE  /\ c # <<>> /\ ~Linked(c, p) /\ Len(c) >= CacheSize
                      /\ Peek(c) \in Programs /\ Linked(c, Peek(c))
    OBVIOUS
  <2>1. ~Linked(c, p) /\ Len(c) >= CacheSize BY DEF Evicts
  <2>2. c # <<>> BY <1>2, <2>1, CacheAssumption
  <2> QED BY <1>2, <2>1, <2>2, PeekLinked
<1>4. Posts(w, j) \in Seq(Request)
  <2>1. /\ [kind |-> "install", program |-> p] \in Request
        /\ [kind |-> "run", program |-> p, job |-> j] \in Request
        /\ Evicts(w, p) =>
             [kind |-> "uninstall", program |-> Peek(c)] \in Request
    BY <1>1, <1>3 DEF Request
  <2>2. (IF Evicts(w, p) THEN <<[kind |-> "uninstall", program |-> Peek(c)]>>
         ELSE <<>>) \in Seq(Request)
    BY <2>1
  <2>3. (IF Linked(c, p) THEN <<>> ELSE <<[kind |-> "install", program |-> p]>>)
          \in Seq(Request)
    BY <2>1
  <2>4. <<[kind |-> "run", program |-> p, job |-> j]>> \in Seq(Request)
    BY <2>1
  <2> QED BY <2>2, <2>3, <2>4 DEF Posts
<1>5. ASSUME NEW q \in Seq(Programs), Len(q) < CacheSize
      PROVE  Push(q, p) \in Seq(Programs) /\ Len(Push(q, p)) <= CacheSize
  BY <1>1, <1>5, CacheAssumption DEF Push
<1>6. CASE Evicts(w, p)
  <2>1. /\ Unlink(c, Peek(c)) \in Seq(Programs)
        /\ Len(Unlink(c, Peek(c))) = Len(c) - 1
    BY <1>2, <1>3, <1>6, UnlinkShape
  <2>2. Len(Unlink(c, Peek(c))) < CacheSize BY <1>2, <2>1, CacheAssumption
  <2> QED BY <1>4, <1>5, <1>6, <2>1, <2>2 DEF Refreshed, Shift
<1>7. CASE ~Evicts(w, p) /\ Linked(c, p)
  <2>1. Unlink(c, p) \in Seq(Programs) /\ Len(Unlink(c, p)) = Len(c) - 1
    BY <1>2, <1>7, UnlinkShape
  <2>2. Len(Unlink(c, p)) < CacheSize BY <1>2, <2>1, CacheAssumption
  <2> QED BY <1>4, <1>5, <1>7, <2>1, <2>2 DEF Refreshed
<1>8. CASE ~Evicts(w, p) /\ ~Linked(c, p)
  <2>1. Unlink(c, p) = c BY <1>8 DEF Unlink
  <2>2. Len(c) < CacheSize BY <1>2, <1>8, CacheAssumption DEF Evicts
  <2> QED BY <1>2, <1>4, <1>5, <1>8, <2>1, <2>2 DEF Refreshed
<1> QED BY <1>6, <1>7, <1>8

(* A turn of the dispatch loop gives the waiting job to a worker that has  *)
(* none, whether or not the worker survives the posts.                     *)
LEMMA TurnIInv ==
  ASSUME IInv, NEW j \in JobIds, NEW w \in Workers,
         Candidate(j), w \in Chosen, Assign(j, w),
         idle' = IF idle # <<>> THEN Shift(idle) ELSE idle,
         workersStarted' = IF idle # <<>> THEN workersStarted ELSE w,
         \/ workers' = workers \union {w} /\ retiring' = retiring
         \/ workers' = workers \ {w} /\ retiring' = retiring \union {w},
         remote' = IF idle # <<>> THEN remote
                   ELSE [remote EXCEPT ![w] = FreshRemote],
         UNCHANGED <<nextJob, closing>>
  PROVE  /\ Bookkeeping'
         /\ job' \in [JobIds -> Job]
         /\ required' \in Seq(JobIds) /\ speculative' \in Seq(JobIds)
         /\ busy' \in [Workers -> JobIds \union {NoJob}]
         /\ activeSpeculative' \in Int
         /\ idle' \in Seq(Workers)
         /\ workersStarted' \in 0..(Size + MaxFaults)
         /\ workers' \subseteq Workers /\ retiring' \subseteq Workers
         /\ remote' \in [Workers -> Remote]
         /\ job[j].callback \in Callbacks
<1> USE DEF IInv, Bookkeeping
<1>1. /\ Waiting(j) /\ busy[w] = NoJob /\ w \notin retiring
      /\ idle = <<>> => w = workersStarted + 1 /\ w \notin workers
      /\ idle # <<>> => w = Peek(idle) /\ w \in workers
  BY ChosenFacts
<1>2. /\ job' \in [JobIds -> Job]
      /\ required' \in Seq(JobIds) /\ speculative' \in Seq(JobIds)
      /\ busy' \in [Workers -> JobIds \union {NoJob}]
      /\ activeSpeculative' \in Int
      /\ Pending' = Pending
      /\ \A k \in JobIds : /\ k # j => job'[k] = job[k]
                           /\ job'[k].status = job[k].status
                           /\ job'[k].callback = job[k].callback
                           /\ job'[k].priority = job[k].priority
      /\ job'[j].worker = w /\ busy'[w] = j
      /\ \A v \in Workers : v # w => busy'[v] = busy[v]
      /\ QueuesAgree'
  BY <1>1, AssignFacts
<1>3. j # NoJob /\ NoWorker \notin Workers
  BY NoneAssumption DEF JobIds, Workers
<1>4. idle' \in Seq(Workers) /\ IdleAgrees'
  <2>1. CASE idle = <<>>
    <3>1. idle' = idle /\ \A v \in Workers : ~Linked(idle', v)
      BY <2>1, EmptyQueue
    <3>2. \A v \in Workers : ~(v \in workers' /\ busy'[v] = NoJob)
      BY <1>2, <1>3, <2>1, EmptyQueue DEF IdleAgrees
    <3> QED BY <3>1, <3>2 DEF IdleAgrees, TypeOK
  <2>2. CASE idle # <<>>
    <3>1. idle' = Unlink(idle, w) BY <1>1, <2>2 DEF Shift
    <3>2. idle' \in Seq(Workers) /\ Distinct(idle')
      BY <3>1, UnlinkType, UnlinkDistinct DEF TypeOK, IdleAgrees
    <3>3. \A v \in Workers : Linked(idle', v) <=> Linked(idle, v) /\ v # w
      BY <3>1, UnlinkLinked DEF TypeOK, IdleAgrees
    <3>4. \A v \in Workers :
            Linked(idle', v) <=> v \in workers' /\ busy'[v] = NoJob
      BY <1>2, <1>3, <3>3 DEF IdleAgrees
    <3> QED BY <3>2, <3>4 DEF IdleAgrees
  <2> QED BY <2>1, <2>2
<1>5. SlotsAgree'
  <2>1. ASSUME NEW v \in Workers, busy'[v] # NoJob
        PROVE  /\ busy'[v] \in Pending' /\ job'[busy'[v]].worker = v
               /\ v \in workers' \union retiring'
    <3>1. CASE v = w BY <1>1, <1>2, <3>1 DEF Waiting
    <3>2. CASE v # w
      <4>1. /\ busy[v] \in Pending /\ job[busy[v]].worker = v
            /\ v \in workers \union retiring /\ busy'[v] = busy[v]
        BY <1>2, <2>1, <3>2 DEF SlotsAgree
      <4>2. busy[v] # j BY <1>1, <1>3, <4>1 DEF Waiting
      <4>3. busy[v] \in JobIds BY <4>1 DEF Pending
      <4> QED BY <1>2, <3>2, <4>1, <4>2, <4>3
    <3> QED BY <3>1, <3>2
  <2>2. ASSUME NEW k \in Pending', job'[k].worker # NoWorker
        PROVE  busy'[job'[k].worker] = k
    <3>1. CASE k = j BY <1>2, <3>1
    <3>2. CASE k # j
      <4>1. k \in JobIds /\ k \in Pending /\ job'[k] = job[k]
        BY <1>2, <3>2 DEF Pending
      <4>2. busy[job[k].worker] = k /\ job[k].worker \in Workers
        BY <2>2, <4>1 DEF SlotsAgree, TypeOK, Job
      <4>3. job[k].worker # w
        BY <1>1, <4>1, <4>2, NoneAssumption DEF JobIds
      <4> QED BY <1>2, <4>1, <4>2, <4>3
    <3> QED BY <3>1, <3>2
  <2> QED BY <2>1, <2>2 DEF SlotsAgree
<1>6. /\ workersStarted' \in 0..(Size + MaxFaults)
      /\ workersStarted' >= workersStarted /\ w <= workersStarted'
  <2>1. w \in 1..(Size + MaxFaults) BY DEF Workers
  <2>2. CASE idle = <<>> BY <1>1, <2>1, <2>2 DEF TypeOK
  <2>3. CASE idle # <<>>
    <3>1. w <= workersStarted BY <1>1, <2>3 DEF NumbersAgree
    <3> QED BY <2>3, <3>1 DEF TypeOK
  <2> QED BY <2>2, <2>3
<1>7. remote' \in [Workers -> Remote]
  <2>1. FreshRemote \in Remote BY DEF FreshRemote, Remote
  <2> QED BY <2>1 DEF TypeOK
<1>8. NumbersAgree'
  <2>1. \A v \in Workers : remote'[v].phase # "none" => remote'[v].running # NoJob
    BY DEF NumbersAgree, FreshRemote, TypeOK
  <2>2. workers' \intersect retiring' = {} BY <1>1 DEF NumbersAgree
  <2>3. ASSUME NEW v \in workers' \union retiring'
        PROVE  v <= workersStarted'
    <3>1. CASE v = w BY <1>6, <3>1
    <3>2. CASE v # w
      <4>1. v \in workers \union retiring BY <3>2
      <4>2. v <= workersStarted /\ v \in Workers
        BY <4>1 DEF NumbersAgree, TypeOK
      <4>3. v \in Int /\ workersStarted \in Int /\ workersStarted' \in Int
        BY <1>6, <4>2 DEF TypeOK, Workers
      <4> QED BY <1>6, <4>2, <4>3
    <3> QED BY <3>1, <3>2
  <2> QED BY <1>2, <2>1, <2>2, <2>3 DEF NumbersAgree, Pending
<1>9. job[j].callback \in Callbacks BY <1>1 DEF Waiting, NumbersAgree
<1> QED BY <1>2, <1>4, <1>5, <1>6, <1>7, <1>8, <1>9 DEF TypeOK

(* A turn of the loop whose posts all succeed.                             *)
LEMMA PlaceIInv ==
  ASSUME IInv, NEW j \in JobIds, NEW w \in Workers, Place(j, w)
  PROVE  IInv'
<1>1. /\ Bookkeeping'
      /\ job' \in [JobIds -> Job]
      /\ required' \in Seq(JobIds) /\ speculative' \in Seq(JobIds)
      /\ busy' \in [Workers -> JobIds \union {NoJob}]
      /\ activeSpeculative' \in Int
      /\ idle' \in Seq(Workers)
      /\ workersStarted' \in 0..(Size + MaxFaults)
      /\ workers' \subseteq Workers /\ retiring' \subseteq Workers
      /\ remote' \in [Workers -> Remote]
      /\ job[j].callback \in Callbacks
  BY TurnIInv DEF Place, closeVars
<1>2. TypeOK BY DEF IInv
<1>3. /\ Posts(w, j) \in Seq(Request)
      /\ Refreshed(w, ProgramOf[job[j].callback]) \in Seq(Programs)
      /\ Len(Refreshed(w, ProgramOf[job[j].callback])) <= CacheSize
  BY <1>1, <1>2, PostsType
<1>4. inbox' \in [Workers -> Seq(Request)]
  BY <1>2, <1>3, PostType DEF Place, TypeOK
<1>5. /\ installed' \in [Workers -> Seq(Programs)]
      /\ \A v \in Workers : Len(installed'[v]) <= CacheSize
  BY <1>2, <1>3 DEF Place, TypeOK
<1>6. TypeOK'
  BY <1>1, <1>2, <1>4, <1>5 DEF Place, TypeOK, closeVars
<1> QED BY <1>1, <1>6 DEF IInv

(* A turn of the loop in which a post throws.                              *)
LEMMA PlaceFailsIInv ==
  ASSUME IInv, NEW j \in JobIds, NEW w \in Workers, PlaceFails(j, w)
  PROVE  IInv'
<1>1. /\ Bookkeeping'
      /\ job' \in [JobIds -> Job]
      /\ required' \in Seq(JobIds) /\ speculative' \in Seq(JobIds)
      /\ busy' \in [Workers -> JobIds \union {NoJob}]
      /\ activeSpeculative' \in Int
      /\ idle' \in Seq(Workers)
      /\ workersStarted' \in 0..(Size + MaxFaults)
      /\ workers' \subseteq Workers /\ retiring' \subseteq Workers
      /\ remote' \in [Workers -> Remote]
  BY TurnIInv DEF PlaceFails, closeVars
<1>2. TypeOK BY DEF IInv
<1>3. faults' \in 0..MaxFaults BY <1>2, FaultType DEF PlaceFails
<1>4. TypeOK'
  BY <1>1, <1>2, <1>3 DEF PlaceFails, TypeOK, closeVars, wireVars
<1> QED BY <1>1, <1>4 DEF IInv

(* A worker that cannot be created costs the job that it was for.          *)
LEMMA StartFailsIInv ==
  ASSUME IInv, NEW j \in JobIds, StartFails(j)
  PROVE  IInv'
<1> USE DEF IInv
<1>1. /\ Finish(j, "error") /\ Fault /\ Candidate(j)
      /\ UNCHANGED <<nextJob, workers, workersStarted, installed, retiring,
                     closeVars, dispatching, wireVars, remote>>
  BY DEF StartFails
<1>2. j \in Pending
  <2>1. CASE required # <<>>
    BY <1>1, <2>1, PeekLinked
    DEF Candidate, TypeOK, Bookkeeping, QueuesAgree, Waiting
  <2>2. CASE required = <<>>
    BY <1>1, <2>2, PeekLinked
    DEF Candidate, TypeOK, Bookkeeping, QueuesAgree, Waiting
  <2> QED BY <2>1, <2>2
<1>3. "error" \in Settled BY DEF Settled
<1>4. Bookkeeping'
  BY <1>1, <1>2, <1>3, FinishIInv DEF closeVars, Bookkeeping, NumbersAgree
<1>5. faults' \in 0..MaxFaults BY <1>1, FaultType
<1>6. TypeOK'
  BY <1>1, <1>2, <1>3, <1>5, FinishFacts
  DEF TypeOK, closeVars, wireVars, Bookkeeping
<1> QED BY <1>4, <1>6

(* A response either ends the job of its worker, marks it started, or      *)
(* loses the worker.                                                       *)
LEMMA OnMessageIInv ==
  ASSUME IInv, NEW w \in Workers, OnMessage(w)
  PROVE  IInv'
<1> USE DEF IInv, Bookkeeping
<1> DEFINE m == Head(outbox[w])
<1>1. /\ outbox[w] # <<>> /\ outbox' = [outbox EXCEPT ![w] = Tail(outbox[w])]
      /\ UNCHANGED <<nextJob, workersStarted, installed, closeVars, inbox,
                     remote, faults>>
  BY DEF OnMessage
<1>2. m \in Response /\ outbox' \in [Workers -> Seq(Response)]
  BY <1>1, ReceiveType DEF TypeOK
<1>3. m.job \in JobIds BY <1>2 DEF Response
<1> HIDE DEF m
<1>4. CASE Rejects(w, m)
  <2>1. Lose(w) /\ UNCHANGED <<job, queueVars, busy, activeSpeculative>>
    BY <1>4 DEF OnMessage, m
  <2>2. /\ workers' \subseteq Workers /\ retiring' \subseteq Workers
        /\ idle' \in Seq(Workers) /\ dispatching' \in BOOLEAN
        /\ SlotsAgree' /\ IdleAgrees' /\ NumbersAgree'
    BY <1>1, <2>1, LoseFacts DEF closeVars
  <2>3. QueuesAgree' BY <2>1 DEF QueuesAgree, queueVars, Waiting, Pending
  <2>4. TypeOK'
    BY <1>1, <1>2, <2>1, <2>2 DEF TypeOK, queueVars, closeVars
  <2> QED BY <2>2, <2>3, <2>4
<1>5. CASE ~Rejects(w, m)
  <2>1. busy[w] = m.job BY <1>5 DEF Rejects
  <2>2. m.job \in Pending /\ job[m.job].worker = w
    BY <1>3, <2>1, NoneAssumption DEF SlotsAgree, JobIds
  <2>3. UNCHANGED <<workers, retiring>> BY <1>5 DEF OnMessage, m
  <2>4. CASE m.kind = "started"
    <3>1. /\ job' = [job EXCEPT ![m.job] = [job[m.job] EXCEPT !.started = TRUE]]
          /\ UNCHANGED <<queueVars, slotVars, dispatching>>
      BY <1>5, <2>4 DEF OnMessage, m
    <3>2. job[m.job] \in Job BY <1>3 DEF TypeOK
    <3>3. [job[m.job] EXCEPT !.started = TRUE] \in Job BY <3>2 DEF Job
    <3>4. /\ job' \in [JobIds -> Job]
          /\ job'[m.job] = [job[m.job] EXCEPT !.started = TRUE]
          /\ \A k \in JobIds : k # m.job => job'[k] = job[k]
      BY <1>3, <3>1, <3>3 DEF TypeOK
    <3>5. \A k \in JobIds : /\ job'[k].status = job[k].status
                            /\ job'[k].worker = job[k].worker
                            /\ job'[k].callback = job[k].callback
                            /\ job'[k].priority = job[k].priority
      BY <3>2, <3>4 DEF Job
    <3>6. Pending' = Pending /\ \A k \in JobIds : Waiting(k)' <=> Waiting(k)
      BY <3>5 DEF Pending, Waiting
    <3>7. \A v \in Workers : busy[v] # NoJob => busy[v] \in JobIds BY DEF TypeOK
    <3>8. TypeOK'
      BY <1>1, <1>2, <2>3, <3>1, <3>4 DEF TypeOK, queueVars, slotVars, closeVars
    <3>9. QueuesAgree' BY <3>1, <3>5, <3>6 DEF QueuesAgree, queueVars
    <3>10. SlotsAgree'
      BY <2>3, <3>1, <3>5, <3>6, <3>7 DEF SlotsAgree, slotVars, Pending
    <3>11. IdleAgrees' BY <2>3, <3>1 DEF IdleAgrees, slotVars
    <3>12. NumbersAgree'
      BY <1>1, <2>3, <3>5, <3>6 DEF NumbersAgree, closeVars, Pending
    <3> QED BY <3>8, <3>9, <3>10, <3>11, <3>12
  <2>5. CASE m.kind # "started"
    <3> DEFINE o == IF m.kind = "returned" /\ ~job[m.job].aborted
                    THEN "value" ELSE "error"
    <3>1. Finish(m.job, o) /\ dispatching' = (closing = "open")
      BY <1>5, <2>5 DEF OnMessage, m, CallDispatch
    <3>2. o \in Settled BY DEF Settled
    <3> HIDE DEF o
    <3>3. Bookkeeping'
      BY <1>1, <2>2, <2>3, <3>1, <3>2, FinishIInv DEF closeVars, NumbersAgree
    <3>4. TypeOK'
      BY <1>1, <1>2, <2>2, <2>3, <3>1, <3>2, FinishFacts DEF TypeOK, closeVars
    <3> QED BY <3>3, <3>4
  <2> QED BY <2>4, <2>5
<1> QED BY <1>4, <1>5

(* An error event loses the worker.                                        *)
LEMMA OnErrorIInv ==
  ASSUME IInv, NEW w \in Workers, OnError(w)
  PROVE  IInv'
<1> USE DEF IInv, Bookkeeping
<1>1. /\ Lose(w)
      /\ UNCHANGED <<nextJob, job, queueVars, workersStarted, busy,
                     activeSpeculative, installed, closeVars, wireVars, remote,
                     faults>>
  BY DEF OnError
<1>2. /\ workers' \subseteq Workers /\ retiring' \subseteq Workers
      /\ idle' \in Seq(Workers) /\ dispatching' \in BOOLEAN
      /\ SlotsAgree' /\ IdleAgrees' /\ NumbersAgree'
  BY <1>1, LoseFacts DEF closeVars
<1>3. QueuesAgree' BY <1>1 DEF QueuesAgree, queueVars, Waiting, Pending
<1>4. TypeOK' BY <1>1, <1>2 DEF TypeOK, queueVars, closeVars, wireVars
<1> QED BY <1>2, <1>3, <1>4

(* A terminate() that settles closes both directions of its connection.    *)
LEMMA TerminateFacts ==
  ASSUME TypeOK, NumbersAgree, NEW w \in Workers, Terminate(w)
  PROVE  /\ inbox' \in [Workers -> Seq(Request)]
         /\ outbox' \in [Workers -> Seq(Response)]
         /\ remote' \in [Workers -> Remote]
         /\ cleanupFailed' \in BOOLEAN /\ faults' \in 0..MaxFaults
         /\ \A v \in Workers :
              remote'[v].phase # "none" => remote'[v].running # NoJob
<1>1. /\ inbox' \in [Workers -> Seq(Request)]
      /\ outbox' \in [Workers -> Seq(Response)]
  BY DEF Terminate, TypeOK
<1>2. CASE /\ remote' = [remote EXCEPT ![w] = NoRemote]
           /\ UNCHANGED <<cleanupFailed, faults>>
  <2>1. NoRemote \in Remote /\ NoRemote.phase = "none"
    BY DEF NoRemote, FreshRemote, Remote
  <2> QED BY <1>1, <1>2, <2>1 DEF TypeOK, NumbersAgree
<1>3. CASE Fault /\ cleanupFailed' = TRUE /\ UNCHANGED remote
  <2>1. faults' \in 0..MaxFaults BY <1>3, FaultType
  <2> QED BY <1>1, <1>3, <2>1 DEF TypeOK, NumbersAgree
<1> QED BY <1>2, <1>3 DEF Terminate

(* A retirement ends the job that the lost worker still holds.             *)
LEMMA RetireIInv ==
  ASSUME IInv, NEW w \in Workers, Retire(w)
  PROVE  IInv'
<1> USE DEF IInv, Bookkeeping
<1>1. /\ w \in retiring /\ Terminate(w) /\ retiring' = retiring \ {w}
      /\ UNCHANGED <<nextJob, workers, workersStarted, installed, closing,
                     terminated, dispatching>>
  BY DEF Retire
<1>2. /\ inbox' \in [Workers -> Seq(Request)]
      /\ outbox' \in [Workers -> Seq(Response)]
      /\ remote' \in [Workers -> Remote]
      /\ cleanupFailed' \in BOOLEAN /\ faults' \in 0..MaxFaults
      /\ \A v \in Workers : remote'[v].phase # "none" => remote'[v].running # NoJob
  BY <1>1, TerminateFacts
<1>3. CASE busy[w] = NoJob
  <2>1. UNCHANGED <<job, queueVars, slotVars>> BY <1>3 DEF Retire
  <2>2. TypeOK' BY <1>1, <1>2, <2>1 DEF TypeOK, queueVars, slotVars
  <2>3. QueuesAgree' BY <2>1 DEF QueuesAgree, queueVars, Waiting, Pending
  <2>4. SlotsAgree' BY <1>1, <1>3, <2>1 DEF SlotsAgree, slotVars, Pending
  <2>5. IdleAgrees' BY <1>1, <2>1 DEF IdleAgrees, slotVars
  <2>6. NumbersAgree' BY <1>1, <1>2, <2>1 DEF NumbersAgree, Pending
  <2> QED BY <2>2, <2>3, <2>4, <2>5, <2>6
<1>4. CASE busy[w] # NoJob
  <2>1. Finish(busy[w], "error") BY <1>4 DEF Retire
  <2>2. busy[w] \in Pending BY <1>4 DEF SlotsAgree
  <2>3. "error" \in Settled BY DEF Settled
  <2>4. Bookkeeping'
    <3>1. retiring' \subseteq retiring BY <1>1
    <3>2. \A v \in Workers : v \in retiring \ retiring' => busy[v] = busy[w]
      BY <1>1
    <3>3. UNCHANGED <<nextJob, workers, workersStarted, closing>> BY <1>1
    <3> QED BY <1>2, <2>1, <2>2, <2>3, <3>1, <3>2, <3>3, FinishIInv
  <2>5. TypeOK'
    BY <1>1, <1>2, <2>1, <2>2, <2>3, FinishFacts DEF TypeOK
  <2> QED BY <2>4, <2>5
<1> QED BY <1>3, <1>4

(* close(): queued jobs end, assigned ones keep their slots.               *)
LEMMA CloseIInv ==
  ASSUME IInv, Close
  PROVE  IInv'
<1> USE DEF IInv, Bookkeeping
<1>1. PICK lost \in SUBSET (Cancelled \intersect workers) :
        /\ faults + Cardinality(lost) <= MaxFaults
        /\ faults' = faults + Cardinality(lost)
        /\ workers' = workers \ lost
        /\ retiring' = retiring \union lost
        /\ inbox' = [w \in Workers |->
                       IF w \in Cancelled \ lost
                       THEN Append(inbox[w], Cancel(busy[w])) ELSE inbox[w]]
  BY DEF Close
<1>2. /\ closing' = "draining" /\ required' = <<>> /\ speculative' = <<>>
      /\ job' = [j \in JobIds |->
                   IF j \notin Pending THEN job[j]
                   ELSE IF job[j].worker = NoWorker THEN Ended(j, "error")
                        ELSE [job[j] EXCEPT !.aborted = TRUE]]
      /\ UNCHANGED <<nextJob, workersStarted, slotVars, installed, terminated,
                     cleanupFailed, dispatching, outbox, remote>>
  BY DEF Close
<1>3. ASSUME NEW j \in JobIds
      PROVE  /\ job'[j] \in Job /\ job'[j].worker = job[j].worker
             /\ j \notin Pending => job'[j] = job[j]
             /\ Waiting(j) => job'[j].status = "error"
             /\ j \in Pending /\ ~Waiting(j) =>
                  /\ job'[j].status = "pending"
                  /\ job'[j].callback = job[j].callback
  <2>1. job[j] \in Job BY DEF TypeOK
  <2>2. CASE j \notin Pending BY <1>2, <2>1, <2>2 DEF Waiting
  <2>3. CASE j \in Pending /\ job[j].worker = NoWorker
    <3>1. job'[j] = Ended(j, "error") BY <1>2, <2>3
    <3>2. /\ Ended(j, "error") \in Job
          /\ Ended(j, "error").worker = job[j].worker
          /\ Ended(j, "error").status = "error"
      BY <2>1 DEF Ended, Unsubmitted, Job, Priority, Settled
    <3> QED BY <2>3, <3>1, <3>2 DEF Waiting
  <2>4. CASE j \in Pending /\ job[j].worker # NoWorker
    <3>1. job'[j] = [job[j] EXCEPT !.aborted = TRUE] BY <1>2, <2>4
    <3>2. job[j].status = "pending" BY <2>4 DEF Pending
    <3> QED BY <2>1, <2>4, <3>1, <3>2 DEF Waiting, Job
  <2> QED BY <2>2, <2>3, <2>4
<1>4. Pending' = {j \in Pending : ~Waiting(j)}
  BY <1>3 DEF Pending, Waiting
<1>5. ASSUME NEW w \in Cancelled
      PROVE  w \in Workers /\ busy[w] \in JobIds
  <2>1. PICK j \in Pending : job[j].worker = w /\ w # NoWorker
    BY DEF Cancelled
  <2>2. j \in JobIds /\ job[j] \in Job BY DEF Pending, TypeOK
  <2>3. busy[w] = j BY <2>1 DEF SlotsAgree
  <2>4. w \in Workers BY <2>1, <2>2 DEF Job
  <2> QED BY <2>2, <2>3, <2>4
<1>6. faults' \in 0..MaxFaults
  <2>1. IsFiniteSet(Workers)
    BY FS_Interval, SizeAssumption, BoundAssumption DEF Workers
  <2>2. IsFiniteSet(lost) BY <2>1, FS_Subset DEF TypeOK
  <2>3. Cardinality(lost) \in Nat BY <2>2, FS_CardinalityType
  <2> QED BY <1>1, <2>3, BoundAssumption DEF TypeOK
<1>7. inbox' \in [Workers -> Seq(Request)]
  <2>1. ASSUME NEW w \in Workers
        PROVE  (IF w \in Cancelled \ lost
                THEN Append(inbox[w], Cancel(busy[w])) ELSE inbox[w])
                 \in Seq(Request)
    <3>1. inbox[w] \in Seq(Request) BY DEF TypeOK
    <3>2. w \in Cancelled => Cancel(busy[w]) \in Request
      BY <1>5 DEF Cancel, Request
    <3> QED BY <3>1, <3>2
  <2> QED BY <1>1, <2>1
<1>8. TypeOK'
  <2>1. job' \in [JobIds -> Job] BY <1>2, <1>3
  <2>2. workers' \subseteq Workers /\ retiring' \subseteq Workers
    BY <1>1 DEF TypeOK
  <2> QED BY <1>2, <1>6, <1>7, <2>1, <2>2 DEF TypeOK, slotVars
<1>9. QueuesAgree'
  <2>1. ASSUME NEW j \in JobIds PROVE ~Waiting(j)'
    BY <1>3, <1>4 DEF Waiting
  <2> QED BY <1>2, <2>1, EmptyQueue DEF QueuesAgree
<1>10. ASSUME NEW w \in Workers, busy[w] # NoJob
       PROVE  busy[w] \in Pending' /\ job'[busy[w]].worker = w
  <2>1. busy[w] \in Pending /\ job[busy[w]].worker = w
    BY <1>10 DEF SlotsAgree
  <2>2. w # NoWorker BY NoneAssumption DEF Workers
  <2> QED BY <1>3, <1>4, <2>1, <2>2 DEF Waiting, Pending
<1>11. SlotsAgree'
  <2>1. ASSUME NEW j \in Pending', job'[j].worker # NoWorker
        PROVE  busy[job'[j].worker] = j
    BY <1>3, <1>4, <2>1 DEF SlotsAgree, Pending
  <2>2. ASSUME NEW w \in Workers, busy[w] # NoJob
        PROVE  w \in workers' \union retiring'
    BY <1>1, <2>2 DEF SlotsAgree
  <2> QED BY <1>2, <1>10, <2>1, <2>2 DEF SlotsAgree, slotVars
<1>12. IdleAgrees'
  <2>1. \A w \in lost : busy[w] # NoJob
    BY <1>1, <1>5, NoneAssumption DEF JobIds
  <2> QED BY <1>1, <1>2, <2>1 DEF IdleAgrees, slotVars
<1>13. NumbersAgree'
  <2>1. workers' \intersect retiring' = {} BY <1>1 DEF NumbersAgree
  <2>2. \A w \in workers' \union retiring' : w <= workersStarted
    BY <1>1 DEF NumbersAgree
  <2>3. \A j \in JobIds : j >= nextJob => job'[j].status = "unsubmitted"
    BY <1>3 DEF NumbersAgree, Pending
  <2>4. \A j \in Pending' : job'[j].callback \in Callbacks
    BY <1>3, <1>4 DEF NumbersAgree, Pending
  <2> QED BY <1>2, <2>1, <2>2, <2>3, <2>4 DEF NumbersAgree
<1> QED BY <1>8, <1>9, <1>11, <1>12, <1>13

(* The steps of #dispatch and close() that leave the bookkeeping alone.    *)
LEMMA QuietIInv ==
  ASSUME IInv, DispatchReturns \/ CloseDrained
  PROVE  IInv'
<1> USE DEF IInv, Bookkeeping
<1>1. UNCHANGED <<nextJob, job, queueVars, workers, workersStarted, slotVars,
                  installed, retiring, terminated, cleanupFailed, wireVars,
                  remote, faults>>
  BY DEF DispatchReturns, CloseDrained, closeVars
<1>2. QueuesAgree' /\ SlotsAgree' /\ IdleAgrees'
  BY <1>1 DEF QueuesAgree, SlotsAgree, IdleAgrees, Waiting, Pending, queueVars,
              slotVars
<1>3. dispatching' \in BOOLEAN
  BY DEF DispatchReturns, CloseDrained, TypeOK
<1>4. /\ closing' \in {"open", "draining", "terminating", "closed"}
      /\ closing' \in {"terminating", "closed"} => Pending' = {}
  BY <1>1
  DEF DispatchReturns, CloseDrained, closeVars, TypeOK, NumbersAgree, Pending
<1>5. TypeOK'
  BY <1>1, <1>3, <1>4 DEF TypeOK, queueVars, slotVars, wireVars
<1>6. NumbersAgree' BY <1>1, <1>4 DEF NumbersAgree, Pending
<1> QED BY <1>2, <1>5, <1>6

(* close() terminates a detached worker.                                   *)
LEMMA CloseTerminatesIInv ==
  ASSUME IInv, NEW w \in Workers, CloseTerminates(w)
  PROVE  IInv'
<1> USE DEF IInv, Bookkeeping
<1>1. /\ Terminate(w) /\ terminated' = terminated \union {w}
      /\ UNCHANGED <<nextJob, job, queueVars, workers, workersStarted, slotVars,
                     installed, retiring, closing, dispatching>>
  BY DEF CloseTerminates
<1>2. /\ inbox' \in [Workers -> Seq(Request)]
      /\ outbox' \in [Workers -> Seq(Response)]
      /\ remote' \in [Workers -> Remote]
      /\ cleanupFailed' \in BOOLEAN /\ faults' \in 0..MaxFaults
      /\ \A v \in Workers : remote'[v].phase # "none" => remote'[v].running # NoJob
  BY <1>1, TerminateFacts
<1>3. QueuesAgree' /\ SlotsAgree' /\ IdleAgrees'
  BY <1>1 DEF QueuesAgree, SlotsAgree, IdleAgrees, Waiting, Pending, queueVars,
              slotVars
<1>4. TypeOK' BY <1>1, <1>2 DEF TypeOK, queueVars, slotVars
<1>5. NumbersAgree' BY <1>1, <1>2 DEF NumbersAgree, Pending
<1> QED BY <1>3, <1>4, <1>5

(* close() forgets the workers only when none has a job.                   *)
LEMMA ClosedIInv ==
  ASSUME IInv, Closed
  PROVE  IInv'
<1> USE DEF IInv, Bookkeeping
<1>1. /\ closing = "terminating" /\ closing' = "closed" /\ retiring = {}
      /\ workers' = {} /\ idle' = <<>>
      /\ UNCHANGED <<nextJob, job, queueVars, workersStarted, busy,
                     activeSpeculative, installed, retiring, terminated,
                     cleanupFailed, dispatching, wireVars, remote, faults>>
  BY DEF Closed
<1>2. Pending = {} BY <1>1 DEF NumbersAgree
<1>3. QueuesAgree' BY <1>1 DEF QueuesAgree, Waiting, Pending, queueVars
<1>4. SlotsAgree' BY <1>1, <1>2 DEF SlotsAgree, Pending
<1>5. IdleAgrees' BY <1>1, EmptyQueue DEF IdleAgrees
<1>6. TypeOK' BY <1>1 DEF TypeOK, queueVars, wireVars
<1>7. NumbersAgree' BY <1>1, <1>2 DEF NumbersAgree, Pending
<1> QED BY <1>3, <1>4, <1>5, <1>6, <1>7

(* A step of a worker changes nothing that the host keeps.                 *)
LEMMA RemoteStepIInv ==
  ASSUME IInv, HostUnchanged,
         inbox' \in [Workers -> Seq(Request)],
         outbox' \in [Workers -> Seq(Response)],
         faults' \in 0..MaxFaults,
         NEW w \in Workers, NEW r \in Remote, remote' = [remote EXCEPT ![w] = r],
         r.phase # "none" => r.running # NoJob
  PROVE  IInv'
<1> USE DEF IInv, Bookkeeping
<1>1. UNCHANGED <<nextJob, job, queueVars, workers, workersStarted, slotVars,
                  installed, retiring, closeVars, dispatching>>
  BY DEF HostUnchanged
<1>2. remote' \in [Workers -> Remote] BY DEF TypeOK
<1>3. \A v \in Workers : remote'[v].phase # "none" => remote'[v].running # NoJob
  BY DEF NumbersAgree, TypeOK
<1>4. QueuesAgree' /\ SlotsAgree' /\ IdleAgrees'
  BY <1>1 DEF QueuesAgree, SlotsAgree, IdleAgrees, Waiting, Pending, queueVars,
              slotVars
<1>5. TypeOK' BY <1>1, <1>2 DEF TypeOK, queueVars, slotVars, closeVars
<1>6. NumbersAgree' BY <1>1, <1>3 DEF NumbersAgree, Pending, closeVars
<1> QED BY <1>4, <1>5, <1>6

(* A reply is a response of the worker to the job that it runs.            *)
LEMMA ReplyType ==
  ASSUME IInv, NEW w \in Workers, remote[w].phase # "none",
         NEW kind \in {"started", "returned", "cancelled", "failed"},
         Reply(w, kind)
  PROVE  outbox' \in [Workers -> Seq(Response)]
<1> USE DEF IInv, Bookkeeping
<1>1. remote[w].running \in JobIds BY DEF TypeOK, Remote, NumbersAgree
<1>2. [kind |-> kind, job |-> remote[w].running] \in Response
  BY <1>1 DEF Response
<1>3. CASE w \in workers
  BY <1>2, <1>3, PostOneType DEF Reply, TypeOK
<1>4. CASE w \notin workers BY <1>4 DEF Reply, TypeOK
<1> QED BY <1>3, <1>4

(* Every step of serveWorker keeps the invariant.                          *)
LEMMA WorkerIInv ==
  ASSUME IInv, NEW w \in Workers, Worker(w)
  PROVE  IInv'
<1> USE DEF IInv, Bookkeeping
<1> DEFINE r == remote[w]
           m == Head(inbox[w])
           ProgramState == {"absent", "fresh", "live", "broken"}
<1>1. r \in Remote /\ (r.phase # "none" => r.running # NoJob)
  BY DEF TypeOK, NumbersAgree
<1>2. NoRemote \in Remote /\ NoRemote.phase = "none"
  BY DEF NoRemote, FreshRemote, Remote
<1>3. UNCHANGED <<inbox, outbox, faults>> =>
        /\ inbox' \in [Workers -> Seq(Request)]
        /\ outbox' \in [Workers -> Seq(Response)] /\ faults' \in 0..MaxFaults
  BY DEF TypeOK
<1>4. ASSUME NEW kind, Receives(w, kind), Consume(w)
      PROVE  m \in Request /\ m.kind = kind /\ inbox' \in [Workers -> Seq(Request)]
  BY <1>4, ReceiveType DEF Receives, Consume, TypeOK
<1>5. CASE RemoteInstall(w)
  <2>1. m \in Request /\ m.kind = "install" /\ inbox' \in [Workers -> Seq(Request)]
    BY <1>4, <1>5 DEF RemoteInstall
  <2>2. HostUnchanged /\ UNCHANGED <<outbox, faults>> BY <1>5 DEF RemoteInstall
  <2>3. CASE remote' = [remote EXCEPT ![w] = NoRemote]
    BY <1>2, <2>1, <2>2, <2>3, RemoteStepIInv DEF TypeOK
  <2>4. CASE remote' = [remote EXCEPT ![w].programs[m.program] = "fresh"]
    <3> DEFINE n == [r EXCEPT !.programs = [r.programs EXCEPT ![m.program] = "fresh"]]
    <3>1. n \in Remote /\ n.phase = r.phase /\ n.running = r.running
      BY <1>1 DEF Remote
    <3>2. remote' = [remote EXCEPT ![w] = n] BY <2>4
    <3> QED BY <1>1, <2>1, <2>2, <3>1, <3>2, RemoteStepIInv DEF TypeOK
  <2> QED BY <1>5, <2>3, <2>4 DEF RemoteInstall, Dies
<1>6. CASE RemoteUninstall(w)
  <2>1. m \in Request /\ inbox' \in [Workers -> Seq(Request)]
    BY <1>4, <1>6 DEF RemoteUninstall
  <2>2. HostUnchanged /\ UNCHANGED outbox BY <1>6 DEF RemoteUninstall
  <2>3. faults' \in 0..MaxFaults
    BY <1>6, FaultType DEF RemoteUninstall, TypeOK
  <2>4. CASE remote' = [remote EXCEPT ![w] = NoRemote]
    BY <1>2, <2>1, <2>2, <2>3, <2>4, RemoteStepIInv DEF TypeOK
  <2>5. ASSUME NEW b \in BOOLEAN,
               remote' = [remote EXCEPT ![w].programs[m.program] = "absent",
                                        ![w].poisoned = b]
        PROVE  IInv'
    <3> DEFINE n == [r EXCEPT !.programs = [r.programs EXCEPT ![m.program] = "absent"],
                              !.poisoned = b]
    <3>1. n \in Remote /\ n.phase = r.phase /\ n.running = r.running
      BY <1>1 DEF Remote
    <3>2. remote' = [remote EXCEPT ![w] = n] BY <2>5 DEF TypeOK, Remote
    <3> QED BY <1>1, <2>1, <2>2, <2>3, <3>1, <3>2, RemoteStepIInv DEF TypeOK
  <2>6. \/ remote' = [remote EXCEPT ![w] = NoRemote]
        \/ \E b \in BOOLEAN :
             remote' = [remote EXCEPT ![w].programs[m.program] = "absent",
                                      ![w].poisoned = b]
    BY <1>1, <1>6 DEF RemoteUninstall, Dies, Remote, TypeOK
  <2> QED BY <2>4, <2>5, <2>6
<1>7. CASE RemoteCancel(w)
  <2>1. inbox' \in [Workers -> Seq(Request)]
    BY <1>4, <1>7 DEF RemoteCancel
  <2>2. HostUnchanged /\ UNCHANGED <<outbox, faults>> BY <1>7 DEF RemoteCancel
  <2> DEFINE n == [r EXCEPT !.aborted = r.aborted \/ Cancels(w, m.job)]
  <2>3. n \in Remote /\ n.phase = r.phase /\ n.running = r.running
    BY <1>1 DEF Remote, Cancels
  <2>4. remote' = [remote EXCEPT ![w] = n] BY <1>7 DEF RemoteCancel
  <2> QED BY <1>1, <2>1, <2>2, <2>3, <2>4, RemoteStepIInv DEF TypeOK
<1>8. CASE RemoteRun(w)
  <2>1. m \in Request /\ m.kind = "run" /\ inbox' \in [Workers -> Seq(Request)]
    BY <1>4, <1>8 DEF RemoteRun
  <2>2. HostUnchanged /\ UNCHANGED <<outbox, faults>> BY <1>8 DEF RemoteRun
  <2>3. CASE remote' = [remote EXCEPT ![w] = NoRemote]
    BY <1>2, <2>1, <2>2, <2>3, RemoteStepIInv DEF TypeOK
  <2>4. CASE remote' = [remote EXCEPT ![w].running = m.job,
                                      ![w].program = m.program,
                                      ![w].phase = "waiting",
                                      ![w].aborted = FALSE]
    <3> DEFINE n == [r EXCEPT !.running = m.job, !.program = m.program,
                              !.phase = "waiting", !.aborted = FALSE]
    <3>1. m.job \in JobIds /\ m.program \in Programs
      BY <2>1 DEF Request
    <3>2. m.job # NoJob BY <3>1, NoneAssumption DEF JobIds
    <3>3. n \in Remote /\ n.running = m.job BY <1>1, <3>1 DEF Remote
    <3>4. remote' = [remote EXCEPT ![w] = n] BY <2>4 DEF TypeOK, Remote
    <3> QED BY <2>1, <2>2, <3>2, <3>3, <3>4, RemoteStepIInv DEF TypeOK
  <2> QED BY <1>8, <2>3, <2>4 DEF RemoteRun, Dies
<1>9. ASSUME NEW kind \in {"started", "returned", "cancelled", "failed"},
             NEW state \in ProgramState, r.phase # "none",
             Respond(w, kind, state), HostUnchanged,
             UNCHANGED inbox, faults' \in 0..MaxFaults
      PROVE  IInv'
  <2> DEFINE n == [r EXCEPT
                     !.programs = [r.programs EXCEPT ![r.program] = state],
                     !.running = NoJob, !.program = NoJob, !.phase = "none",
                     !.aborted = FALSE]
  <2>1. n \in Remote /\ n.phase = "none" BY <1>1, <1>9 DEF Remote
  <2>2. remote' = [remote EXCEPT ![w] = n] BY <1>9 DEF Respond, TypeOK, Remote
  <2>3. outbox' \in [Workers -> Seq(Response)] BY <1>9, ReplyType DEF Respond
  <2> QED BY <1>9, <2>1, <2>2, <2>3, RemoteStepIInv DEF TypeOK
<1>10. ErrorKind(w) \in {"started", "returned", "cancelled", "failed"}
  BY DEF ErrorKind
<1>11. CASE RemoteStarts(w)
  <2> DEFINE n == [r EXCEPT
                     !.programs = [r.programs EXCEPT ![r.program] = "live"],
                     !.phase = "executing"]
  <2>1. n \in Remote /\ n.running = r.running BY <1>1 DEF Remote
  <2>2. remote' = [remote EXCEPT ![w] = n] BY <1>11 DEF RemoteStarts
  <2>3. r.phase # "none" /\ HostUnchanged /\ UNCHANGED <<inbox, faults>>
        /\ Reply(w, "started")
    BY <1>11 DEF RemoteStarts
  <2>4. outbox' \in [Workers -> Seq(Response)] BY <2>3, ReplyType
  <2> QED BY <1>1, <2>1, <2>2, <2>3, <2>4, RemoteStepIInv DEF TypeOK
<1>12. CASE RemoteRefuses(w)
  <2>1. /\ r.phase # "none" /\ HostUnchanged /\ UNCHANGED <<inbox, faults>>
        /\ Respond(w, ErrorKind(w), r.programs[r.program])
        /\ Blocked(w)
    BY <1>12 DEF RemoteRefuses
  <2>2. r.program \in Programs => r.programs[r.program] \in ProgramState
    BY <1>1 DEF Remote
  <2>3. faults' \in 0..MaxFaults BY <2>1 DEF TypeOK
  <2>4. CASE r.program \in Programs
    BY <1>9, <1>10, <2>1, <2>2, <2>3, <2>4
  <2>5. CASE r.program \notin Programs
    <3> DEFINE n == [r EXCEPT !.running = NoJob, !.program = NoJob,
                              !.phase = "none", !.aborted = FALSE]
    <3>1. n \in Remote /\ n.phase = "none" BY <1>1 DEF Remote
    <3>2. [r.programs EXCEPT ![r.program] = r.programs[r.program]] = r.programs
      BY <1>1, <2>5 DEF Remote
    <3>3. remote' = [remote EXCEPT ![w] = n]
      BY <2>1, <3>2, <1>1 DEF Respond, TypeOK, Remote
    <3>4. outbox' \in [Workers -> Seq(Response)]
      BY <1>10, <2>1, ReplyType DEF Respond
    <3> QED BY <2>1, <2>3, <3>1, <3>3, <3>4, RemoteStepIInv DEF TypeOK
  <2> QED BY <2>4, <2>5
<1>13. CASE RemoteStartFails(w)
  <2>1. r.phase # "none" /\ HostUnchanged /\ UNCHANGED inbox /\ Fault
    BY <1>13 DEF RemoteStartFails
  <2>2. faults' \in 0..MaxFaults BY <2>1, FaultType
  <2>3. \E state \in ProgramState : Respond(w, ErrorKind(w), state)
    BY <1>13 DEF RemoteStartFails
  <2> QED BY <1>9, <1>10, <2>1, <2>2, <2>3
<1>14. CASE RemoteReturns(w)
  <2>1. /\ r.phase # "none" /\ HostUnchanged /\ UNCHANGED <<inbox, faults>>
        /\ Respond(w, "returned", "live")
    BY <1>14 DEF RemoteReturns
  <2>2. faults' \in 0..MaxFaults BY <2>1 DEF TypeOK
  <2> QED BY <1>9, <2>1, <2>2
<1>15. CASE RemoteFails(w)
  <2>1. r.phase # "none" /\ HostUnchanged /\ UNCHANGED <<inbox, faults>>
    BY <1>15 DEF RemoteFails
  <2>2. \E state \in ProgramState : Respond(w, ErrorKind(w), state)
    BY <1>15 DEF RemoteFails
  <2>3. faults' \in 0..MaxFaults BY <2>1 DEF TypeOK
  <2> QED BY <1>9, <1>10, <2>1, <2>2, <2>3
<1>16. CASE RemoteCrashes(w)
  <2>1. /\ remote' = [remote EXCEPT ![w] = NoRemote] /\ HostUnchanged
        /\ UNCHANGED wireVars /\ Fault
    BY <1>16 DEF RemoteCrashes, Dies
  <2>2. faults' \in 0..MaxFaults BY <2>1, FaultType
  <2> QED BY <1>2, <2>1, <2>2, RemoteStepIInv DEF TypeOK, wireVars
<1> QED BY <1>5, <1>6, <1>7, <1>8, <1>11, <1>12, <1>13, <1>14, <1>15, <1>16
     DEF Worker

-----------------------------------------------------------------------------
(* A step that changes nothing keeps the invariant.                        *)
LEMMA StutterIInv ==
  ASSUME IInv, UNCHANGED vars
  PROVE  IInv'
<1>1. TypeOK'
  BY DEF vars, IInv, TypeOK, queueVars, slotVars, closeVars, wireVars
<1>2. Pending' = Pending BY DEF vars, Pending
<1>3. QueuesAgree'
  BY <1>2 DEF vars, IInv, Bookkeeping, QueuesAgree, Waiting, queueVars
<1>4. SlotsAgree'
  BY <1>2 DEF vars, IInv, Bookkeeping, SlotsAgree, slotVars
<1>5. IdleAgrees'
  BY DEF vars, IInv, Bookkeeping, IdleAgrees, slotVars
<1>6. NumbersAgree'
  BY <1>2 DEF vars, IInv, Bookkeeping, NumbersAgree, closeVars
<1> QED BY <1>1, <1>3, <1>4, <1>5, <1>6 DEF IInv, Bookkeeping

(* Every step of the host and of the workers keeps the invariant.          *)
LEMMA NextIInv ==
  ASSUME IInv, [Next]_vars
  PROVE  IInv'
<1>1. CASE Host
  <2>1. CASE \E c \in Callbacks, p \in Priority : Execute(c, p)
    BY <2>1, ExecuteIInv
  <2>2. CASE \E c \in Callbacks : Promote(c) BY <2>2, PromoteIInv
  <2>3. CASE \E j \in JobIds : AbortQueued(j) BY <2>3, AbortQueuedIInv
  <2>4. CASE \E j \in JobIds : AbortRunning(j) BY <2>4, AbortRunningIInv
  <2>5. CASE \E j \in JobIds, w \in Workers : Place(j, w)
    BY <2>5, PlaceIInv
  <2>6. CASE \E j \in JobIds, w \in Workers : PlaceFails(j, w)
    BY <2>6, PlaceFailsIInv
  <2>7. CASE \E j \in JobIds : StartFails(j) BY <2>7, StartFailsIInv
  <2>8. CASE DispatchReturns \/ CloseDrained BY <2>8, QuietIInv
  <2>9. CASE \E w \in Workers : OnMessage(w) BY <2>9, OnMessageIInv
  <2>10. CASE \E w \in Workers : OnError(w) BY <2>10, OnErrorIInv
  <2>11. CASE \E w \in Workers : Retire(w) BY <2>11, RetireIInv
  <2>12. CASE Close BY <2>12, CloseIInv
  <2>13. CASE \E w \in Workers : CloseTerminates(w)
    BY <2>13, CloseTerminatesIInv
  <2>14. CASE Closed BY <2>14, ClosedIInv
  <2> QED BY <1>1, <2>1, <2>2, <2>3, <2>4, <2>5, <2>6, <2>7, <2>8, <2>9,
             <2>10, <2>11, <2>12, <2>13, <2>14 DEF Host
<1>2. CASE \E w \in Workers : Worker(w) BY <1>2, WorkerIInv
<1>3. CASE UNCHANGED vars BY <1>3, StutterIInv
<1> QED BY <1>1, <1>2, <1>3 DEF Next

(* The inductive invariant holds of every behaviour.                       *)
THEOREM Inductive == Spec => []IInv
<1>1. Init => IInv BY InitIInv
<1>2. IInv /\ [Next]_vars => IInv' BY NextIInv
<1> QED BY <1>1, <1>2, PTL DEF Spec

(***************************************************************************)
(* worker_executor.ts keeps its types and no worker ever holds more than   *)
(* CacheSize programs, whatever the pool size and the number of programs.  *)
(***************************************************************************)
THEOREM TypeInvariant == Spec => []TypeOK
<1>1. IInv => TypeOK BY DEF IInv
<1> QED BY <1>1, Inductive, PTL

(***************************************************************************)
(* Queues, slots and jobs of worker_executor.ts agree in every reachable   *)
(* state, so #finish never completes a job twice, for every pool size and  *)
(* every number of jobs, programs and faults.                              *)
(***************************************************************************)
THEOREM BookkeepingInvariant == Spec => []Bookkeeping
<1>1. IInv => Bookkeeping BY DEF IInv
<1> QED BY <1>1, Inductive, PTL

-----------------------------------------------------------------------------
(***************************************************************************)
(* The speculation budget is exact and leaves a worker to required work,   *)
(* and no required job is left waiting while there is capacity for it.     *)
(***************************************************************************)

(* The speculative jobs that hold a worker are finitely many.              *)
LEMMA SpeculatingFinite == IsFiniteSet(Speculating)
<1>1. IsFiniteSet(JobIds) BY FS_Interval, BoundAssumption DEF JobIds
<1>2. Speculating \in SUBSET JobIds BY DEF Speculating, Pending
<1> QED BY <1>1, <1>2, FS_Subset

(* A step that moves no speculative job in or out of a worker.             *)
LEMMA SameSpeculating ==
  ASSUME SpeculationReserve,
         \A j \in JobIds : j \in Speculating' <=> j \in Speculating,
         activeSpeculative' = activeSpeculative
  PROVE  SpeculationReserve'
<1>1. Speculating' = Speculating BY DEF Speculating, Pending
<1> QED BY <1>1 DEF SpeculationReserve

(* One more speculative job gets a worker, and the budget allows it.       *)
LEMMA JoinsSpeculating ==
  ASSUME SpeculationReserve, NEW j \in JobIds \ Speculating,
         Speculating' = Speculating \union {j},
         activeSpeculative' = activeSpeculative + 1,
         activeSpeculative < Size - 1
  PROVE  SpeculationReserve'
<1>1. Cardinality(Speculating \union {j}) = Cardinality(Speculating) + 1
  BY SpeculatingFinite, FS_AddElement
<1>2. Cardinality(Speculating) \in Nat BY SpeculatingFinite, FS_CardinalityType
<1> QED BY <1>1, <1>2, SizeAssumption DEF SpeculationReserve

(* One speculative job gives up its worker or its priority.                *)
LEMMA LeavesSpeculating ==
  ASSUME SpeculationReserve, NEW j \in Speculating,
         Speculating' = Speculating \ {j},
         activeSpeculative' = activeSpeculative - 1
  PROVE  SpeculationReserve'
<1>1. Cardinality(Speculating \ {j}) = Cardinality(Speculating) - 1
  BY SpeculatingFinite, FS_RemoveElement
<1>2. Cardinality(Speculating) \in Nat BY SpeculatingFinite, FS_CardinalityType
<1> QED BY <1>1, <1>2, SizeAssumption DEF SpeculationReserve

(* A change of one job's record that neither assigns nor settles it and    *)
(* keeps its priority leaves the budget alone.                             *)
LEMMA SameRecord ==
  ASSUME TypeOK, SpeculationReserve,
         \A k \in JobIds : /\ job'[k].status = job[k].status
                           /\ job'[k].worker = job[k].worker
                           /\ job'[k].priority = job[k].priority,
         activeSpeculative' = activeSpeculative
  PROVE  SpeculationReserve'
<1>1. \A j \in JobIds : j \in Speculating' <=> j \in Speculating
  BY DEF Speculating, Pending
<1> QED BY <1>1, SameSpeculating

(* #finish gives back exactly the share that the job held.                 *)
LEMMA FinishReserve ==
  ASSUME IInv, SpeculationReserve, NEW j \in Pending, NEW outcome \in Settled,
         Finish(j, outcome)
  PROVE  SpeculationReserve'
<1>1. /\ job' = [job EXCEPT ![j] = Ended(j, outcome)]
      /\ activeSpeculative' =
           IF job[j].worker # NoWorker /\ job[j].priority = "speculative"
           THEN activeSpeculative - 1 ELSE activeSpeculative
  BY DEF Finish
<1>2. /\ \A k \in JobIds : k # j => job'[k] = job[k]
      /\ Pending' = Pending \ {j}
  BY <1>1, EndedFacts DEF IInv
<1>3. Speculating' = Speculating \ {j} BY <1>2 DEF Speculating, Pending
<1>4. CASE j \in Speculating
  BY <1>1, <1>3, <1>4, LeavesSpeculating DEF Speculating
<1>5. CASE j \notin Speculating
  <2>1. activeSpeculative' = activeSpeculative BY <1>1, <1>5 DEF Speculating
  <2> QED BY <1>3, <1>5, <2>1, SameSpeculating
<1> QED BY <1>4, <1>5

(* A turn of the dispatch loop charges speculative jobs, and takes one     *)
(* only when the budget has a share left.                                  *)
LEMMA AssignReserve ==
  ASSUME IInv, SpeculationReserve, NEW j \in JobIds, NEW w \in Workers,
         Candidate(j), w \in Chosen, Assign(j, w)
  PROVE  SpeculationReserve'
<1> USE DEF IInv, Bookkeeping
<1>1. Waiting(j) /\ busy[w] = NoJob BY ChosenFacts
<1>2. /\ Pending' = Pending
      /\ \A k \in JobIds : /\ k # j => job'[k] = job[k]
                           /\ job'[k].priority = job[k].priority
      /\ job'[j].worker = w
  BY <1>1, AssignFacts
<1>3. w # NoWorker BY NoneAssumption DEF Workers
<1>4. activeSpeculative' = IF job[j].priority = "speculative"
                           THEN activeSpeculative + 1 ELSE activeSpeculative
  BY DEF Assign
<1>5. j \notin Speculating BY <1>1 DEF Speculating, Waiting
<1>6. CASE job[j].priority = "speculative"
  <2>1. Speculating' = Speculating \union {j}
    BY <1>1, <1>2, <1>3, <1>6 DEF Speculating, Waiting, Pending
  <2>2. activeSpeculative < Size - 1
    <3>1. ASSUME required # <<>>, j = Peek(required) PROVE FALSE
      <4>1. Linked(required, j) BY <3>1, PeekLinked DEF TypeOK
      <4> QED BY <1>6, <4>1 DEF QueuesAgree
    <3> QED BY <3>1 DEF Candidate
  <2> QED BY <1>4, <1>5, <1>6, <2>1, <2>2, JoinsSpeculating
<1>7. CASE job[j].priority # "speculative"
  <2>1. \A k \in JobIds : k \in Speculating' <=> k \in Speculating
    BY <1>1, <1>2, <1>7 DEF Speculating, Waiting, Pending
  <2> QED BY <1>4, <1>7, <2>1, SameSpeculating
<1> QED BY <1>6, <1>7

(* Promotion of a running job gives its share back; of a queued one, none. *)
LEMMA PromoteReserve ==
  ASSUME IInv, SpeculationReserve, NEW c \in Callbacks, Promote(c)
  PROVE  SpeculationReserve'
<1> USE DEF IInv
<1>1. PICK j \in Pending :
        /\ job[j].priority = "speculative"
        /\ job' = [job EXCEPT ![j] = [job[j] EXCEPT !.priority = "required"]]
        /\ IF job[j].worker = NoWorker
           THEN UNCHANGED activeSpeculative
           ELSE activeSpeculative' = activeSpeculative - 1
  BY DEF Promote
<1>2. j \in JobIds /\ job[j] \in Job BY DEF Pending, TypeOK
<1>3. /\ job'[j] = [job[j] EXCEPT !.priority = "required"]
      /\ \A k \in JobIds : k # j => job'[k] = job[k]
  BY <1>1, <1>2 DEF TypeOK
<1>4. /\ job'[j].priority = "required" /\ job'[j].status = job[j].status
  BY <1>2, <1>3 DEF Job
<1>5. Speculating' = Speculating \ {j}
  BY <1>3, <1>4 DEF Speculating, Pending
<1>6. CASE job[j].worker = NoWorker
  <2>1. j \notin Speculating BY <1>6 DEF Speculating
  <2> QED BY <1>1, <1>5, <1>6, <2>1, SameSpeculating
<1>7. CASE job[j].worker # NoWorker
  <2>1. j \in Speculating BY <1>1, <1>7 DEF Speculating
  <2> QED BY <1>1, <1>5, <1>7, <2>1, LeavesSpeculating
<1> QED BY <1>6, <1>7

(* Every step keeps the budget exact.                                      *)
LEMMA NextReserve ==
  ASSUME IInv, SpeculationReserve, [Next]_vars
  PROVE  SpeculationReserve'
<1> USE DEF IInv, Bookkeeping
<1>0. "error" \in Settled BY DEF Settled
<1>1. ASSUME NEW c \in Callbacks, NEW p \in Priority, Execute(c, p)
      PROVE  SpeculationReserve'
  <2> DEFINE new == [Unsubmitted EXCEPT !.callback = c, !.priority = p,
                                        !.status = "pending"]
  <2>1. /\ nextJob \in JobIds /\ job' = [job EXCEPT ![nextJob] = new]
        /\ activeSpeculative' = activeSpeculative
    BY <1>1, BoundAssumption DEF Execute, TypeOK, slotVars, JobIds
  <2>2. new.worker = NoWorker BY DEF Unsubmitted
  <2> HIDE DEF new
  <2>3. job'[nextJob].worker = NoWorker
        /\ \A k \in JobIds : k # nextJob => job'[k] = job[k]
    BY <2>1, <2>2 DEF TypeOK
  <2>4. nextJob \notin Speculating
    BY <2>1 DEF NumbersAgree, Speculating, Pending, JobIds
  <2>5. \A k \in JobIds : k \in Speculating' <=> k \in Speculating
    BY <2>3, <2>4 DEF Speculating, Pending
  <2> QED BY <2>1, <2>5, SameSpeculating
<1>2. ASSUME NEW j \in JobIds, AbortQueued(j)
      PROVE  SpeculationReserve'
  BY <1>0, <1>2, FinishReserve DEF AbortQueued
<1>3. ASSUME NEW j \in JobIds, AbortRunning(j)
      PROVE  SpeculationReserve'
  <2>1. /\ job' = [job EXCEPT ![j] = [job[j] EXCEPT !.aborted = TRUE]]
        /\ activeSpeculative' = activeSpeculative
    BY <1>3 DEF AbortRunning
  <2>2. job[j] \in Job BY DEF TypeOK
  <2>3. \A k \in JobIds : /\ job'[k].status = job[k].status
                          /\ job'[k].worker = job[k].worker
                          /\ job'[k].priority = job[k].priority
    BY <2>1, <2>2 DEF TypeOK, Job
  <2> QED BY <2>1, <2>3, SameRecord
<1>4. ASSUME NEW j \in JobIds, NEW w \in Workers, Place(j, w) \/ PlaceFails(j, w)
      PROVE  SpeculationReserve'
  BY <1>4, AssignReserve DEF Place, PlaceFails
<1>5. ASSUME NEW j \in JobIds, StartFails(j)
      PROVE  SpeculationReserve'
  <2>1. Candidate(j) /\ Finish(j, "error") BY <1>5 DEF StartFails
  <2>2. j \in Pending
    BY <2>1, PeekLinked DEF Candidate, TypeOK, QueuesAgree, Waiting
  <2> QED BY <1>0, <2>1, <2>2, FinishReserve
<1>6. ASSUME NEW w \in Workers, OnMessage(w)
      PROVE  SpeculationReserve'
  <2> DEFINE m == Head(outbox[w])
  <2>1. outbox[w] # <<>> BY <1>6 DEF OnMessage
  <2>2. m \in Response BY <2>1, ReceiveType DEF TypeOK
  <2>3. m.job \in JobIds BY <2>2 DEF Response
  <2>4. CASE Rejects(w, m)
    <3>1. UNCHANGED <<job, activeSpeculative>> BY <1>6, <2>4 DEF OnMessage
    <3> QED BY <3>1, SameRecord
  <2>5. CASE ~Rejects(w, m) /\ m.kind = "started"
    <3>1. /\ job' = [job EXCEPT ![m.job] = [job[m.job] EXCEPT !.started = TRUE]]
          /\ activeSpeculative' = activeSpeculative
      BY <1>6, <2>5 DEF OnMessage, slotVars
    <3>2. job[m.job] \in Job BY <2>3 DEF TypeOK
    <3> HIDE DEF m
    <3>3. \A k \in JobIds : /\ job'[k].status = job[k].status
                            /\ job'[k].worker = job[k].worker
                            /\ job'[k].priority = job[k].priority
      BY <2>3, <3>1, <3>2 DEF TypeOK, Job
    <3> QED BY <3>1, <3>3, SameRecord
  <2>6. CASE ~Rejects(w, m) /\ m.kind # "started"
    <3> DEFINE o == IF m.kind = "returned" /\ ~job[m.job].aborted
                    THEN "value" ELSE "error"
    <3>1. Finish(m.job, o) BY <1>6, <2>6 DEF OnMessage
    <3>2. o \in Settled BY DEF Settled
    <3>3. m.job \in Pending
      BY <2>3, <2>6, NoneAssumption DEF Rejects, SlotsAgree, JobIds
    <3> HIDE DEF o, m
    <3> QED BY <3>1, <3>2, <3>3, FinishReserve
  <2> QED BY <2>4, <2>5, <2>6
<1>7. ASSUME NEW w \in Workers, Retire(w)
      PROVE  SpeculationReserve'
  <2>1. CASE busy[w] = NoJob
    <3>1. UNCHANGED <<job, activeSpeculative>>
      BY <1>7, <2>1 DEF Retire, slotVars
    <3> QED BY <3>1, SameRecord
  <2>2. CASE busy[w] # NoJob
    <3>1. busy[w] \in Pending /\ Finish(busy[w], "error")
      BY <1>7, <2>2 DEF Retire, SlotsAgree
    <3> QED BY <1>0, <3>1, FinishReserve
  <2> QED BY <2>1, <2>2
<1>8. CASE Close
  <2>1. activeSpeculative' = activeSpeculative BY <1>8 DEF Close, slotVars
  <2>2. ASSUME NEW k \in JobIds
        PROVE  k \in Speculating' <=> k \in Speculating
    <3>1. job'[k] = IF k \notin Pending THEN job[k]
                    ELSE IF job[k].worker = NoWorker
                         THEN Ended(k, "error")
                         ELSE [job[k] EXCEPT !.aborted = TRUE]
      BY <1>8 DEF Close
    <3>2. job[k] \in Job BY DEF TypeOK
    <3>3. Ended(k, "error").status = "error" BY DEF Ended, Unsubmitted
    <3>4. CASE k \notin Pending BY <3>1, <3>4 DEF Speculating, Pending
    <3>5. CASE k \in Pending /\ job[k].worker = NoWorker
      BY <3>1, <3>3, <3>5 DEF Speculating, Pending
    <3>6. CASE k \in Pending /\ job[k].worker # NoWorker
      <4>1. /\ job'[k].status = job[k].status /\ job'[k].worker = job[k].worker
            /\ job'[k].priority = job[k].priority
        BY <3>1, <3>2, <3>6 DEF Job
      <4> QED BY <4>1 DEF Speculating, Pending
    <3> QED BY <3>4, <3>5, <3>6
  <2> QED BY <2>1, <2>2, SameSpeculating
<1>9. ASSUME UNCHANGED <<job, activeSpeculative>>
      PROVE  SpeculationReserve'
  BY <1>9, SameRecord
<1>10. CASE DispatchReturns \/ CloseDrained \/ Closed
  BY <1>9, <1>10 DEF DispatchReturns, CloseDrained, Closed, slotVars
<1>11. CASE \E w \in Workers : OnError(w) \/ CloseTerminates(w)
  BY <1>9, <1>11 DEF OnError, CloseTerminates, slotVars
<1>12. CASE \E w \in Workers : Worker(w)
  <2>1. HostUnchanged
    BY <1>12 DEF Worker, RemoteInstall, RemoteUninstall, RemoteCancel,
                 RemoteRun, RemoteStarts, RemoteRefuses, RemoteStartFails,
                 RemoteReturns, RemoteFails, RemoteCrashes
  <2> QED BY <1>9, <2>1 DEF HostUnchanged, slotVars
<1>13. CASE UNCHANGED vars BY <1>9, <1>13 DEF vars, slotVars
<1> QED BY <1>1, <1>2, <1>3, <1>4, <1>5, <1>6, <1>7, <1>8, <1>10, <1>11, <1>12,
           <1>13, PromoteReserve DEF Next, Host

(***************************************************************************)
(* #activeSpeculative of worker_executor.ts counts the speculative jobs    *)
(* that hold a worker and stays below the pool size, so required work      *)
(* always finds a worker that no speculation occupies.                     *)
(***************************************************************************)
THEOREM SpeculationInvariant == Spec => []SpeculationReserve
<1>1. Init => SpeculationReserve
  <2> SUFFICES ASSUME Init PROVE SpeculationReserve OBVIOUS
  <2>1. \A j \in JobIds : job[j] = Unsubmitted BY DEF Init
  <2>2. Unsubmitted.worker = NoWorker BY DEF Unsubmitted
  <2>3. Speculating = {} BY <2>1, <2>2 DEF Speculating, Pending
  <2> QED BY <2>3, FS_EmptySet, SizeAssumption DEF Init, SpeculationReserve
<1>2. IInv /\ SpeculationReserve /\ [Next]_vars => SpeculationReserve'
  BY NextReserve
<1> QED BY <1>1, <1>2, Inductive, PTL DEF Spec
-----------------------------------------------------------------------------
(* A step that leaves the pool's capacity alone and queues no required job *)
(* strands none.                                                           *)
LEMMA SameCapacity ==
  ASSUME RequiredNotStranded,
         UNCHANGED <<idle, workers, closing, dispatching>>,
         required' # <<>> => required # <<>>
  PROVE  RequiredNotStranded'
BY DEF RequiredNotStranded, CanPlace

(* A queue from which an entry is unlinked was not empty.                  *)
LEMMA UnlinkNonempty ==
  ASSUME NEW j \in JobIds
  PROVE  Unlink(<<>>, j) = <<>>
<1>1. ~Linked(<<>>, j) BY DEF Linked
<1> QED BY <1>1 DEF Unlink

(* Every step that frees capacity dispatches, so none strands a job.       *)
LEMMA NextNotStranded ==
  ASSUME IInv, RequiredNotStranded, [Next]_vars
  PROVE  RequiredNotStranded'
<1> USE DEF IInv, Bookkeeping
<1>1. ASSUME dispatching' = (closing = "open"), closing' = closing
      PROVE  RequiredNotStranded'
  BY <1>1 DEF RequiredNotStranded
<1>2. ASSUME NEW w \in Workers, Lose(w), UNCHANGED <<required, closing>>
      PROVE  RequiredNotStranded'
  <2>1. CASE w \in workers BY <1>1, <1>2, <2>1 DEF Lose, CallDispatch
  <2>2. CASE w \notin workers BY <1>2, <2>2, SameCapacity DEF Lose
  <2> QED BY <2>1, <2>2
<1>3. CASE \/ \E c \in Callbacks, p \in Priority : Execute(c, p)
           \/ \E c \in Callbacks : Promote(c)
  BY <1>1, <1>3 DEF Execute, Promote, CallDispatch, closeVars
<1>4. ASSUME NEW j \in JobIds, AbortQueued(j)
      PROVE  RequiredNotStranded'
  <2>1. /\ required' = Unlink(required, j) /\ idle' = idle
        /\ UNCHANGED <<workers, closing, dispatching>>
    BY <1>4 DEF AbortQueued, Finish, closeVars
  <2>2. required' # <<>> => required # <<>> BY <2>1, UnlinkNonempty
  <2> QED BY <2>1, <2>2, SameCapacity
<1>5. ASSUME NEW j \in JobIds, AbortRunning(j)
      PROVE  RequiredNotStranded'
  <2>1. UNCHANGED <<required, closing>> /\ job[j].worker \in Workers
    BY <1>5 DEF AbortRunning, queueVars, closeVars, TypeOK, Job
  <2>2. CASE UNCHANGED <<workers, idle, dispatching>>
    BY <2>1, <2>2, SameCapacity
  <2>3. CASE Lose(job[j].worker) BY <1>2, <2>1, <2>3
  <2> QED BY <1>5, <2>2, <2>3 DEF AbortRunning
<1>6. ASSUME dispatching, dispatching' = dispatching
      PROVE  RequiredNotStranded'
  BY <1>6 DEF RequiredNotStranded
<1>7. CASE \/ \E j \in JobIds, w \in Workers : Place(j, w) \/ PlaceFails(j, w)
           \/ \E j \in JobIds : StartFails(j)
  BY <1>6, <1>7 DEF Place, PlaceFails, StartFails
<1>8. CASE DispatchReturns
  <2>1. /\ UNCHANGED <<required, idle, workers>>
        /\ CanPlace => \A j \in JobIds : ~Candidate(j)
    BY <1>8 DEF DispatchReturns, queueVars, slotVars
  <2>2. required # <<>> => Peek(required) \in JobIds /\ Candidate(Peek(required))
    BY PeekLinked DEF TypeOK, Candidate
  <2> QED BY <2>1, <2>2 DEF RequiredNotStranded, CanPlace
<1>9. ASSUME NEW w \in Workers, OnMessage(w)
      PROVE  RequiredNotStranded'
  <2> DEFINE m == Head(outbox[w])
  <2>1. closing' = closing BY <1>9 DEF OnMessage, closeVars
  <2>2. CASE Rejects(w, m)
    BY <1>2, <1>9, <2>1, <2>2 DEF OnMessage, queueVars
  <2>3. CASE ~Rejects(w, m) /\ m.kind = "started"
    BY <1>9, <2>1, <2>3, SameCapacity DEF OnMessage, queueVars, slotVars
  <2>4. CASE ~Rejects(w, m) /\ m.kind # "started"
    BY <1>1, <1>9, <2>1, <2>4 DEF OnMessage, CallDispatch
  <2> QED BY <2>2, <2>3, <2>4
<1>10. ASSUME NEW w \in Workers, OnError(w)
       PROVE  RequiredNotStranded'
  BY <1>2, <1>10 DEF OnError, queueVars, closeVars
<1>11. ASSUME NEW w \in Workers, Retire(w)
       PROVE  RequiredNotStranded'
  <2>1. w \in retiring /\ UNCHANGED <<workers, closing, dispatching>>
    BY <1>11 DEF Retire
  <2>2. CASE busy[w] = NoJob
    BY <1>11, <2>1, <2>2, SameCapacity DEF Retire, queueVars, slotVars
  <2>3. CASE busy[w] # NoJob
    <3>1. Finish(busy[w], "error") BY <1>11, <2>3 DEF Retire
    <3>2. busy[w] \in JobIds /\ job[busy[w]].worker = w
      BY <2>3 DEF SlotsAgree, TypeOK
    <3>3. w \notin workers BY <2>1 DEF NumbersAgree
    <3>4. w # NoWorker BY NoneAssumption DEF Workers
    <3>5. idle' = idle BY <3>1, <3>2, <3>3, <3>4 DEF Finish, Freed
    <3>6. required' = Unlink(required, busy[w]) BY <3>1 DEF Finish
    <3>7. required' # <<>> => required # <<>>
      BY <3>2, <3>6, UnlinkNonempty
    <3> QED BY <2>1, <3>5, <3>7, SameCapacity
  <2> QED BY <2>2, <2>3
<1>12. ASSUME closing' # "open" PROVE RequiredNotStranded'
  BY <1>12 DEF RequiredNotStranded
<1>13. CASE Close \/ CloseDrained \/ Closed
  BY <1>12, <1>13 DEF Close, CloseDrained, Closed
<1>14. CASE \E w \in Workers : CloseTerminates(w)
  BY <1>12, <1>14 DEF CloseTerminates
<1>15. CASE \E w \in Workers : Worker(w)
  <2>1. HostUnchanged
    BY <1>15 DEF Worker, RemoteInstall, RemoteUninstall, RemoteCancel,
                 RemoteRun, RemoteStarts, RemoteRefuses, RemoteStartFails,
                 RemoteReturns, RemoteFails, RemoteCrashes
  <2> QED BY <2>1, SameCapacity DEF HostUnchanged, queueVars, slotVars, closeVars
<1>16. CASE UNCHANGED vars
  BY <1>16, SameCapacity DEF vars, queueVars, slotVars, closeVars
<1> QED BY <1>3, <1>4, <1>5, <1>7, <1>8, <1>9, <1>10, <1>11, <1>13, <1>14,
           <1>15, <1>16 DEF Next, Host

(***************************************************************************)
(* No event of worker_executor.ts that frees a worker or makes room for    *)
(* one forgets the queue: outside #dispatch an open pool has no required   *)
(* job waiting that could be placed, for every pool size.                  *)
(***************************************************************************)
THEOREM CapacityInvariant == Spec => []RequiredNotStranded
<1>1. Init => RequiredNotStranded BY DEF Init, RequiredNotStranded
<1>2. IInv /\ RequiredNotStranded /\ [Next]_vars => RequiredNotStranded'
  BY NextNotStranded
<1> QED BY <1>1, <1>2, Inductive, PTL DEF Spec

-----------------------------------------------------------------------------
(***************************************************************************)
(* WorkerPool implements JobService.                                       *)
(***************************************************************************)

(***************************************************************************)
(* What the refinement needs beyond IInv: the dispatch loop only runs in   *)
(* an open pool, and an identity not handed out yet names no worker.       *)
(***************************************************************************)
Undisturbed ==
  /\ dispatching => closing = "open"
  /\ \A j \in JobIds : job[j].status = "unsubmitted" => job[j].worker = NoWorker

(* A step that no caller sees is a stuttering step of the service.         *)
LEMMA UnseenStep ==
  ASSUME \A j \in JobIds : job'[j].status = job[j].status
                           /\ job'[j].worker = job[j].worker,
         closing' = "open" <=> closing = "open"
  PROVE  UNCHANGED Service!vars
<1>1. \A j \in JobIds : PhaseOf(j)' = PhaseOf(j) BY DEF PhaseOf
<1>2. [j \in JobIds |-> PhaseOf(j)]' = [j \in JobIds |-> PhaseOf(j)] BY <1>1
<1>3. [j \in JobIds |-> job[j].worker]' = [j \in JobIds |-> job[j].worker]
  OBVIOUS
<1>4. (closing = "open")' = (closing = "open") OBVIOUS
<1> QED BY <1>2, <1>3, <1>4 DEF Service!vars

(* A job that ends settles in the service, with a value only if it ran.    *)
LEMMA SettleStep ==
  ASSUME TypeOK, NEW j \in Pending, NEW outcome \in Settled,
         job' = [job EXCEPT ![j] = Ended(j, outcome)], closing' = closing,
         outcome = "value" => job[j].worker # NoWorker
  PROVE  Service!Next
<1>1. /\ \A k \in JobIds : k # j => job'[k] = job[k]
      /\ job'[j].worker = job[j].worker /\ job'[j].status = outcome
  BY EndedFacts
<1>2. j \in JobIds /\ job[j].status = "pending" BY DEF Pending
<1>3. outcome \in {"value", "error"} BY DEF Settled
<1>4. PhaseOf(j) = IF job[j].worker = NoWorker THEN "queued" ELSE "running"
  BY <1>2 DEF PhaseOf
<1>5. PhaseOf(j)' = outcome BY <1>1, <1>3 DEF PhaseOf
<1>6. \A k \in JobIds : k # j => PhaseOf(k)' = PhaseOf(k) BY <1>1 DEF PhaseOf
<1>7. [k \in JobIds |-> PhaseOf(k)]' =
        [[k \in JobIds |-> PhaseOf(k)] EXCEPT ![j] = outcome]
  BY <1>2, <1>5, <1>6
<1>8. [k \in JobIds |-> job[k].worker]' = [k \in JobIds |-> job[k].worker]
  BY <1>1
<1>9. Service!Settle(j, outcome)
  BY <1>2, <1>3, <1>4, <1>7, <1>8 DEF Service!Settle
<1> QED BY <1>2, <1>3, <1>9 DEF Service!Next

(* Admission is a submission.                                              *)
LEMMA SubmitStep ==
  ASSUME IInv, Undisturbed, NEW c \in Callbacks, NEW p \in Priority,
         Execute(c, p)
  PROVE  Service!Next
<1> USE DEF IInv, Bookkeeping
<1> DEFINE new == [Unsubmitted EXCEPT !.callback = c, !.priority = p,
                                      !.status = "pending"]
<1>1. /\ closing = "open" /\ closing' = closing /\ nextJob \in JobIds
      /\ job' = [job EXCEPT ![nextJob] = new]
  BY BoundAssumption DEF Execute, TypeOK, closeVars, JobIds
<1>2. new.status = "pending" /\ new.worker = NoWorker BY DEF Unsubmitted
<1>3. job[nextJob].status = "unsubmitted" /\ job[nextJob].worker = NoWorker
  BY <1>1 DEF NumbersAgree, Undisturbed, JobIds
<1> HIDE DEF new
<1>4. job'[nextJob] = new /\ \A k \in JobIds : k # nextJob => job'[k] = job[k]
  BY <1>1 DEF TypeOK
<1>5. PhaseOf(nextJob) = "unsubmitted" BY <1>3 DEF PhaseOf
<1>6. \A k \in JobIds : k # nextJob => PhaseOf(k)' = PhaseOf(k)
  BY <1>4 DEF PhaseOf
<1>7. job'[nextJob].status = "pending" /\ job'[nextJob].worker = NoWorker
  BY <1>2, <1>4
<1>8. [k \in JobIds |-> PhaseOf(k)]' =
        [[k \in JobIds |-> PhaseOf(k)] EXCEPT ![nextJob] = "queued"]
  <2> DEFINE n == nextJob
  <2>1. \A k \in JobIds :
          PhaseOf(k)' = IF k = n THEN "queued" ELSE PhaseOf(k)
    BY <1>6, <1>7 DEF PhaseOf
  <2> QED BY <1>1, <2>1
<1>9. [k \in JobIds |-> job[k].worker]' = [k \in JobIds |-> job[k].worker]
  BY <1>3, <1>4, <1>7
<1>10. Service!Submit(nextJob)
  BY <1>1, <1>5, <1>8, <1>9 DEF Service!Submit
<1> QED BY <1>1, <1>10 DEF Service!Next

(* A turn of the dispatch loop that assigns a job starts it.               *)
LEMMA StartStep ==
  ASSUME IInv, Undisturbed, NEW j \in JobIds, NEW w \in Workers,
         dispatching, Candidate(j), w \in Chosen, Assign(j, w),
         closing' = closing
  PROVE  Service!Next
<1> USE DEF IInv, Bookkeeping
<1>1. Waiting(j) /\ busy[w] = NoJob BY ChosenFacts
<1>2. /\ Pending' = Pending
      /\ \A k \in JobIds : /\ k # j => job'[k] = job[k]
                           /\ job'[k].status = job[k].status
      /\ job'[j].worker = w
  BY <1>1, AssignFacts
<1>3. w # NoWorker BY NoneAssumption DEF Workers
<1>4. closing = "open" BY DEF Undisturbed
<1>5. PhaseOf(j) = "queued" BY <1>1 DEF PhaseOf, Waiting, Pending
<1>6. PhaseOf(j)' = "running"
  BY <1>1, <1>2, <1>3 DEF PhaseOf, Waiting, Pending
<1>7. \A k \in JobIds : k # j => PhaseOf(k)' = PhaseOf(k) BY <1>2 DEF PhaseOf
<1>8. [k \in JobIds |-> PhaseOf(k)]' =
        [[k \in JobIds |-> PhaseOf(k)] EXCEPT ![j] = "running"]
  BY <1>6, <1>7
<1>9. [k \in JobIds |-> job[k].worker]' =
        [[k \in JobIds |-> job[k].worker] EXCEPT ![j] = w]
  BY <1>2
<1>10. \A k \in JobIds : PhaseOf(k) = "running" => job[k].worker # w
  <2> SUFFICES ASSUME NEW k \in JobIds, PhaseOf(k) = "running",
                      job[k].worker = w
               PROVE  FALSE
    OBVIOUS
  <2>1. k \in Pending BY DEF PhaseOf, Pending, TypeOK, Job, Settled
  <2>2. busy[w] = k BY <1>3, <2>1 DEF SlotsAgree
  <2> QED BY <1>1, <2>2, NoneAssumption DEF JobIds
<1>11. Service!Start(j, w)
  BY <1>4, <1>5, <1>8, <1>9, <1>10 DEF Service!Start
<1> QED BY <1>11 DEF Service!Next

(* close() shuts the service.                                              *)
LEMMA ShutStep ==
  ASSUME IInv, Close
  PROVE  Service!Next
<1> USE DEF IInv, Bookkeeping
<1>1. closing = "open" /\ closing' = "draining" BY DEF Close
<1>2. \A k \in JobIds :
        job'[k] = IF k \notin Pending THEN job[k]
                  ELSE IF job[k].worker = NoWorker
                       THEN Ended(k, "error")
                       ELSE [job[k] EXCEPT !.aborted = TRUE]
  BY DEF Close
<1>3. \A k \in JobIds :
        /\ job'[k].worker = job[k].worker
        /\ job'[k].status = IF k \in Pending /\ job[k].worker = NoWorker
                            THEN "error" ELSE job[k].status
  <2> SUFFICES ASSUME NEW k \in JobIds
               PROVE  /\ job'[k].worker = job[k].worker
                      /\ job'[k].status =
                           IF k \in Pending /\ job[k].worker = NoWorker
                           THEN "error" ELSE job[k].status
    OBVIOUS
  <2>1. job[k] \in Job BY DEF TypeOK
  <2>2. Ended(k, "error").worker = job[k].worker
        /\ Ended(k, "error").status = "error"
    BY DEF Ended, Unsubmitted
  <2>3. [job[k] EXCEPT !.aborted = TRUE].worker = job[k].worker
        /\ [job[k] EXCEPT !.aborted = TRUE].status = job[k].status
    BY <2>1 DEF Job
  <2> QED BY <1>2, <2>2, <2>3
<1>4. \A k \in JobIds :
        PhaseOf(k)' = IF PhaseOf(k) = "queued" THEN "error" ELSE PhaseOf(k)
  <2> SUFFICES ASSUME NEW k \in JobIds
               PROVE  PhaseOf(k)' =
                        IF PhaseOf(k) = "queued" THEN "error" ELSE PhaseOf(k)
    OBVIOUS
  <2>1. job[k].status # "queued" BY DEF TypeOK, Job, Settled
  <2> QED BY <1>3, <2>1 DEF PhaseOf, Pending
<1>5. [k \in JobIds |-> PhaseOf(k)]' =
        [k \in JobIds |-> IF [l \in JobIds |-> PhaseOf(l)][k] = "queued"
                          THEN "error" ELSE [l \in JobIds |-> PhaseOf(l)][k]]
  BY <1>4
<1>6. [k \in JobIds |-> job[k].worker]' = [k \in JobIds |-> job[k].worker]
  BY <1>3
<1>7. Service!Shut BY <1>1, <1>5, <1>6 DEF Service!Shut
<1> QED BY <1>7 DEF Service!Next
(* A step of a job's record that its caller does not see: a new priority, an *)
(* abort request, a report that it has started.                            *)
LEMMA RecordStep ==
  ASSUME TypeOK, NEW j \in JobIds, NEW r,
         job' = [job EXCEPT ![j] = r],
         r.status = job[j].status, r.worker = job[j].worker,
         closing' = closing
  PROVE  UNCHANGED Service!vars
<1>1. \A k \in JobIds : job'[k].status = job[k].status
                         /\ job'[k].worker = job[k].worker
  BY DEF TypeOK
<1> QED BY <1>1, UnseenStep

(* Every step of the pool is a step of the service or unseen.              *)
LEMMA NextService ==
  ASSUME IInv, Undisturbed, [Next]_vars
  PROVE  [Service!Next]_(Service!vars)
<1> USE DEF IInv, Bookkeeping
<1>0. "error" \in Settled BY DEF Settled
<1>1. ASSUME NEW c \in Callbacks, NEW p \in Priority, Execute(c, p)
      PROVE  Service!Next
  BY <1>1, SubmitStep
<1>2. ASSUME NEW c \in Callbacks, Promote(c)
      PROVE  UNCHANGED Service!vars
  <2>1. PICK j \in Pending :
          job' = [job EXCEPT ![j] = [job[j] EXCEPT !.priority = "required"]]
    BY <1>2 DEF Promote
  <2>2. j \in JobIds /\ job[j] \in Job BY DEF Pending, TypeOK
  <2> DEFINE r == [job[j] EXCEPT !.priority = "required"]
  <2>3. r.status = job[j].status /\ r.worker = job[j].worker BY <2>2 DEF Job
  <2>4. closing' = closing BY <1>2 DEF Promote, closeVars
  <2> HIDE DEF r
  <2> QED BY <2>1, <2>2, <2>3, <2>4, RecordStep DEF r
<1>3. ASSUME NEW j \in JobIds, AbortQueued(j)
      PROVE  Service!Next
  BY <1>0, <1>3, SettleStep DEF AbortQueued, Finish, closeVars
<1>4. ASSUME NEW j \in JobIds, AbortRunning(j)
      PROVE  UNCHANGED Service!vars
  <2> DEFINE r == [job[j] EXCEPT !.aborted = TRUE]
  <2>1. job' = [job EXCEPT ![j] = r] BY <1>4 DEF AbortRunning
  <2>2. job[j] \in Job BY DEF TypeOK
  <2>3. r.status = job[j].status /\ r.worker = job[j].worker BY <2>2 DEF Job
  <2>4. closing' = closing BY <1>4 DEF AbortRunning, closeVars
  <2> HIDE DEF r
  <2> QED BY <2>1, <2>3, <2>4, RecordStep
<1>5. ASSUME NEW j \in JobIds, NEW w \in Workers, Place(j, w) \/ PlaceFails(j, w)
      PROVE  Service!Next
  BY <1>5, StartStep DEF Place, PlaceFails, closeVars
<1>6. ASSUME NEW j \in JobIds, StartFails(j)
      PROVE  Service!Next
  <2>1. Candidate(j) /\ Finish(j, "error") /\ closing' = closing
    BY <1>6 DEF StartFails, closeVars
  <2>2. j \in Pending
    BY <2>1, PeekLinked DEF Candidate, TypeOK, QueuesAgree, Waiting
  <2> QED BY <1>0, <2>1, <2>2, SettleStep DEF Finish
<1>7. ASSUME NEW w \in Workers, OnMessage(w)
      PROVE  [Service!Next]_(Service!vars)
  <2> DEFINE m == Head(outbox[w])
  <2>1. closing' = closing /\ outbox[w] # <<>> BY <1>7 DEF OnMessage, closeVars
  <2>2. m \in Response BY <2>1, ReceiveType DEF TypeOK
  <2>3. m.job \in JobIds BY <2>2 DEF Response
  <2>4. CASE Rejects(w, m)
    BY <1>7, <2>1, <2>4, UnseenStep DEF OnMessage
  <2>5. CASE ~Rejects(w, m)
    <3>1. busy[w] = m.job BY <2>5 DEF Rejects
    <3>2. m.job \in Pending /\ job[m.job].worker = w
      BY <2>3, <3>1, NoneAssumption DEF SlotsAgree, JobIds
    <3>3. job[m.job].worker # NoWorker BY <3>2, NoneAssumption DEF Workers
    <3>4. CASE m.kind = "started"
      <4> DEFINE r == [job[m.job] EXCEPT !.started = TRUE]
      <4>1. job' = [job EXCEPT ![m.job] = r]
        BY <1>7, <2>5, <3>4 DEF OnMessage
      <4>2. job[m.job] \in Job BY <2>3 DEF TypeOK
      <4>3. r.status = job[m.job].status /\ r.worker = job[m.job].worker
        BY <4>2 DEF Job
      <4> HIDE DEF r, m
      <4> QED BY <2>1, <2>3, <4>1, <4>3, RecordStep
    <3>5. CASE m.kind # "started"
      <4> DEFINE o == IF m.kind = "returned" /\ ~job[m.job].aborted
                      THEN "value" ELSE "error"
      <4>1. Finish(m.job, o) BY <1>7, <2>5, <3>5 DEF OnMessage
      <4>2. o \in Settled BY DEF Settled
      <4> HIDE DEF o, m
      <4> QED BY <2>1, <3>2, <3>3, <4>1, <4>2, SettleStep DEF Finish
    <3> QED BY <3>4, <3>5
  <2> QED BY <2>4, <2>5
<1>8. ASSUME NEW w \in Workers, Retire(w)
      PROVE  [Service!Next]_(Service!vars)
  <2>1. closing' = closing BY <1>8 DEF Retire
  <2>2. CASE busy[w] = NoJob
    BY <1>8, <2>1, <2>2, UnseenStep DEF Retire
  <2>3. CASE busy[w] # NoJob
    <3>1. busy[w] \in Pending /\ Finish(busy[w], "error")
      BY <1>8, <2>3 DEF Retire, SlotsAgree
    <3> QED BY <1>0, <2>1, <3>1, SettleStep DEF Finish
  <2> QED BY <2>2, <2>3
<1>9. CASE Close BY <1>9, ShutStep
<1>10. ASSUME UNCHANGED job, closing' = "open" <=> closing = "open"
       PROVE  UNCHANGED Service!vars
  BY <1>10, UnseenStep
<1>11. CASE DispatchReturns \/ CloseDrained \/ Closed
  BY <1>10, <1>11 DEF DispatchReturns, CloseDrained, Closed, closeVars
<1>12. CASE \E w \in Workers : OnError(w) \/ CloseTerminates(w)
  BY <1>10, <1>12 DEF OnError, CloseTerminates, closeVars
<1>13. CASE \E w \in Workers : Worker(w)
  <2>1. HostUnchanged
    BY <1>13 DEF Worker, RemoteInstall, RemoteUninstall, RemoteCancel,
                 RemoteRun, RemoteStarts, RemoteRefuses, RemoteStartFails,
                 RemoteReturns, RemoteFails, RemoteCrashes
  <2> QED BY <1>10, <2>1 DEF HostUnchanged, closeVars
<1>14. CASE UNCHANGED vars BY <1>10, <1>14 DEF vars, closeVars
<1> QED BY <1>1, <1>2, <1>3, <1>4, <1>5, <1>6, <1>7, <1>8, <1>9, <1>11, <1>12,
           <1>13, <1>14 DEF Next, Host

(* The side conditions hold at first.                                      *)
LEMMA InitUndisturbed == Init => Undisturbed
<1> SUFFICES ASSUME Init PROVE Undisturbed OBVIOUS
<1>1. \A j \in JobIds : job[j] = Unsubmitted BY DEF Init
<1>2. Unsubmitted.worker = NoWorker BY DEF Unsubmitted
<1> QED BY <1>1, <1>2 DEF Init, Undisturbed

(* Every step keeps them: an unsubmitted job is given to nobody by a step  *)
(* of the service, and the pool only closes between two dispatches.        *)
LEMMA NextUndisturbed ==
  ASSUME IInv, Undisturbed, [Next]_vars
  PROVE  Undisturbed'
<1> USE DEF IInv, Bookkeeping
<1>1. dispatching' => closing' = "open"
  <2>1. CASE Host
    BY <2>1
    DEF Undisturbed, Host, Execute, Promote, AbortQueued, AbortRunning, Place,
        PlaceFails, StartFails, DispatchReturns, OnMessage, OnError, Retire,
        Close, CloseDrained, CloseTerminates, Closed, Lose, CallDispatch,
        closeVars
  <2>2. CASE \E w \in Workers : Worker(w)
    <3>1. HostUnchanged
      BY <2>2 DEF Worker, RemoteInstall, RemoteUninstall, RemoteCancel,
                  RemoteRun, RemoteStarts, RemoteRefuses, RemoteStartFails,
                  RemoteReturns, RemoteFails, RemoteCrashes
    <3> QED BY <3>1 DEF HostUnchanged, Undisturbed, closeVars
  <2>3. CASE UNCHANGED vars BY <2>3 DEF vars, Undisturbed, closeVars
  <2> QED BY <2>1, <2>2, <2>3 DEF Next
<1>2. [Service!Next]_(Service!vars) BY NextService
<1>3. ASSUME NEW j \in JobIds, job'[j].status = "unsubmitted"
      PROVE  job'[j].worker = NoWorker
  <2> DEFINE ph == [k \in JobIds |-> PhaseOf(k)]
             hd == [k \in JobIds |-> job[k].worker]
  <2>1. ph'[j] = "unsubmitted" BY <1>3 DEF PhaseOf
  <2>2. /\ hd'[j] = job'[j].worker /\ hd[j] = job[j].worker
        /\ ph[j] = PhaseOf(j)
        /\ ph \in [JobIds -> {ph[k] : k \in JobIds}]
        /\ hd \in [JobIds -> {hd[k] : k \in JobIds}]
    OBVIOUS
  <2>3. ph[j] = "unsubmitted" => hd[j] = NoWorker
    BY <2>2 DEF PhaseOf, Undisturbed
  <2>4. \/ UNCHANGED <<ph, hd>>
        \/ \E k \in JobIds : ph' = [ph EXCEPT ![k] = "queued"] /\ hd' = hd
        \/ \E k \in JobIds : /\ ph' = [ph EXCEPT ![k] = "running"]
                              /\ \E w \in Workers : hd' = [hd EXCEPT ![k] = w]
        \/ \E k \in JobIds, o \in {"value", "error"} :
              ph' = [ph EXCEPT ![k] = o] /\ hd' = hd
        \/ /\ ph' = [k \in JobIds |->
                       IF ph[k] = "queued" THEN "error" ELSE ph[k]]
           /\ hd' = hd
    BY <1>2 DEF Service!Next, Service!Submit, Service!Start, Service!Settle,
                Service!Shut, Service!vars
  <2> HIDE DEF ph, hd
  <2>5. hd'[j] = NoWorker BY <2>1, <2>2, <2>3, <2>4
  <2> QED BY <2>2, <2>5
<1> QED BY <1>1, <1>3 DEF Undisturbed

(***************************************************************************)
(* The pool of worker_executor.ts, with its workers, implements the job    *)
(* service: every job is given to at most one worker, which it has to      *)
(* itself, and settles once, whatever is lost, cancelled or evicted.       *)
(***************************************************************************)
THEOREM Refinement == Spec => ImplementsJobService
<1>1. Init => Service!Init
  <2> SUFFICES ASSUME Init PROVE Service!Init OBVIOUS
  <2>1. \A j \in JobIds : job[j] = Unsubmitted BY DEF Init
  <2>2. Unsubmitted.worker = NoWorker /\ Unsubmitted.status = "unsubmitted"
    BY DEF Unsubmitted
  <2>3. \A j \in JobIds : PhaseOf(j) = "unsubmitted" BY <2>1, <2>2 DEF PhaseOf
  <2>4. closing = "open" BY DEF Init
  <2> QED BY <2>1, <2>2, <2>3, <2>4 DEF Service!Init
<1>2. IInv /\ Undisturbed /\ [Next]_vars => Undisturbed' BY NextUndisturbed
<1>3. IInv /\ Undisturbed /\ [Next]_vars => [Service!Next]_(Service!vars)
  BY NextService
<1> QED BY <1>1, <1>2, <1>3, InitUndisturbed, Inductive, PTL
        DEF Spec, ImplementsJobService, Service!Spec
=============================================================================
