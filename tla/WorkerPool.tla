----------------------------- MODULE WorkerPool -----------------------------
(***************************************************************************)
(* src/worker_executor.ts (the pool, in the host) composed with            *)
(* src/worker_runtime.ts serveWorker (one per worker) over the two message *)
(* channels of each connection.                                            *)
(*                                                                         *)
(* The host is one JavaScript thread, so a host handler is one step.  Only *)
(* the while loop of #dispatch is several: a handler that calls #dispatch  *)
(* sets `dispatching`, every turn of the loop is one step, and no other    *)
(* host handler runs until the loop is over.  Workers run meanwhile.       *)
(***************************************************************************)
EXTENDS Integers, FiniteSets, Queue

CONSTANTS
  Size,        \* options.size
  CacheSize,   \* programs one worker keeps installed; 16 in the code
  MaxJobs,     \* bound: jobs ever submitted
  MaxFaults,   \* bound: crashes and failing platform calls
  Callbacks,   \* compiled callback identities
  Programs,    \* program identities
  ProgramOf,   \* the program a callback belongs to
  NoWorker, NoJob, NoCallback

ASSUME SizeAssumption == Size \in Nat \ {0}
ASSUME CacheAssumption == CacheSize \in Nat \ {0}
ASSUME BoundAssumption == MaxJobs \in Nat /\ MaxFaults \in Nat
ASSUME CallbackAssumption == ProgramOf \in [Callbacks -> Programs]
ASSUME NoneAssumption == NoJob \notin Nat /\ NoWorker \notin Nat

JobIds == 1..MaxJobs

\* Workers are numbered as they start; each fault costs at most one of them.
Workers == 1..(Size + MaxFaults)

VARIABLES
  nextJob,            \* #nextJob
  job,                \* PendingJob records, by identity
  required,           \* #required
  speculative,        \* #speculative
  workers,            \* #workers
  workersStarted,     \* #started
  busy,               \* PoolWorker.job
  installed,          \* PoolWorker.installed, least recently used first
  idle,               \* #idle
  activeSpeculative,  \* #activeSpeculative
  retiring,           \* #retiring, by worker
  closing,            \* how far close() has come
  terminated,         \* workers whose terminate() close() has seen settle
  cleanupFailed,      \* #retirementFailures or a rejected terminate()
  dispatching,        \* inside #dispatch
  inbox,              \* messages posted to a worker
  outbox,             \* messages posted by a worker
  remote,             \* the state of serveWorker in each worker
  faults              \* faults so far

queueVars  == <<required, speculative>>
slotVars   == <<busy, idle, activeSpeculative>>
closeVars  == <<closing, terminated, cleanupFailed>>
wireVars   == <<inbox, outbox>>
vars == <<nextJob, job, queueVars, workers, workersStarted, slotVars, installed,
          retiring, closeVars, dispatching, wireVars, remote, faults>>

Priority == {"required", "speculative"}
Settled  == {"value", "error"}

Job == [callback  : Callbacks \union {NoCallback},
        priority  : Priority,
        worker    : Workers \union {NoWorker},
        started   : BOOLEAN,
        aborted   : BOOLEAN,
        status    : {"unsubmitted", "pending"} \union Settled]

Request ==
  [kind : {"install", "uninstall"}, program : Programs]
    \union [kind : {"run"}, program : Programs, job : JobIds]
    \union [kind : {"cancel"}, job : JobIds]

Response ==
  [kind : {"started", "returned", "cancelled", "failed"}, job : JobIds]

(***************************************************************************)
(* What serveWorker keeps.  programs[p] is "fresh" when p is installed and *)
(* has no instance, "live" when it has one, "broken" when the cached       *)
(* instance promise is rejected.  `poisoned` is a rejected `retirement`    *)
(* chain, which every later run awaits.                                    *)
(***************************************************************************)
Remote == [up       : BOOLEAN,
           programs : [Programs -> {"absent", "fresh", "live", "broken"}],
           running  : JobIds \union {NoJob},
           program  : Programs \union {NoJob},
           phase    : {"none", "waiting", "executing"},
           aborted  : BOOLEAN,
           poisoned : BOOLEAN]

\* A worker that has been created and has received nothing.
FreshRemote == [up |-> TRUE, programs |-> [p \in Programs |-> "absent"],
                running |-> NoJob, program |-> NoJob, phase |-> "none",
                aborted |-> FALSE, poisoned |-> FALSE]

\* There is no such worker, or no longer.
NoRemote == [FreshRemote EXCEPT !.up = FALSE]

\* #pending
Pending == {j \in JobIds : job[j].status = "pending"}

(***************************************************************************)
(* Types and bounds; a worker keeps at most CacheSize programs.            *)
(***************************************************************************)
TypeOK ==
  /\ nextJob \in 1..(MaxJobs + 1)
  /\ job \in [JobIds -> Job]
  /\ required \in Seq(JobIds) /\ speculative \in Seq(JobIds)
  /\ workers \subseteq Workers /\ workersStarted \in 0..(Size + MaxFaults)
  /\ busy \in [Workers -> JobIds \union {NoJob}]
  /\ installed \in [Workers -> Seq(Programs)]
  /\ \A w \in Workers : Len(installed[w]) <= CacheSize
  /\ idle \in Seq(Workers)
  /\ activeSpeculative \in Int
  /\ retiring \subseteq Workers
  /\ closing \in {"open", "draining", "terminating", "closed"}
  /\ terminated \subseteq Workers
  /\ cleanupFailed \in BOOLEAN /\ dispatching \in BOOLEAN
  /\ inbox \in [Workers -> Seq(Request)]
  /\ outbox \in [Workers -> Seq(Response)]
  /\ remote \in [Workers -> Remote]
  /\ faults \in 0..MaxFaults

\* A job identity that execute has not handed out yet.
Unsubmitted == [callback |-> NoCallback,
                priority |-> "required", worker |-> NoWorker,
                started |-> FALSE, aborted |-> FALSE, status |-> "unsubmitted"]

Init ==
  /\ nextJob = 1
  /\ job = [j \in JobIds |-> Unsubmitted]
  /\ required = <<>> /\ speculative = <<>>
  /\ workers = {} /\ workersStarted = 0
  /\ busy = [w \in Workers |-> NoJob]
  /\ installed = [w \in Workers |-> <<>>]
  /\ idle = <<>> /\ activeSpeculative = 0
  /\ retiring = {} /\ closing = "open" /\ terminated = {}
  /\ cleanupFailed = FALSE /\ dispatching = FALSE
  /\ inbox = [w \in Workers |-> <<>>] /\ outbox = [w \in Workers |-> <<>>]
  /\ remote = [w \in Workers |-> NoRemote]
  /\ faults = 0

-----------------------------------------------------------------------------
(* Private methods of WorkerExecutor.                                      *)

\* The callers of #dispatch: it returns at once when the pool is closing.
CallDispatch == dispatching' = (closing = "open")

(***************************************************************************)
(* #finish(job, outcome): leave #pending and whichever queue the job is in,*)
(* free its worker, and settle the completion.  The record is garbage from *)
(* here on: the model keeps who ran it and how it ended, as history.       *)
(***************************************************************************)
Ended(j, outcome) ==
  [Unsubmitted EXCEPT !.worker = job[j].worker, !.status = outcome]

\* The idle queue once w is free; a lost worker never becomes idle again.
FreedUnchecked(w) == Push(idle, w)

Freed(w) == IF w \in workers THEN Push(idle, w) ELSE idle

Finish(j, outcome) ==
  LET w == job[j].worker IN
  /\ job' = [job EXCEPT ![j] = Ended(j, outcome)]
  /\ required' = Unlink(required, j)
  /\ speculative' = Unlink(speculative, j)
  /\ busy' = IF w = NoWorker THEN busy ELSE [busy EXCEPT ![w] = NoJob]
  /\ activeSpeculative' =
       IF w # NoWorker /\ job[j].priority = "speculative"
       THEN activeSpeculative - 1 ELSE activeSpeculative
  /\ idle' = IF w = NoWorker THEN idle ELSE Freed(w)

\* Mutant: a loss that forgets the queues.
LoseQuietly(w) ==
  /\ workers' = workers \ {w} /\ idle' = Unlink(idle, w)
  /\ retiring' = IF w \in workers THEN retiring \union {w} ELSE retiring
  /\ UNCHANGED dispatching

(***************************************************************************)
(* #lose(worker): out of the pool at once; its job settles only when       *)
(* terminate() has (Retire).  Losing a lost worker does nothing.           *)
(***************************************************************************)
Lose(w) ==
  IF w \in workers
  THEN /\ workers' = workers \ {w}
       /\ idle' = Unlink(idle, w)
       /\ retiring' = retiring \union {w}
       /\ CallDispatch
  ELSE UNCHANGED <<workers, idle, retiring, dispatching>>

\* Whether the handlers of w are attached.
Attached(w) == w \in workers /\ closing \in {"open", "draining"}

\* A crash or a failing platform call happens while the budget lasts.
Fault == faults < MaxFaults /\ faults' = faults + 1

-----------------------------------------------------------------------------
(* Calls into the pool.                                                    *)

Execute(c, p) ==
  /\ ~dispatching /\ closing = "open" /\ nextJob <= MaxJobs
  /\ job' = [job EXCEPT ![nextJob] =
               [Unsubmitted EXCEPT !.callback = c, !.priority = p,
                                   !.status = "pending"]]
  /\ nextJob' = nextJob + 1
  /\ required' = IF p = "required" THEN Push(required, nextJob) ELSE required
  /\ speculative' =
       IF p = "speculative" THEN Push(speculative, nextJob) ELSE speculative
  /\ CallDispatch
  /\ UNCHANGED <<workers, workersStarted, slotVars, installed, retiring,
                 closeVars, wireVars, remote, faults>>

(***************************************************************************)
(* promote(callback): the oldest pending job of the callback, if it is     *)
(* still speculative.  A queued job is appended to #required; a running    *)
(* one gives up its share of the speculation budget.                       *)
(***************************************************************************)
Oldest(c, j) ==
  /\ j \in Pending /\ job[j].callback = c
  /\ \A k \in Pending : job[k].callback = c => j <= k

Promote(c) ==
  /\ ~dispatching
  /\ \E j \in Pending :
       /\ Oldest(c, j) /\ job[j].priority = "speculative"
       /\ job' = [job EXCEPT ![j].priority = "required"]
       /\ IF job[j].worker = NoWorker
          THEN /\ speculative' = Unlink(speculative, j)
               /\ required' = Push(required, j)
               /\ UNCHANGED activeSpeculative
          ELSE /\ activeSpeculative' = activeSpeculative - 1
               /\ UNCHANGED queueVars
  /\ CallDispatch
  /\ UNCHANGED <<nextJob, workers, workersStarted, busy, idle, installed,
                 retiring, closeVars, wireVars, remote, faults>>

(***************************************************************************)
(* The abort listener of a job.  Queued: finished with the reason.         *)
(* Assigned: the worker is asked to cancel, and a post that throws loses   *)
(* the worker.                                                             *)
(***************************************************************************)
Cancel(j) == [kind |-> "cancel", job |-> j]

AbortQueued(j) ==
  /\ ~dispatching /\ j \in Pending /\ ~job[j].aborted
  /\ job[j].worker = NoWorker
  /\ Finish(j, "error")
  /\ UNCHANGED <<nextJob, workers, workersStarted, installed, retiring,
                 closeVars, dispatching, wireVars, remote, faults>>

AbortRunning(j) ==
  /\ ~dispatching /\ j \in Pending /\ ~job[j].aborted
  /\ job[j].worker # NoWorker
  /\ job' = [job EXCEPT ![j].aborted = TRUE]
  /\ \/ /\ inbox' = [inbox EXCEPT ![job[j].worker] = Append(@, Cancel(j))]
        /\ UNCHANGED <<workers, retiring, idle, dispatching, faults>>
     \/ /\ Fault
        /\ Lose(job[j].worker)
        /\ UNCHANGED inbox
  /\ UNCHANGED <<nextJob, queueVars, workersStarted, busy, activeSpeculative,
                 installed, closeVars, outbox, remote>>

-----------------------------------------------------------------------------
(* #dispatch.                                                              *)

\* Mutant: speculative work may fill the pool.
CandidateUnreserved(j) ==
  \/ required # <<>> /\ j = Peek(required)
  \/ required = <<>> /\ speculative # <<>> /\ j = Peek(speculative)

\* The job at which the loop looks; none is left, or none may start.
Candidate(j) ==
  \/ required # <<>> /\ j = Peek(required)
  \/ /\ required = <<>> /\ speculative # <<>> /\ j = Peek(speculative)
     \* Keep one worker available for required work.
     /\ activeSpeculative < Size - 1

CanPlace == idle # <<>> \/ Cardinality(workers) # Size

\* Mutants: a cache one too large, and one that keeps what it retired.
EvictsLate(w, p) == ~Linked(installed[w], p) /\ Len(installed[w]) > CacheSize

RefreshedKeeping(w, p) == Push(Unlink(installed[w], p), p)

\* Installing p in w makes w retire its least recently used program.
Evicts(w, p) == ~Linked(installed[w], p) /\ Len(installed[w]) >= CacheSize

\* The programs of w after p has been made the newest of them.
Refreshed(w, p) ==
  Push(IF Evicts(w, p) THEN Shift(installed[w]) ELSE Unlink(installed[w], p), p)

\* The messages that hand job j to w, in posting order.
Posts(w, j) ==
  LET p == ProgramOf[job[j].callback] IN
  (IF Evicts(w, p)
   THEN <<[kind |-> "uninstall", program |-> Peek(installed[w])]>> ELSE <<>>)
  \o (IF Linked(installed[w], p) THEN <<>>
      ELSE <<[kind |-> "install", program |-> p]>>)
  \o <<[kind |-> "run", program |-> p, job |-> j]>>

\* Mutant: the job stays linked in its queue.
AssignLinked(j, w) ==
  /\ job' = [job EXCEPT ![j].worker = w]
  /\ busy' = [busy EXCEPT ![w] = j]
  /\ activeSpeculative' = IF job[j].priority = "speculative"
                          THEN activeSpeculative + 1 ELSE activeSpeculative
  /\ UNCHANGED queueVars

\* The assignments that give job j to w; w is idle or just created.
Assign(j, w) ==
  /\ job' = [job EXCEPT ![j].worker = w]
  /\ busy' = [busy EXCEPT ![w] = j]
  /\ required' = Unlink(required, j)
  /\ speculative' = Unlink(speculative, j)
  /\ activeSpeculative' = IF job[j].priority = "speculative"
                          THEN activeSpeculative + 1 ELSE activeSpeculative

\* The worker that a turn of the loop uses: the longest idle, or a new one.
Chosen == IF idle # <<>> THEN {Peek(idle)} ELSE {workersStarted + 1}

Place(j, w) ==
  /\ dispatching /\ Candidate(j) /\ CanPlace /\ w \in Chosen
  /\ Assign(j, w)
  /\ idle' = IF idle # <<>> THEN Shift(idle) ELSE idle
  /\ workersStarted' = IF idle # <<>> THEN workersStarted ELSE w
  /\ workers' = workers \union {w}
  /\ inbox' = [inbox EXCEPT ![w] = @ \o Posts(w, j)]
  /\ installed' = [installed EXCEPT ![w] =
                     Refreshed(w, ProgramOf[job[j].callback])]
  /\ remote' = IF idle # <<>> THEN remote
               ELSE [remote EXCEPT ![w] = FreshRemote]
  /\ UNCHANGED <<nextJob, retiring, closeVars, dispatching, outbox, faults>>

(***************************************************************************)
(* One of the posts throws: the worker is lost with the job assigned to    *)
(* it.  The run request is the last to be posted, so what was posted       *)
(* before starts nothing; it is lost with the worker.                      *)
(***************************************************************************)
PlaceFails(j, w) ==
  /\ dispatching /\ Candidate(j) /\ CanPlace /\ w \in Chosen /\ Fault
  /\ Assign(j, w)
  /\ idle' = IF idle # <<>> THEN Shift(idle) ELSE idle
  /\ workersStarted' = IF idle # <<>> THEN workersStarted ELSE w
  /\ workers' = workers \ {w}
  /\ retiring' = retiring \union {w}
  /\ remote' = IF idle # <<>> THEN remote
               ELSE [remote EXCEPT ![w] = FreshRemote]
  /\ UNCHANGED <<nextJob, installed, closeVars, dispatching, wireVars>>

\* createWorker throws: the job fails and the loop goes on.
StartFails(j) ==
  /\ dispatching /\ Candidate(j) /\ idle = <<>> /\ CanPlace /\ Fault
  /\ Finish(j, "error")
  /\ UNCHANGED <<nextJob, workers, workersStarted, installed, retiring,
                 closeVars, dispatching, wireVars, remote>>

DispatchReturns ==
  /\ dispatching
  /\ CanPlace => \A j \in JobIds : ~Candidate(j)
  /\ dispatching' = FALSE
  /\ UNCHANGED <<nextJob, job, queueVars, workers, workersStarted, slotVars,
                 installed, retiring, closeVars, wireVars, remote, faults>>

-----------------------------------------------------------------------------
(* Events of a connection.                                                 *)

\* The message handler throws, and so loses the worker, when m is a response
\* to no job of w, starts the job twice, or cancels it unasked.
Rejects(w, m) ==
  \/ busy[w] # m.job
  \/ m.kind = "started" /\ job[m.job].started
  \/ m.kind = "cancelled" /\ ~job[m.job].aborted

OnMessage(w) ==
  LET m == Head(outbox[w]) IN
  /\ ~dispatching /\ Attached(w) /\ outbox[w] # <<>>
  /\ outbox' = [outbox EXCEPT ![w] = Tail(@)]
  /\ IF Rejects(w, m)
     THEN /\ Lose(w)
          /\ UNCHANGED <<job, queueVars, busy, activeSpeculative>>
     ELSE /\ UNCHANGED <<workers, retiring>>
          /\ IF m.kind = "started"
             THEN /\ job' = [job EXCEPT ![m.job].started = TRUE]
                  /\ UNCHANGED <<queueVars, slotVars, dispatching>>
             ELSE /\ Finish(m.job,
                            IF m.kind = "returned" /\ ~job[m.job].aborted
                            THEN "value" ELSE "error")
                  /\ CallDispatch
  /\ UNCHANGED <<nextJob, workersStarted, installed, closeVars, inbox, remote,
                 faults>>

OnError(w) ==
  /\ ~dispatching /\ Attached(w) /\ ~remote[w].up
  /\ Lose(w)
  /\ UNCHANGED <<nextJob, job, queueVars, workersStarted, busy,
                 activeSpeculative, installed, closeVars, wireVars, remote,
                 faults>>

\* Mutant: terminate() is called and not awaited.
TerminateUnawaited(w) == UNCHANGED <<remote, wireVars, cleanupFailed, faults>>

(***************************************************************************)
(* terminate() of w settles, and the connection is gone.  A rejection is   *)
(* recorded and proves nothing about the worker, which may still run.      *)
(***************************************************************************)
Terminate(w) ==
  /\ inbox' = [inbox EXCEPT ![w] = <<>>]
  /\ outbox' = [outbox EXCEPT ![w] = <<>>]
  /\ \/ /\ remote' = [remote EXCEPT ![w] = NoRemote]
        /\ UNCHANGED <<cleanupFailed, faults>>
     \/ /\ Fault /\ cleanupFailed' = TRUE
        /\ UNCHANGED remote

\* The retirement of a lost worker: its job fails.  #dispatch is not called.
Retire(w) ==
  /\ ~dispatching /\ w \in retiring
  /\ Terminate(w)
  /\ retiring' = retiring \ {w}
  /\ IF busy[w] = NoJob
     THEN UNCHANGED <<job, queueVars, slotVars>>
     ELSE Finish(busy[w], "error")
  /\ UNCHANGED <<nextJob, workers, workersStarted, installed, closing,
                 terminated, dispatching>>

-----------------------------------------------------------------------------
(* close().                                                                *)

\* Workers to which close() posts a cancellation.
Cancelled ==
  {job[j].worker : j \in {k \in Pending : ~job[k].aborted}} \ {NoWorker}

(***************************************************************************)
(* The controller aborts every pending job that is not aborted yet: queued *)
(* ones finish, which empties both queues, assigned ones are cancelled in  *)
(* their worker.  A post that throws loses its worker.                     *)
(***************************************************************************)
Close ==
  /\ ~dispatching /\ closing = "open"
  /\ closing' = "draining"
  /\ job' = [j \in JobIds |->
               IF j \notin Pending THEN job[j]
               ELSE IF job[j].worker = NoWorker
                    THEN Ended(j, "error")
                    ELSE [job[j] EXCEPT !.aborted = TRUE]]
  /\ required' = <<>> /\ speculative' = <<>>
  /\ \E lost \in SUBSET (Cancelled \intersect workers) :
       /\ faults + Cardinality(lost) <= MaxFaults
       /\ faults' = faults + Cardinality(lost)
       /\ workers' = workers \ lost
       /\ retiring' = retiring \union lost
       /\ inbox' = [w \in Workers |->
                      IF w \in Cancelled \ lost
                      THEN Append(inbox[w], Cancel(busy[w])) ELSE inbox[w]]
  /\ UNCHANGED <<nextJob, workersStarted, slotVars, installed, terminated,
                 cleanupFailed, dispatching, outbox, remote>>

\* Every completion has settled: the workers are detached and terminated.
CloseDrained ==
  /\ ~dispatching /\ closing = "draining" /\ Pending = {}
  /\ closing' = "terminating"
  /\ UNCHANGED <<nextJob, job, queueVars, workers, workersStarted, slotVars,
                 installed, retiring, terminated, cleanupFailed, dispatching,
                 wireVars, remote, faults>>

CloseTerminates(w) ==
  /\ closing = "terminating" /\ w \in workers \ terminated
  /\ Terminate(w)
  /\ terminated' = terminated \union {w}
  /\ UNCHANGED <<nextJob, job, queueVars, workers, workersStarted, slotVars,
                 installed, retiring, closing, dispatching>>

Closed ==
  /\ closing = "terminating" /\ workers \subseteq terminated /\ retiring = {}
  /\ closing' = "closed"
  /\ workers' = {} /\ idle' = <<>>
  /\ UNCHANGED <<nextJob, job, queueVars, workersStarted, busy,
                 activeSpeculative, installed, retiring, terminated,
                 cleanupFailed, dispatching, wireVars, remote, faults>>

-----------------------------------------------------------------------------
(* serveWorker, in each worker.  A handler that throws kills the worker.   *)

\* The head of the inbox of w, when w is there to receive it.
Receives(w, kind) ==
  /\ remote[w].up /\ inbox[w] # <<>> /\ Head(inbox[w]).kind = kind

Consume(w) == inbox' = [inbox EXCEPT ![w] = Tail(@)]

HostUnchanged ==
  UNCHANGED <<nextJob, job, queueVars, workers, workersStarted, slotVars,
              installed, retiring, closeVars, dispatching>>

\* The checks of the four request handlers.
Accepts(r, m) ==
  CASE m.kind = "install"   -> r.programs[m.program] = "absent"
    [] m.kind = "uninstall" -> /\ r.running = NoJob
                               /\ r.programs[m.program] # "absent"
    [] m.kind = "run"       -> r.running = NoJob
    [] m.kind = "cancel"    -> TRUE

Dies(w) == remote' = [remote EXCEPT ![w] = NoRemote]

RemoteInstall(w) ==
  LET m == Head(inbox[w]) IN
  /\ Receives(w, "install") /\ Consume(w)
  /\ IF Accepts(remote[w], m)
     THEN remote' = [remote EXCEPT ![w].programs[m.program] = "fresh"]
     ELSE Dies(w)
  /\ HostUnchanged /\ UNCHANGED <<outbox, faults>>

(***************************************************************************)
(* The retired instance is closed in the background, chained to            *)
(* `retirement`.  An instance promise that was rejected, or a cleanup that *)
(* fails, rejects the chain for good.                                      *)
(***************************************************************************)
RemoteUninstall(w) ==
  LET m == Head(inbox[w]) IN
  /\ Receives(w, "uninstall") /\ Consume(w)
  /\ IF Accepts(remote[w], m)
     THEN \/ /\ remote' = [remote EXCEPT
                   ![w].programs[m.program] = "absent",
                   ![w].poisoned = @ \/ remote[w].programs[m.program] = "broken"]
             /\ UNCHANGED faults
          \/ /\ remote[w].programs[m.program] = "live" /\ Fault
             /\ remote' = [remote EXCEPT ![w].programs[m.program] = "absent",
                                         ![w].poisoned = TRUE]
     ELSE Dies(w) /\ UNCHANGED faults
  /\ HostUnchanged /\ UNCHANGED outbox

\* Mutant: a cancellation that arrives before the callback starts is missed.
CancelsStarted(w, j) == remote[w].running = j /\ remote[w].phase = "executing"

Cancels(w, j) == remote[w].running = j

RemoteCancel(w) ==
  LET m == Head(inbox[w]) IN
  /\ Receives(w, "cancel") /\ Consume(w)
  /\ remote' = [remote EXCEPT ![w].aborted = @ \/ Cancels(w, m.job)]
  /\ HostUnchanged /\ UNCHANGED <<outbox, faults>>

RemoteRun(w) ==
  LET m == Head(inbox[w]) IN
  /\ Receives(w, "run") /\ Consume(w)
  /\ IF Accepts(remote[w], m)
     THEN remote' = [remote EXCEPT ![w].running = m.job,
                                   ![w].program = m.program,
                                   ![w].phase = "waiting",
                                   ![w].aborted = FALSE]
     ELSE Dies(w)
  /\ HostUnchanged /\ UNCHANGED <<outbox, faults>>

\* A reply to a host that has lost the worker, and so detached, goes nowhere.
Reply(w, kind) ==
  outbox' = IF w \in workers
            THEN [outbox EXCEPT ![w] = Append(@, [kind |-> kind,
                                                  job |-> remote[w].running])]
            ELSE outbox

\* Running j ends with a response, leaving program p in the given state.
Respond(w, kind, state) ==
  /\ Reply(w, kind)
  /\ remote' = [remote EXCEPT ![w].programs[remote[w].program] = state,
                              ![w].running = NoJob,
                              ![w].program = NoJob,
                              ![w].phase = "none",
                              ![w].aborted = FALSE]

ErrorKind(w) == IF remote[w].aborted THEN "cancelled" ELSE "failed"

\* What the run awaits before it starts is broken.
Blocked(w) == \/ remote[w].poisoned
              \/ remote[w].programs[remote[w].program] \in {"absent", "broken"}

\* After `retirement` and the instance have resolved, the job starts.
RemoteStarts(w) ==
  /\ remote[w].up /\ remote[w].phase = "waiting" /\ ~Blocked(w)
  /\ remote' = [remote EXCEPT ![w].programs[remote[w].program] = "live",
                              ![w].phase = "executing"]
  /\ Reply(w, "started")
  /\ HostUnchanged /\ UNCHANGED <<inbox, faults>>

\* The run awaits a rejected promise: the job fails without starting.
RemoteRefuses(w) ==
  /\ remote[w].up /\ remote[w].phase = "waiting" /\ Blocked(w)
  /\ Respond(w, ErrorKind(w), remote[w].programs[remote[w].program])
  /\ HostUnchanged /\ UNCHANGED <<inbox, faults>>

\* Instantiating the program fails, or restoring the shared arguments does.
RemoteStartFails(w) ==
  /\ remote[w].up /\ remote[w].phase = "waiting" /\ ~Blocked(w) /\ Fault
  /\ \/ /\ remote[w].programs[remote[w].program] = "fresh"
        /\ Respond(w, ErrorKind(w), "broken")
     \/ Respond(w, ErrorKind(w), "live")
  /\ HostUnchanged /\ UNCHANGED inbox

RemoteReturns(w) ==
  /\ remote[w].up /\ remote[w].phase = "executing"
  /\ Respond(w, "returned", "live")
  /\ HostUnchanged /\ UNCHANGED <<inbox, faults>>

\* The callback throws; a trap discards the instance.
RemoteFails(w) ==
  /\ remote[w].up /\ remote[w].phase = "executing"
  /\ \E state \in {"live", "fresh"} : Respond(w, ErrorKind(w), state)
  /\ HostUnchanged /\ UNCHANGED <<inbox, faults>>

RemoteCrashes(w) ==
  /\ remote[w].up /\ Fault /\ Dies(w)
  /\ HostUnchanged /\ UNCHANGED wireVars

-----------------------------------------------------------------------------
Host ==
  \/ \E c \in Callbacks, p \in Priority : Execute(c, p)
  \/ \E c \in Callbacks : Promote(c)
  \/ \E j \in JobIds : AbortQueued(j)
  \/ \E j \in JobIds : AbortRunning(j)
  \/ \E j \in JobIds, w \in Workers : Place(j, w)
  \/ \E j \in JobIds, w \in Workers : PlaceFails(j, w)
  \/ \E j \in JobIds : StartFails(j)
  \/ DispatchReturns
  \/ \E w \in Workers : OnMessage(w)
  \/ \E w \in Workers : OnError(w)
  \/ \E w \in Workers : Retire(w)
  \/ Close
  \/ CloseDrained
  \/ \E w \in Workers : CloseTerminates(w)
  \/ Closed

Worker(w) ==
  \/ RemoteInstall(w)
  \/ RemoteUninstall(w)
  \/ RemoteCancel(w)
  \/ RemoteRun(w)
  \/ RemoteStarts(w)
  \/ RemoteRefuses(w)
  \/ RemoteStartFails(w)
  \/ RemoteReturns(w)
  \/ RemoteFails(w)
  \/ RemoteCrashes(w)

Next == Host \/ \E w \in Workers : Worker(w)

Spec == Init /\ [][Next]_vars

(***************************************************************************)
(* Fairness: event loops deliver every event, a worker takes its messages, *)
(* and required or cancelled work ends (cancelled work at a polling        *)
(* checkpoint).  Speculative work that nobody demands may run forever.     *)
(***************************************************************************)
Delivers(w) ==
  RemoteInstall(w) \/ RemoteUninstall(w) \/ RemoteCancel(w) \/ RemoteRun(w)

EndsDemanded(w) ==
  /\ remote[w].running # NoJob
  /\ remote[w].aborted \/ job[remote[w].running].priority = "required"
  /\ RemoteReturns(w) \/ RemoteFails(w)

Fairness ==
  /\ WF_vars((\E j \in JobIds, w \in Workers : Place(j, w)) \/ DispatchReturns)
  /\ WF_vars(CloseDrained) /\ WF_vars(Closed)
  /\ \A w \in Workers :
       /\ WF_vars(OnMessage(w)) /\ WF_vars(OnError(w)) /\ WF_vars(Retire(w))
       /\ WF_vars(CloseTerminates(w))
       /\ WF_vars(Delivers(w))
       /\ WF_vars(RemoteStarts(w) \/ RemoteRefuses(w))
       /\ WF_vars(EndsDemanded(w))

FairSpec == Spec /\ Fairness

-----------------------------------------------------------------------------
(* What the pool promises.                                                 *)

(***************************************************************************)
(* Queues, slots and jobs agree: a job is linked in the queue of its       *)
(* priority exactly while it is pending and has no worker, never twice; a  *)
(* worker of the pool is in #idle exactly while it has no job; and         *)
(* worker.job and job.worker name each other exactly while the job is      *)
(* pending.  So #finish is never called for a job that has left #pending   *)
(* ("worker job completed twice"), not even by a late retirement.          *)
(***************************************************************************)
Waiting(j) == j \in Pending /\ job[j].worker = NoWorker

QueuesAgree ==
  /\ Distinct(required) /\ Distinct(speculative)
  /\ \A j \in JobIds :
       /\ Linked(required, j) <=> Waiting(j) /\ job[j].priority = "required"
       /\ Linked(speculative, j) <=>
            Waiting(j) /\ job[j].priority = "speculative"

SlotsAgree ==
  /\ \A w \in Workers : busy[w] # NoJob => /\ busy[w] \in Pending
                                           /\ job[busy[w]].worker = w
                                           /\ w \in workers \union retiring
  /\ \A j \in Pending : job[j].worker # NoWorker => busy[job[j].worker] = j

IdleAgrees ==
  /\ Distinct(idle)
  /\ \A w \in Workers : Linked(idle, w) <=> w \in workers /\ busy[w] = NoJob

\* Identities are used in order and once, and a drained pool is drained.
NumbersAgree ==
  /\ workers \intersect retiring = {}
  /\ \A w \in workers \union retiring : w <= workersStarted
  /\ \A j \in JobIds : j >= nextJob => job[j].status = "unsubmitted"
  /\ \A j \in Pending : job[j].callback \in Callbacks
  /\ closing \in {"terminating", "closed"} => Pending = {}
  /\ \A w \in Workers : remote[w].phase # "none" => remote[w].running # NoJob

Bookkeeping == QueuesAgree /\ SlotsAgree /\ IdleAgrees /\ NumbersAgree

(***************************************************************************)
(* #activeSpeculative is the number of speculative jobs that hold a worker,*)
(* through promotion, failure, cancellation and worker loss, and leaves    *)
(* one worker of the pool to required work.                                *)
(***************************************************************************)
Speculating == {j \in Pending : /\ job[j].worker # NoWorker
                                /\ job[j].priority = "speculative"}

SpeculationReserve ==
  /\ activeSpeculative = Cardinality(Speculating)
  /\ activeSpeculative < Size

(***************************************************************************)
(* The host never posts a request that serveWorker throws on: a program    *)
(* installed twice or retired while absent or while a job runs, jobs that  *)
(* overlap, a run whose program is not installed.                          *)
(***************************************************************************)
WorkerAccepts ==
  \A w \in Workers :
    remote[w].up =>
      /\ inbox[w] # <<>> => Accepts(remote[w], Head(inbox[w]))
      /\ remote[w].phase = "waiting" =>
           remote[w].programs[remote[w].program] # "absent"

(***************************************************************************)
(* No response of a worker that the pool still listens to is stale: the    *)
(* handler never answers a correct worker by losing it.                    *)
(***************************************************************************)
HostAccepts ==
  \A w \in Workers :
    Attached(w) /\ outbox[w] # <<>> => ~Rejects(w, Head(outbox[w]))

(***************************************************************************)
(* Host and workers never meet a message that their checks reject          *)
(* (serveWorker's "received ..." errors, onMessage of #startWorker).       *)
(***************************************************************************)
ProtocolHolds == WorkerAccepts /\ HostAccepts

(***************************************************************************)
(* A completion settles only when no worker still works on the job, so     *)
(* what the job borrowed may be reused.  The one exception, a terminate()  *)
(* that rejects, is recorded for close() to report.                        *)
(***************************************************************************)
NoWorkAfterSettling ==
  \A w \in Workers :
    remote[w].up /\ remote[w].running # NoJob =>
      remote[w].running \in Pending \/ cleanupFailed

(***************************************************************************)
(* Outside #dispatch an open pool has no required job waiting for a worker *)
(* that is idle or could be created: no event that frees capacity forgets  *)
(* the queue.                                                              *)
(***************************************************************************)
RequiredNotStranded ==
  ~dispatching /\ closing = "open" /\ required # <<>> => ~CanPlace

(***************************************************************************)
(* At most once: a job keeps the first worker it is given and its first    *)
(* outcome, and a worker begins to execute only a job that it alone was    *)
(* given and that no worker has begun before.                              *)
(***************************************************************************)
AtMostOnce ==
  [][\A j \in JobIds :
       /\ job[j].worker # NoWorker => job'[j].worker = job[j].worker
       /\ job[j].status \in Settled => job'[j] = job[j]
       /\ \A w \in Workers :
            remote[w].running # j /\ remote'[w].running = j =>
              /\ job[j].worker = w /\ ~job[j].started
              /\ \A i \in 1..Len(outbox[w]) : outbox[w][i].job # j
    ]_vars

(***************************************************************************)
(* The pool implements JobService: waiting, placement, promotion, eviction,*)
(* worker loss and close() are invisible to the caller of a job beyond its *)
(* one start on one worker of its own and its one outcome.                 *)
(***************************************************************************)
PhaseOf(j) ==
  IF job[j].status # "pending" THEN job[j].status
  ELSE IF job[j].worker = NoWorker THEN "queued" ELSE "running"

Service == INSTANCE JobService WITH
  Jobs   <- JobIds,
  phase  <- [j \in JobIds |-> PhaseOf(j)],
  holder <- [j \in JobIds |-> job[j].worker],
  open   <- closing = "open"

ImplementsJobService == Service!Spec

-----------------------------------------------------------------------------
(* Progress.                                                               *)

(***************************************************************************)
(* Required work settles even when speculative work diverges: the reserved *)
(* worker, promotion and the replacement of lost workers suffice.          *)
(***************************************************************************)
RequiredSettles ==
  \A j \in JobIds :
    (job[j].status = "pending" /\ job[j].priority = "required")
      ~> (job[j].status \in Settled)

(***************************************************************************)
(* Aborted work settles, speculative and divergent work included.          *)
(***************************************************************************)
AbortedSettles ==
  \A j \in JobIds :
    (job[j].status = "pending" /\ job[j].aborted) ~> (job[j].status \in Settled)

(***************************************************************************)
(* close() ends: it waits for no job or worker that nothing will settle.   *)
(***************************************************************************)
CloseEnds == (closing = "draining") ~> (closing = "closed")

(***************************************************************************)
(* Whatever is waited for comes: required jobs, aborted jobs and close()   *)
(* (#dispatch after every event that frees a worker, #lose, the retirement *)
(* chain of serveWorker and the three waits of close()).                   *)
(***************************************************************************)
Progress == RequiredSettles /\ AbortedSettles /\ CloseEnds
=============================================================================
