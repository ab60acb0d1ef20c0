-------------------------------- MODULE Spark --------------------------------
(***************************************************************************)
(* src/spark.ts with src/callbacks.ts: one run of Spark.scope, the jobs it *)
(* admits, the operations its body and its jobs call on their handles, and *)
(* the way it ends.  Jobs of `parallel` and `speculate` run in a pool,     *)
(* which is the abstract JobService; WorkerPool implements it.             *)
(*                                                                         *)
(* Everything runs on one JavaScript thread: what happens between two      *)
(* awaits is one step.  The scopes of the run and of its jobs are cut down *)
(* to what Spark relies on: HostScope is the model of them.                *)
(*                                                                         *)
(* Values: a computation ends with Value or with a cause.  Causes are told *)
(* apart as far as the code compares them by identity.                     *)
(***************************************************************************)
EXTENDS Naturals, FiniteSets

CONSTANTS
  MaxJobs,   \* bound: jobs ever spawned
  MaxFaults  \* bound: errors of programs, workers and cleanups

ASSUME BoundAssumption == MaxJobs \in Nat \ {0} /\ MaxFaults \in Nat

Jobs   == 1..MaxJobs
Body   == 0
Actors == Jobs \union {Body}

VARIABLES
  spark,   \* the SparkScope and how far runScope has come
  actor,   \* the callbacks of the body and of the jobs
  job,     \* SparkJob objects, with scope, handle and CallbackState
  pool,    \* phase of the jobs in the pool
  worker,  \* and the workers that have them
  open,    \* the pool is not closed; it outlives the run
  faults   \* errors so far

poolVars == <<pool, worker, open>>
vars == <<spark, actor, job, poolVars, faults>>

Service == INSTANCE JobService WITH
  Workers <- Jobs, NoWorker <- Body,
  phase <- pool, holder <- worker

(***************************************************************************)
(* "own" is an error of an actor's program or worker, "cleanup" one of the *)
(* close() of a job's scope and "aggregate" the two together; the others   *)
(* are the reasons a scope is cancelled with.                              *)
(***************************************************************************)
Cause(kind, a) == [kind |-> kind, of |-> a]

Value     == Cause("value", Body)
NoCause   == Cause("none", Body)
Outer     == Cause("outer", Body)
Cancelled == Cause("cancelled", Body)
Unused    == Cause("unused", Body)
Ended     == Cause("closed", Body)

\* What runScope throws for failures of its jobs.
SparkFailed == Cause("aggregate", Body)

Causes == {Value, NoCause, Outer, Cancelled, Unused, Ended}
            \union {Cause("own", a) : a \in Actors}
            \union {Cause(kind, j) : kind \in {"cleanup", "aggregate"}, j \in Actors}

(***************************************************************************)
(* `step` is where runScope waits: for the body, for unused speculation,   *)
(* for the jobs, or for its own close().                                   *)
(***************************************************************************)
SparkScope == [step : {"body", "unused", "jobs", "close", "over"},
               reason : Causes, failures : SUBSET Causes,
               waits : SUBSET Jobs, outcome : Causes]

\* A callback, and the operation of which it awaits the end.
Actor == [call : {"none", "called", "running", "pooled", "ended"},
          op : {"none", "join", "cancel"}, on : Actors, result : Causes]

(***************************************************************************)
(* `use` is what consumed the handle, `holder` the actor that has it.      *)
(* `priority` is CallbackState.priority, `admitted` PendingJob.priority;   *)
(* `life` and `reason` are of the job's scope, `cleanup` says that its     *)
(* close() rejected, `complete` that the outcome is there.                 *)
(***************************************************************************)
SparkJob == [kind : {"none", "spawn", "parallel", "speculate"},
             handle : {"none", "held", "releasing", "released"},
             holder : Actors, use : {"none", "join", "cancel"},
             priority : {"required", "speculative"},
             admitted : {"none", "required", "speculative"},
             life : {"open", "closing", "closed"}, reason : Causes,
             cleanup : BOOLEAN, complete : BOOLEAN]

\* Types.
TypeOK ==
  /\ spark \in SparkScope /\ actor \in [Actors -> Actor]
  /\ job \in [Jobs -> SparkJob] /\ faults \in 0..MaxFaults
  /\ Service!TypeOK

NoActor == [call |-> "none", op |-> "none", on |-> Body, result |-> NoCause]

NoJob == [kind |-> "none", handle |-> "none", holder |-> Body,
          use |-> "none", priority |-> "required", admitted |-> "none",
          life |-> "open", reason |-> NoCause, cleanup |-> FALSE,
          complete |-> FALSE]

Init ==
  /\ spark = [step |-> "body", reason |-> NoCause, failures |-> {},
              waits |-> {}, outcome |-> NoCause]
  /\ actor = [a \in Actors |->
                IF a = Body THEN [NoActor EXCEPT !.call = "running"]
                ELSE NoActor]
  /\ job = [j \in Jobs |-> NoJob]
  /\ Service!Init
  /\ faults = 0

Made == {j \in Jobs : job[j].kind # "none"}

\* The first reason stays.
First(old, new) == IF old = NoCause THEN new ELSE old

\* The reason of the scope an actor runs in.
Reason(a) == IF a = Body THEN spark.reason ELSE job[a].reason

Aborted(a) == Reason(a) # NoCause

\* How a call may throw.
Throws(a) == {Cause("own", a)} \union ({Reason(a)} \ {NoCause})

\* SparkJob.state, before the handle is released.
Joining(j) == job[j].use = "join" /\ job[j].handle # "released"

Available(j) == job[j].use = "none" /\ job[j].handle # "released"

\* What complete() is called with.
Outcome(j) ==
  LET result == actor[j].result
  IN  IF ~job[j].cleanup THEN result
      ELSE Cause(IF result = Value THEN "cleanup" ELSE "aggregate", j)

Fault(happens) ==
  /\ happens => faults < MaxFaults
  /\ faults' = IF happens THEN faults + 1 ELSE faults

-----------------------------------------------------------------------------
(* Cancellation and close() *)

\* lifetime.cancel(c): it reaches the scopes of all jobs.
CancelAll(table, c) ==
  [j \in Jobs |-> IF table[j].kind = "none" THEN table[j]
                  ELSE [table[j] EXCEPT !.reason = First(@, c)]]

\* close(c) of the scopes of the jobs S, up to its first await.
BeginClose(table, S, c) ==
  [j \in Jobs |->
     IF j \in S
     THEN [table[j] EXCEPT !.reason = First(@, c),
                           !.life = IF @ = "open" THEN "closing" ELSE @]
     ELSE table[j]]

\* A failure is recorded and cancels the scope; the jobs become `table`.
Fails(c, table) ==
  /\ spark' = [spark EXCEPT !.failures = @ \union {c},
                            !.reason = First(@, c)]
  /\ job' = CancelAll(table, c)

\* The outcome of runScope is known: the scope is closed.
CloseWith(c) ==
  /\ spark' = [spark EXCEPT !.step = "close", !.outcome = c, !.waits = {},
                            !.reason = First(@, Ended)]
  /\ job' = BeginClose(job, Made, First(spark.reason, Ended))

-----------------------------------------------------------------------------
(* Callbacks end *)

\* Mutant: the cancellation of a job counts as a failure of it.
RecordsCancelled(j, r) ==
  r # Value /\ (job[j].kind # "speculate" \/ Joining(j))

\* The result of a callback fails the scope.
Records(j, r) ==
  /\ r # Value /\ (job[j].kind # "speculate" \/ Joining(j))
  /\ job[j].reason = NoCause \/ r # job[j].reason

\* #runJob after work.call(): it records a failure and closes the scope.
RunJob(j, r) ==
  IF Records(j, r)
  THEN Fails(r, BeginClose(job, {j}, r))
  ELSE /\ job' = BeginClose(job, {j}, Ended)
       /\ UNCHANGED spark

\* Mutant: it is the demanded speculation that is closed.
UnusedJobsConsumed ==
  {j \in Made : job[j].kind = "speculate" /\ Joining(j) /\ ~job[j].complete}

\* Speculation that nobody has demanded when the body returns.
UnusedJobs ==
  {j \in Made : job[j].kind = "speculate" /\ Available(j) /\ ~job[j].complete}

\* runScope after body.call().
BodyEnds(r) ==
  IF r = Value
  THEN /\ spark' = [spark EXCEPT !.step = "unused", !.waits = UnusedJobs]
       /\ job' = BeginClose(job, UnusedJobs, Unused)
  ELSE CloseWith(r)

CallEnds(a, r) ==
  /\ actor' = [actor EXCEPT ![a] = [NoActor EXCEPT !.call = "ended",
                                                   !.result = r]]
  /\ IF a = Body THEN BodyEnds(r) ELSE RunJob(a, r)

(***************************************************************************)
(* The microtask of call(): start() or execute(), which look at the signal *)
(* and, in a pool, at the priority that the callback has by now.           *)
(***************************************************************************)
Launch(j) ==
  /\ actor[j].call = "called" /\ ~Aborted(j)
  /\ IF job[j].kind = "spawn"
     THEN /\ actor' = [actor EXCEPT ![j].call = "running"]
          /\ UNCHANGED <<job, poolVars>>
     ELSE /\ actor' = [actor EXCEPT ![j].call = "pooled"]
          /\ job' = [job EXCEPT ![j].admitted = job[j].priority]
          /\ Service!Submit(j)
  /\ UNCHANGED <<spark, faults>>

LaunchFails(j) ==
  /\ actor[j].call = "called"
  /\ \E r \in Throws(j) : Fault(r = Cause("own", j)) /\ CallEnds(j, r)
  /\ UNCHANGED poolVars

\* A call of the guest on this thread ends; a cancelled one throws.
Returns(a) ==
  /\ actor[a].call = "running" /\ actor[a].op = "none"
  /\ \E r \in Throws(a) \union (IF Aborted(a) THEN {} ELSE {Value}) :
       Fault(r = Cause("own", a)) /\ CallEnds(a, r)
  /\ UNCHANGED poolVars

PoolStarts(j) ==
  /\ Service!Start(j, j)
  /\ UNCHANGED <<spark, actor, job, faults>>

PoolReturns(j) ==
  /\ actor[j].call = "pooled" /\ ~Aborted(j)
  /\ Service!Settle(j, "value") /\ CallEnds(j, Value)
  /\ UNCHANGED faults

PoolFails(j) ==
  /\ actor[j].call = "pooled" /\ Service!Settle(j, "error")
  /\ \E r \in Throws(j) : Fault(r = Cause("own", j)) /\ CallEnds(j, r)

-----------------------------------------------------------------------------
(* The scope of a job closes, and its handle is released *)

\* close() of the job's scope waits for the callback.
LifeCloses(j, fails) ==
  /\ job[j].life = "closing" /\ actor[j].call = "ended"
  /\ Fault(fails)
  /\ job' = [job EXCEPT ![j].life = "closed", ![j].cleanup = fails]
  /\ UNCHANGED <<spark, actor, poolVars>>

\* The end of #runJob.
Completes(j) ==
  LET table == [job EXCEPT ![j].complete = TRUE]
  IN  /\ job[j].life = "closed" /\ ~job[j].complete
      /\ IF job[j].cleanup THEN Fails(Outcome(j), table)
         ELSE job' = table /\ UNCHANGED spark
      /\ UNCHANGED <<actor, poolVars, faults>>

\* The disposer of the handle may end.
Disposer(j) ==
  IF job[j].use = "join" THEN job[j].complete
  ELSE job[j].life = "closed" /\ (job[j].cleanup \/ job[j].complete)

HandleReleased(j) ==
  /\ job[j].handle = "releasing" /\ Disposer(j)
  /\ job' = [job EXCEPT ![j].handle = "released"]
  /\ UNCHANGED <<spark, actor, poolVars, faults>>

-----------------------------------------------------------------------------
(* Operations *)

Held(a) == {j \in Made : job[j].handle = "held" /\ job[j].holder = a}

\* a is in the guest and may call an operation.
Acts(a) ==
  actor[a].call = "running" /\ actor[a].op = "none" /\ ~Aborted(a)

(***************************************************************************)
(* spawn, parallel and speculate.  Work on this thread may capture handles *)
(* of its spawner; work for the pool captures no resources.                *)
(***************************************************************************)
Spawn(a, kind, captures) ==
  LET j == Cardinality(Made) + 1
      priority == IF kind = "speculate" THEN "speculative" ELSE "required"
      new == [NoJob EXCEPT !.kind = kind, !.priority = priority,
                           !.handle = "held", !.holder = a]
  IN  /\ Acts(a) /\ spark.step = "body" /\ j \in Jobs
      /\ captures \subseteq Held(a)
      /\ kind # "spawn" => captures = {}
      /\ job' = [k \in Jobs |->
                   IF k = j THEN new
                   ELSE IF k \in captures THEN [job[k] EXCEPT !.holder = j]
                   ELSE job[k]]
      /\ actor' = [actor EXCEPT ![j].call = "called"]
      /\ UNCHANGED <<spark, poolVars, faults>>

\* a consumes the handle of j and waits.
Consumes(a, j, op) ==
  /\ Acts(a) /\ j \in Held(a)
  /\ actor' = [actor EXCEPT ![a].op = op, ![a].on = j]
  /\ UNCHANGED <<poolVars, faults>>

\* Both the callback and, if it is there, the job in the pool are promoted.
DemandHostCallback(j) ==
  [job[j] EXCEPT !.priority = "required",
                 !.admitted = IF @ = "speculative" THEN "required" ELSE @]

Join(a, j) ==
  LET demanded == IF actor[j].call # "ended" THEN DemandHostCallback(j)
                  ELSE job[j]
  IN  /\ Consumes(a, j, "join")
      /\ job' = [job EXCEPT ![j] = [demanded EXCEPT !.use = "join",
                                                    !.handle = "releasing"]]
      /\ UNCHANGED spark

Cancel(a, j) ==
  /\ Consumes(a, j, "cancel")
  /\ job' = BeginClose([job EXCEPT ![j].use = "cancel",
                                   ![j].handle = "releasing"], {j}, Cancelled)
  /\ UNCHANGED spark

\* What the operation throws that a waits for.
Thrown(a) ==
  LET j == actor[a].on
  IN  IF actor[a].op = "join"
      THEN IF Outcome(j) = Value THEN NoCause ELSE Outcome(j)
      ELSE IF job[j].cleanup THEN Cause("cleanup", j) ELSE NoCause

\* The operation returns or throws; then the call looks at its signal.
Resumes(a) ==
  LET cause == First(Thrown(a), Reason(a))
  IN  /\ actor[a].op # "none" /\ job[actor[a].on].handle = "released"
      /\ IF cause # NoCause THEN CallEnds(a, cause)
         ELSE /\ actor' = [actor EXCEPT ![a].op = "none", ![a].on = Body]
              /\ UNCHANGED <<spark, job>>
      /\ UNCHANGED <<poolVars, faults>>

-----------------------------------------------------------------------------
(* runScope after the body *)

\* Unused speculation is closed, or a close() of it has rejected.
UnusedClosed ==
  LET rejected == {j \in spark.waits : job[j].life = "closed" /\ job[j].cleanup}
  IN  /\ spark.step = "unused"
      /\ IF rejected # {}
         THEN CloseWith(SparkFailed)
         ELSE /\ \A j \in spark.waits : job[j].life = "closed"
              /\ spark' = [spark EXCEPT !.step = "jobs", !.waits = {}]
              /\ UNCHANGED job
      /\ UNCHANGED <<actor, poolVars, faults>>

\* All outcomes are there: the failures, as one error, or the result.
JobsJoined ==
  /\ spark.step = "jobs" /\ \A j \in Made : job[j].complete
  /\ CloseWith(IF spark.failures = {} THEN Value ELSE SparkFailed)
  /\ UNCHANGED <<actor, poolVars, faults>>

JobScopesClosed == \A j \in Made : job[j].life = "closed"

\* close() has closed the scopes of the jobs and disposes what handles remain.
DisposeHandles ==
  LET left == {j \in Made : job[j].handle = "held"}
  IN  /\ spark.step = "close" /\ JobScopesClosed /\ left # {}
      /\ job' = [j \in Jobs |-> IF j \in left
                                THEN [job[j] EXCEPT !.handle = "releasing"]
                                ELSE job[j]]
      /\ UNCHANGED <<spark, actor, poolVars, faults>>

Over ==
  /\ spark.step = "close" /\ JobScopesClosed
  /\ \A j \in Made : job[j].handle = "released"
  /\ spark' = [spark EXCEPT !.step = "over"]
  /\ UNCHANGED <<actor, job, poolVars, faults>>

\* The caller's scope is cancelled.
OuterAbort ==
  /\ spark.step # "over" /\ spark.reason = NoCause
  /\ spark' = [spark EXCEPT !.reason = Outer]
  /\ job' = CancelAll(job, Outer)
  /\ UNCHANGED <<actor, poolVars, faults>>

-----------------------------------------------------------------------------
Operation(a) ==
  \/ \E kind \in {"spawn", "parallel", "speculate"} :
       \E captures \in SUBSET Held(a) : Spawn(a, kind, captures)
  \/ \E j \in Jobs : Join(a, j) \/ Cancel(a, j)

\* Promises that have settled are continued.
Continues(j) ==
  \/ Launch(j) \/ LaunchFails(j)
  \/ \E fails \in BOOLEAN : LifeCloses(j, fails)
  \/ Completes(j) \/ HandleReleased(j)

RunScope == UnusedClosed \/ JobsJoined \/ DisposeHandles \/ Over

Pool(j) == PoolStarts(j) \/ PoolReturns(j) \/ PoolFails(j)

Next ==
  \/ \E a \in Actors : Operation(a) \/ Resumes(a) \/ Returns(a)
  \/ \E j \in Jobs : Continues(j) \/ Pool(j)
  \/ RunScope \/ OuterAbort

Spec == Init /\ [][Next]_vars

(***************************************************************************)
(* Jobs on this thread come to an end, the body at least when its scope is *)
(* cancelled.  The pool serves what is required or cancelled, no more.     *)
(***************************************************************************)
Served(j) == job[j].admitted = "required" \/ Aborted(j)

Fairness ==
  /\ \A a \in Actors : WF_vars(Resumes(a))
  /\ \A j \in Jobs : /\ WF_vars(Continues(j)) /\ WF_vars(Returns(j))
                     /\ WF_vars(Served(j) /\ Pool(j))
  /\ WF_vars(Aborted(Body) /\ Returns(Body))
  /\ WF_vars(RunScope)

FairSpec == Spec /\ Fairness

-----------------------------------------------------------------------------
(* Properties *)

(***************************************************************************)
(* "Spark.join spark demands its result and promotes it" (LANGUAGE.md),    *)
(* wherever the callback is: waiting for its microtask, in the queue of    *)
(* the pool or on a worker.                                                *)
(***************************************************************************)
DemandKept ==
  \A j \in Made : (Joining(j) /\ actor[j].call \in {"called", "pooled"})
    => job[j].priority = "required" /\ job[j].admitted # "speculative"

(***************************************************************************)
(* "A failed job cancels the scope and its siblings", "A speculative       *)
(* failure is buffered until demand" (LANGUAGE.md).  What is recorded as a *)
(* failure is one: not the cancellation that another failure or the end of *)
(* a scope has caused, and not an error of speculation that nobody joined. *)
(* The exception is speculation dropped when the body returned and joined  *)
(* by a job that was still running.                                        *)
(***************************************************************************)
Genuine(c) ==
  \/ c.kind \in {"cleanup", "aggregate", "outer"}
  \/ c.kind = "own" /\ c.of \in Made
       /\ (job[c.of].kind = "speculate" => job[c.of].use = "join")
  \/ c = Unused /\ \E j \in Made : job[j].kind = "speculate"
                                     /\ job[j].use = "join"

FailuresGenuine ==
  /\ spark.step \in {"body", "unused", "jobs"} =>
       \A c \in spark.failures : Genuine(c)
  /\ spark.failures # {} => spark.reason # NoCause
  /\ spark.reason \in spark.failures \union {NoCause, Outer, Ended}

(***************************************************************************)
(* A scope that returns a value has lost no failure: unless its caller was *)
(* cancelled, each job that was required or joined has returned a value,   *)
(* or was cancelled by the program.                                        *)
(***************************************************************************)
NothingLost ==
  (spark.outcome = Value /\ spark.reason # Outer) =>
    \A j \in Made :
      /\ ~job[j].cleanup
      /\ (job[j].kind # "speculate" \/ job[j].use = "join")
           => Outcome(j) = Value \/ (job[j].use = "cancel" /\ Outcome(j) = Cancelled)

(***************************************************************************)
(* When the operation returns, no callback of the scope is left, here or   *)
(* in the pool, and nobody waits for one.  Every job is retired, but for   *)
(* one that nobody joined and whose cleanup failed: the release of such a  *)
(* handle does not wait for #runJob.                                       *)
(***************************************************************************)
Drained ==
  spark.step = "over" =>
    /\ \A a \in Made \union {Body} :
         actor[a].call = "ended" /\ actor[a].op = "none"
    /\ \A j \in Made :
         /\ pool[j] \notin {"queued", "running"} /\ job[j].handle = "released"
         /\ job[j].complete \/ (job[j].cleanup /\ job[j].use # "join")

SparkSound ==
  TypeOK /\ DemandKept /\ FailuresGenuine /\ NothingLost /\ Drained

(***************************************************************************)
(* A scope whose body has ended, or that is cancelled, comes to its end,   *)
(* speculation that diverges included; and join and cancel come back.      *)
(***************************************************************************)
ScopeEnds ==
  (spark.step # "body" \/ spark.reason # NoCause) ~> (spark.step = "over")

ConsumersReturn ==
  \A a \in Actors : (actor[a].op # "none") ~> (actor[a].op = "none")

SparkProgress == ScopeEnds /\ ConsumersReturn
=============================================================================
