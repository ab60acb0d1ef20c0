----------------------------- MODULE SparkProofs -----------------------------
(***************************************************************************)
(* Proofs about Spark for every number of jobs and faults.                 *)
(***************************************************************************)
EXTENDS Spark, Integers, FiniteSetTheorems, TLAPS

\* The scope still takes in failures.
Early == spark.step \in {"body", "unused", "jobs"}

\* Jobs are numbered as they are spawned.
MadeAgree == \E n \in 0..MaxJobs : Made = 1..n

\* How far a job, its callback, its scope and its handle have come.
JobAgrees(j) ==
  /\ job[j].kind = "none" =>
       job[j] = NoJob /\ actor[j] = NoActor /\ pool[j] = "unsubmitted"
  /\ job[j].kind # "none" => actor[j].call # "none" /\ job[j].handle # "none"
  /\ actor[j].call = "running" => job[j].kind = "spawn"
  /\ actor[j].call = "pooled" <=> pool[j] \in {"queued", "running"}
  /\ actor[j].call = "ended" => job[j].life # "open" /\ actor[j].result # NoCause
  /\ job[j].life # "open" => job[j].reason # NoCause
  /\ job[j].life = "closed" => actor[j].call = "ended"
  /\ job[j].cleanup \/ job[j].complete => job[j].life = "closed"
  /\ job[j].use # "none" => job[j].handle \in {"releasing", "released"}
  /\ job[j].handle = "released" =>
       /\ job[j].life = "closed" /\ (job[j].cleanup \/ job[j].complete)
       /\ job[j].use = "join" => job[j].complete
  /\ (Joining(j) /\ actor[j].call \in {"called", "pooled"}) =>
       job[j].priority = "required" /\ job[j].admitted # "speculative"

JobsAgree == \A j \in Jobs : JobAgrees(j)

\* An actor in an operation is in the guest, and the operation has the handle.
OpsAgree ==
  \A a \in Actors : actor[a].op # "none" =>
    /\ actor[a].call = "running" /\ actor[a].on \in Made
    /\ job[actor[a].on].use = actor[a].op

\* Somebody waits for the outcome of j.
Joined(j) == \E a \in Actors : actor[a].op = "join" /\ actor[a].on = j

JoinsAgree ==
  \A j \in Jobs : (job[j].use = "join" /\ actor[j].call # "ended") => Joined(j)

\* Where runScope is, and what it has heard of its jobs.
BodyAgrees ==
  /\ spark.step = "body" => actor[Body].call = "running"
  /\ spark.step # "body" => actor[Body].call = "ended"
  /\ Early => spark.outcome = NoCause /\ spark.reason # Ended
  /\ ~Early => spark.reason # NoCause

EndsAgree(j) ==
  /\ spark.step = "over" => job[j].life = "closed" /\ job[j].handle = "released"
  /\ spark.outcome = Value => job[j].complete
  /\ job[j].complete /\ job[j].cleanup => spark.failures # {}

ScopeAgrees == BodyAgrees /\ \A j \in Made : EndsAgree(j)

\* The reasons that a job may be cancelled with, and the results it may have.
MayBe(j, c) ==
  \/ c = NoCause \/ Genuine(c)
  \/ c = Cancelled /\ job[j].use = "cancel"
  \/ c = Unused /\ job[j].kind = "speculate"

\* A reason that cancels j alone.
Mild(j) ==
  \/ job[j].reason \in {NoCause, Cancelled, Ended}
  \/ job[j].reason = Unused /\ job[j].kind = "speculate"

ReasonsAgree ==
  Early => \A j \in Made :
    /\ MayBe(j, job[j].reason) \/ (job[j].reason = Ended /\ actor[j].call = "ended")
    /\ actor[j].call = "ended" =>
         \/ actor[j].result \in {Value, Cause("own", j)}
         \/ MayBe(j, actor[j].result)
    /\ spark.reason = NoCause => Mild(j)

\* A failure is on record, or somebody is about to learn of it.
FailuresKept ==
  (Early /\ spark.reason = NoCause) => \A j \in Made :
    (/\ actor[j].call = "ended"
     /\ job[j].kind # "speculate" \/ job[j].use = "join")
    => \/ actor[j].result = Value
       \/ actor[j].result = Cancelled /\ job[j].use = "cancel"
       \/ Joined(j)

IInv ==
  /\ TypeOK /\ MadeAgree /\ JobsAgree /\ OpsAgree /\ JoinsAgree
  /\ ScopeAgrees /\ ReasonsAgree /\ FailuresKept /\ FailuresGenuine
  /\ NothingLost

-----------------------------------------------------------------------------
(* Causes, jobs and actors.                                                *)

(* The body is no job.                                                     *)
LEMMA Numbers ==
  /\ Body \notin Jobs /\ Body \in Actors /\ Jobs \subseteq Actors
  /\ MaxJobs \in Nat /\ MaxFaults \in Nat
BY BoundAssumption DEF Body, Jobs, Actors

(* A cause has its kind and its origin.                                    *)
LEMMA CauseFields ==
  ASSUME NEW k, NEW a
  PROVE  Cause(k, a).kind = k /\ Cause(k, a).of = a
BY DEF Cause

(* Causes of different kinds are different.                                *)
LEMMA CauseKinds ==
  /\ Value.kind = "value" /\ NoCause.kind = "none" /\ Outer.kind = "outer"
  /\ Cancelled.kind = "cancelled" /\ Unused.kind = "unused"
  /\ Ended.kind = "closed" /\ SparkFailed.kind = "aggregate"
BY CauseFields DEF Value, NoCause, Outer, Cancelled, Unused, Ended, SparkFailed

(* These are causes.                                                       *)
LEMMA CauseTypes ==
  /\ {Value, NoCause, Outer, Cancelled, Unused, Ended, SparkFailed} \subseteq Causes
  /\ \A a \in Actors : Cause("own", a) \in Causes
  /\ \A j \in Jobs : {Cause("cleanup", j), Cause("aggregate", j)} \subseteq Causes
<1>1. Body \in Actors BY DEF Actors
<1>2. SparkFailed \in Causes
  <2>1. PICK k \in {"cleanup", "aggregate"}, a \in Actors : k = "aggregate" /\ a = Body
    BY <1>1
  <2>2. SparkFailed = Cause(k, a) BY <2>1 DEF SparkFailed
  <2> QED BY <2>2 DEF Causes
<1>3. \A a \in Actors : Cause("own", a) \in Causes BY DEF Causes
<1>4. ASSUME NEW j \in Jobs, NEW k \in {"cleanup", "aggregate"}
      PROVE  Cause(k, j) \in Causes
  <2>1. j \in Actors BY Numbers
  <2> QED BY <2>1 DEF Causes
<1>5. {Value, NoCause, Outer, Cancelled, Unused, Ended} \subseteq Causes BY DEF Causes
<1> QED BY <1>2, <1>3, <1>4, <1>5

(* The fields of a job have their types.                                   *)
LEMMA JobTypes ==
  ASSUME TypeOK, NEW j \in Jobs
  PROVE  /\ job[j] \in SparkJob /\ job[j].kind \in {"none", "spawn", "parallel", "speculate"}
         /\ job[j].handle \in {"none", "held", "releasing", "released"}
         /\ job[j].holder \in Actors /\ job[j].use \in {"none", "join", "cancel"}
         /\ job[j].priority \in {"required", "speculative"}
         /\ job[j].admitted \in {"none", "required", "speculative"}
         /\ job[j].life \in {"open", "closing", "closed"} /\ job[j].reason \in Causes
         /\ job[j].cleanup \in BOOLEAN /\ job[j].complete \in BOOLEAN
         /\ pool[j] \in {"unsubmitted", "queued", "running", "value", "error"}
<1>1. job[j] \in SparkJob BY DEF TypeOK
<1>2. pool[j] \in {"unsubmitted", "queued", "running", "value", "error"}
  BY DEF TypeOK, Service!TypeOK, Service!Phase
<1> QED BY <1>1, <1>2 DEF SparkJob

(* The same of an actor.                                                   *)
LEMMA ActorTypes ==
  ASSUME TypeOK, NEW a \in Actors
  PROVE  /\ actor[a] \in Actor
         /\ actor[a].call \in {"none", "called", "running", "pooled", "ended"}
         /\ actor[a].op \in {"none", "join", "cancel"} /\ actor[a].on \in Actors
         /\ actor[a].result \in Causes
<1>1. actor[a] \in Actor BY DEF TypeOK
<1> QED BY <1>1 DEF Actor

(* The same of the scope.                                                  *)
LEMMA ScopeTypes ==
  ASSUME TypeOK
  PROVE  /\ spark \in SparkScope
         /\ spark.step \in {"body", "unused", "jobs", "close", "over"}
         /\ spark.reason \in Causes /\ spark.failures \subseteq Causes
         /\ spark.waits \subseteq Jobs /\ spark.outcome \in Causes
BY DEF TypeOK, SparkScope

(* The first reason stays.                                                 *)
LEMMA FirstFacts ==
  ASSUME NEW old \in Causes, NEW new \in Causes
  PROVE  /\ First(old, new) \in Causes
         /\ old # NoCause => First(old, new) = old
         /\ old = NoCause => First(old, new) = new
         /\ new # NoCause => First(old, new) # NoCause
BY DEF First

(* Cancelling the scope cancels its jobs, and that is all.                 *)
LEMMA CancelFields ==
  ASSUME NEW table \in [Jobs -> SparkJob], NEW c \in Causes
  PROVE  /\ CancelAll(table, c) \in [Jobs -> SparkJob]
         /\ \A j \in Jobs :
              /\ CancelAll(table, c)[j].kind = table[j].kind
              /\ CancelAll(table, c)[j].handle = table[j].handle
              /\ CancelAll(table, c)[j].use = table[j].use
              /\ CancelAll(table, c)[j].priority = table[j].priority
              /\ CancelAll(table, c)[j].admitted = table[j].admitted
              /\ CancelAll(table, c)[j].life = table[j].life
              /\ CancelAll(table, c)[j].cleanup = table[j].cleanup
              /\ CancelAll(table, c)[j].complete = table[j].complete
              /\ table[j].kind = "none" => CancelAll(table, c)[j] = table[j]
              /\ table[j].kind # "none" =>
                   CancelAll(table, c)[j].reason = First(table[j].reason, c)
<1> DEFINE f == CancelAll(table, c)
<1>1. ASSUME NEW j \in Jobs
      PROVE  /\ f[j] \in SparkJob /\ f[j].kind = table[j].kind
             /\ f[j].handle = table[j].handle /\ f[j].use = table[j].use
             /\ f[j].priority = table[j].priority
             /\ f[j].admitted = table[j].admitted /\ f[j].life = table[j].life
             /\ f[j].cleanup = table[j].cleanup /\ f[j].complete = table[j].complete
             /\ table[j].kind = "none" => f[j] = table[j]
             /\ table[j].kind # "none" => f[j].reason = First(table[j].reason, c)
  <2>1. CASE table[j].kind = "none"
    <3>1. f[j] = table[j] BY <2>1 DEF CancelAll
    <3> QED BY <2>1, <3>1
  <2>2. CASE table[j].kind # "none"
    <3>1. PICK t \in SparkJob : t = table[j] OBVIOUS
    <3>2. PICK r \in Causes : r = First(t.reason, c) BY FirstFacts DEF SparkJob
    <3>3. f[j] = [t EXCEPT !.reason = r] BY <2>2, <3>1, <3>2 DEF CancelAll
    <3> HIDE DEF f
    <3> QED BY <2>2, <3>1, <3>2, <3>3 DEF SparkJob
  <2> QED BY <2>1, <2>2
<1>2. f = [j \in Jobs |-> f[j]] BY DEF CancelAll
<1> HIDE DEF f
<1>3. f \in [Jobs -> SparkJob] BY <1>1, <1>2
<1> QED BY <1>1, <1>3 DEF f

(* Closing the scopes of some jobs cancels them, and that is all.          *)
LEMMA CloseFields ==
  ASSUME NEW table \in [Jobs -> SparkJob], NEW S, NEW c \in Causes
  PROVE  /\ BeginClose(table, S, c) \in [Jobs -> SparkJob]
         /\ \A j \in Jobs :
              /\ BeginClose(table, S, c)[j].kind = table[j].kind
              /\ BeginClose(table, S, c)[j].handle = table[j].handle
              /\ BeginClose(table, S, c)[j].use = table[j].use
              /\ BeginClose(table, S, c)[j].priority = table[j].priority
              /\ BeginClose(table, S, c)[j].admitted = table[j].admitted
              /\ BeginClose(table, S, c)[j].cleanup = table[j].cleanup
              /\ BeginClose(table, S, c)[j].complete = table[j].complete
              /\ j \notin S => BeginClose(table, S, c)[j] = table[j]
              /\ j \in S =>
                   /\ BeginClose(table, S, c)[j].reason = First(table[j].reason, c)
                   /\ BeginClose(table, S, c)[j].life =
                        IF table[j].life = "open" THEN "closing" ELSE table[j].life
<1> DEFINE f == BeginClose(table, S, c)
<1>1. ASSUME NEW j \in Jobs
      PROVE  /\ f[j] \in SparkJob /\ f[j].kind = table[j].kind
             /\ f[j].handle = table[j].handle /\ f[j].use = table[j].use
             /\ f[j].priority = table[j].priority
             /\ f[j].admitted = table[j].admitted
             /\ f[j].cleanup = table[j].cleanup /\ f[j].complete = table[j].complete
             /\ j \notin S => f[j] = table[j]
             /\ j \in S =>
                  /\ f[j].reason = First(table[j].reason, c)
                  /\ f[j].life = IF table[j].life = "open" THEN "closing"
                                 ELSE table[j].life
  <2>1. CASE j \notin S
    <3>1. f[j] = table[j] BY <2>1 DEF BeginClose
    <3> QED BY <2>1, <3>1
  <2>2. CASE j \in S
    <3>1. PICK t \in SparkJob : t = table[j] OBVIOUS
    <3>2. PICK r \in Causes : r = First(t.reason, c) BY FirstFacts DEF SparkJob
    <3>3. PICK l \in {"open", "closing", "closed"} :
            l = IF t.life = "open" THEN "closing" ELSE t.life
      BY DEF SparkJob
    <3>4. f[j] = [t EXCEPT !.reason = r, !.life = l]
      BY <2>2, <3>1, <3>2, <3>3 DEF BeginClose
    <3> HIDE DEF f
    <3>5. /\ f[j] \in SparkJob /\ f[j].kind = t.kind
          /\ f[j].handle = t.handle /\ f[j].use = t.use
          /\ f[j].priority = t.priority /\ f[j].admitted = t.admitted
          /\ f[j].cleanup = t.cleanup /\ f[j].complete = t.complete
          /\ f[j].reason = r /\ f[j].life = l
      BY <3>4 DEF SparkJob
    <3> QED BY <2>2, <3>1, <3>2, <3>3, <3>5
  <2> QED BY <2>1, <2>2
<1>2. f = [j \in Jobs |-> f[j]] BY DEF BeginClose
<1> HIDE DEF f
<1>3. f \in [Jobs -> SparkJob] BY <1>1, <1>2
<1> QED BY <1>1, <1>3 DEF f

-----------------------------------------------------------------------------
(* What a step may do.                                                     *)

JobMoves(i) ==
  /\ JobAgrees(i)'
  /\ job[i].kind # "none" =>
       /\ job'[i].kind = job[i].kind
       /\ job'[i].use = job[i].use \/ job[i].use = "none"
  /\ actor[i].call = "ended" =>
       actor'[i].call = "ended" /\ actor'[i].result = actor[i].result
  /\ job[i].complete => job'[i].complete /\ job'[i].cleanup = job[i].cleanup
  /\ job'[i].use = "join" => job[i].use = "join" \/ Joined(i)'
  /\ job'[i].kind # "none" => EndsAgree(i)'

\* Where the causes come from that job i is given.
CausesMove(i) ==
  /\ Early' =>
       \/ job'[i].reason = job[i].reason
       \/ MayBe(i, job[i].reason)'
       \/ job'[i].reason = Ended /\ actor'[i].call = "ended"
  /\ (Early' /\ spark'.reason = NoCause) => job'[i].reason = job[i].reason \/ Mild(i)'
  /\ (Early' /\ actor'[i].call = "ended" /\ actor[i].call # "ended") =>
       \/ actor'[i].result \in {Value, Cause("own", i)}
       \/ MayBe(i, actor[i].result)'
  /\ (/\ Early' /\ spark'.reason = NoCause
      /\ actor'[i].call = "ended" /\ actor[i].call # "ended"
      /\ job'[i].kind # "speculate" \/ job'[i].use = "join")
     => \/ actor'[i].result = Value
        \/ actor'[i].result = Cancelled /\ job'[i].use = "cancel"
        \/ Joined(i)'

\* An operation goes on, is over, or begins.
ActorMoves(a) ==
  \/ /\ actor'[a].op = actor[a].op /\ actor'[a].on = actor[a].on
     /\ actor'[a].call = actor[a].call
  \/ /\ actor'[a].op = "none"
     /\ actor[a].op # "none" =>
          /\ job[actor[a].on].handle = "released"
          /\ (Early' /\ spark'.reason = NoCause /\ actor[a].op = "join") =>
               actor[actor[a].on].result = Value
  \/ /\ actor[a].op = "none" /\ actor'[a].call = "running"
     /\ actor'[a].on \in Made /\ job'[actor'[a].on].use = actor'[a].op

ScopeMoves ==
  /\ BodyAgrees' /\ (Early' => Early)
  /\ spark.reason # NoCause => spark'.reason = spark.reason
  /\ spark.failures \subseteq spark'.failures
  /\ spark'.failures = spark.failures \/ spark'.reason # NoCause
  /\ spark'.reason \in {spark.reason, Outer, Ended} \union spark'.failures
  /\ Early' => \A c \in spark'.failures : c \in spark.failures \/ Genuine(c)'
  /\ spark'.outcome = Value =>
       /\ \/ spark.outcome = Value /\ spark'.reason = spark.reason
          \/ Early /\ spark.step # "body" /\ spark.failures = {}
       /\ \A j \in Jobs : job'[j].kind # "none" =>
            job[j].kind # "none" /\ job[j].complete /\ job'[j].use = job[j].use

Step ==
  /\ TypeOK' /\ MadeAgree' /\ ScopeMoves
  /\ \A i \in Jobs : JobMoves(i) /\ CausesMove(i)
  /\ \A a \in Actors : ActorMoves(a)

(* Who has been joined stays so until it is over.                          *)
LEMMA JoinsStay ==
  ASSUME IInv, Step, NEW j \in Jobs, Joined(j)
  PROVE  \/ Joined(j)'
         \/ /\ job[j].handle = "released"
            /\ (Early' /\ spark'.reason = NoCause) => actor[j].result = Value
<1>1. PICK a \in Actors : actor[a].op = "join" /\ actor[a].on = j BY DEF Joined
<1>2. ActorMoves(a) BY DEF Step
<1>3. CASE actor'[a].op = actor[a].op /\ actor'[a].on = actor[a].on
  BY <1>1, <1>3 DEF Joined
<1>4. CASE /\ actor'[a].op = "none"
           /\ actor[a].op # "none" =>
                /\ job[actor[a].on].handle = "released"
                /\ (Early' /\ spark'.reason = NoCause /\ actor[a].op = "join") =>
                     actor[actor[a].on].result = Value
  BY <1>1, <1>4
<1> QED BY <1>1, <1>2, <1>3, <1>4 DEF ActorMoves

(* What is genuine and what a job may have stays so.                       *)
LEMMA CausesStay ==
  ASSUME Step
  PROVE  /\ \A c : Genuine(c) => Genuine(c)'
         /\ \A i \in Made : \A c : MayBe(i, c) => MayBe(i, c)'
         /\ Made \subseteq Made'
<1>1. \A i \in Made : /\ job'[i].kind = job[i].kind
                      /\ job'[i].use = job[i].use \/ job[i].use = "none"
  BY DEF Step, JobMoves, Made
<1>2. Made \subseteq Made' BY <1>1 DEF Made
<1>3. \A c : Genuine(c) => Genuine(c)' BY <1>1, <1>2 DEF Genuine
<1>4. \A i \in Made : \A c : MayBe(i, c) => MayBe(i, c)' BY <1>1, <1>3 DEF MayBe
<1> QED BY <1>2, <1>3, <1>4

(* The operations of the actors agree with the handles.                    *)
LEMMA OpsKept ==
  ASSUME IInv, Step
  PROVE  OpsAgree' /\ JoinsAgree'
<1>1. \A i \in Made : /\ job'[i].kind = job[i].kind
                      /\ job'[i].use = job[i].use \/ job[i].use = "none"
  BY DEF Step, JobMoves, Made
<1>2. Made \subseteq Made' BY CausesStay
<1>3. ASSUME NEW a \in Actors, actor'[a].op # "none"
      PROVE  /\ actor'[a].call = "running" /\ actor'[a].on \in Made'
             /\ job'[actor'[a].on].use = actor'[a].op
  <2>1. ActorMoves(a) BY DEF Step
  <2>2. CASE /\ actor'[a].op = actor[a].op /\ actor'[a].on = actor[a].on
             /\ actor'[a].call = actor[a].call
    <3>1. PICK j \in Made : j = actor[a].on BY <1>3, <2>2 DEF IInv, OpsAgree
    <3>2. /\ actor[a].call = "running" /\ job[j].use = actor[a].op
      BY <1>3, <2>2, <3>1 DEF IInv, OpsAgree
    <3>3. job'[j].use = job[j].use BY <1>1, <1>3, <2>2, <3>2
    <3> QED BY <1>2, <2>2, <3>1, <3>2, <3>3
  <2>3. CASE /\ actor'[a].call = "running"
             /\ actor'[a].on \in Made /\ job'[actor'[a].on].use = actor'[a].op
    BY <1>2, <2>3
  <2> QED BY <1>3, <2>1, <2>2, <2>3 DEF ActorMoves
<1>4. ASSUME NEW j \in Jobs, job'[j].use = "join", actor'[j].call # "ended"
      PROVE  Joined(j)'
  <2>1. JobMoves(j) BY DEF Step
  <2>2. CASE job[j].use = "join"
    <3>1. actor[j].call # "ended" BY <1>4, <2>1 DEF JobMoves
    <3>2. Joined(j) BY <2>2, <3>1 DEF IInv, JoinsAgree
    <3>3. job[j].handle # "released"
      BY <3>1 DEF IInv, JobsAgree, JobAgrees
    <3> QED BY <3>2, <3>3, JoinsStay
  <2> QED BY <1>4, <2>1, <2>2 DEF JobMoves
<1> QED BY <1>3, <1>4 DEF OpsAgree, JoinsAgree

(* Reasons and results come from where they may.                           *)
LEMMA ReasonsKept ==
  ASSUME IInv, Step
  PROVE  ReasonsAgree'
<1> SUFFICES ASSUME Early', NEW j \in Jobs, job'[j].kind # "none"
             PROVE  /\ \/ MayBe(j, job[j].reason)'
                       \/ job'[j].reason = Ended /\ actor'[j].call = "ended"
                    /\ actor'[j].call = "ended" =>
                         \/ actor'[j].result \in {Value, Cause("own", j)}
                         \/ MayBe(j, actor[j].result)'
                    /\ spark'.reason = NoCause => Mild(j)'
  BY DEF ReasonsAgree, Made
<1>1. Early /\ (spark.reason # NoCause => spark'.reason = spark.reason)
  BY DEF Step, ScopeMoves
<1>2. JobMoves(j) /\ CausesMove(j) /\ JobAgrees(j) BY DEF Step, IInv, JobsAgree
<1>3. CASE job[j].kind = "none"
  <2>1. job[j].reason = NoCause /\ actor[j].call # "ended"
    BY <1>2, <1>3 DEF JobAgrees, NoJob, NoActor
  <2>2. NoCause # Ended BY CauseKinds
  <2>3. MayBe(j, NoCause)' BY DEF MayBe
  <2>4. job'[j].reason = NoCause => MayBe(j, job[j].reason)' BY DEF MayBe
  <2>5. job'[j].reason = NoCause => Mild(j)' BY DEF Mild
  <2> QED BY <1>2, <2>1, <2>2, <2>4, <2>5 DEF CausesMove
<1>4. CASE job[j].kind # "none"
  <2>1. j \in Made BY <1>4 DEF Made
  <2>2. /\ \/ MayBe(j, job[j].reason)
           \/ job[j].reason = Ended /\ actor[j].call = "ended"
        /\ actor[j].call = "ended" =>
             \/ actor[j].result \in {Value, Cause("own", j)}
             \/ MayBe(j, actor[j].result)
        /\ spark.reason = NoCause => Mild(j)
    BY <1>1, <2>1 DEF IInv, ReasonsAgree
  <2>3. \A c : MayBe(j, c) => MayBe(j, c)' BY <2>1, CausesStay
  <2>4. \/ MayBe(j, job[j].reason)'
        \/ job'[j].reason = Ended /\ actor'[j].call = "ended"
    <3>1. PICK c : c = job'[j].reason OBVIOUS
    <3>2. MayBe(j, c)' => MayBe(j, job[j].reason)' BY <3>1 DEF MayBe
    <3>3. CASE c = job[j].reason BY <1>2, <2>2, <2>3, <3>1, <3>2, <3>3 DEF JobMoves
    <3> QED BY <1>2, <3>1, <3>3 DEF CausesMove
  <2>5. actor'[j].call = "ended" =>
          \/ actor'[j].result \in {Value, Cause("own", j)}
          \/ MayBe(j, actor[j].result)'
    <3>1. PICK c : c = actor'[j].result OBVIOUS
    <3>2. MayBe(j, c)' => MayBe(j, actor[j].result)' BY <3>1 DEF MayBe
    <3>3. CASE actor[j].call = "ended"
      BY <1>2, <2>2, <2>3, <3>1, <3>2, <3>3 DEF JobMoves
    <3> QED BY <1>2, <3>3 DEF CausesMove
  <2>6. spark'.reason = NoCause => Mild(j)'
    <3> SUFFICES ASSUME spark'.reason = NoCause PROVE Mild(j)'
      OBVIOUS
    <3>1. Mild(j) BY <1>1, <2>2
    <3>2. job'[j].reason = job[j].reason => Mild(j)'
      BY <1>2, <1>4, <3>1 DEF Mild, JobMoves
    <3> QED BY <1>2, <3>2 DEF CausesMove
  <2> QED BY <2>4, <2>5, <2>6
<1> QED BY <1>3, <1>4

(* No failure gets lost on its way.                                        *)
LEMMA FailuresStay ==
  ASSUME IInv, Step
  PROVE  FailuresKept'
<1> SUFFICES ASSUME Early', spark'.reason = NoCause,
                    NEW j \in Jobs, job'[j].kind # "none", actor'[j].call = "ended",
                    job'[j].kind # "speculate" \/ job'[j].use = "join"
             PROVE  \/ actor'[j].result = Value
                    \/ actor'[j].result = Cancelled /\ job'[j].use = "cancel"
                    \/ Joined(j)'
  BY DEF FailuresKept, Made
<1>1. Early /\ spark.reason = NoCause BY DEF Step, ScopeMoves
<1>2. JobMoves(j) /\ CausesMove(j) /\ JobAgrees(j) BY DEF Step, IInv, JobsAgree
<1>3. CASE actor[j].call # "ended" BY <1>2, <1>3 DEF CausesMove
<1>4. CASE actor[j].call = "ended"
  <2>1. job[j].kind # "none" BY <1>2, <1>4 DEF JobAgrees, NoActor
  <2>2. /\ actor'[j].result = actor[j].result /\ job'[j].kind = job[j].kind
        /\ job'[j].use = job[j].use \/ job[j].use = "none"
    BY <1>2, <1>4, <2>1 DEF JobMoves
  <2>3. CASE job[j].kind # "speculate" \/ job[j].use = "join"
    <3>1. \/ actor[j].result = Value
          \/ actor[j].result = Cancelled /\ job[j].use = "cancel"
          \/ Joined(j)
      BY <1>1, <1>4, <2>1, <2>3 DEF IInv, FailuresKept, Made
    <3>2. CASE Joined(j) BY <2>2, <3>2, JoinsStay
    <3> QED BY <2>2, <3>1, <3>2
  <2>4. CASE ~(job[j].kind # "speculate" \/ job[j].use = "join")
    BY <1>2, <2>2, <2>4 DEF JobMoves
  <2> QED BY <2>3, <2>4
<1> QED BY <1>3, <1>4

(* Failures stay genuine.                                                  *)
LEMMA GenuineStay ==
  ASSUME IInv, Step
  PROVE  FailuresGenuine'
<1>1. ScopeMoves BY DEF Step
<1>2. Early' => \A c \in spark'.failures : Genuine(c)'
  <2> SUFFICES ASSUME Early', NEW c \in spark'.failures
               PROVE  Genuine(c)'
    OBVIOUS
  <2>1. Early BY <1>1 DEF ScopeMoves
  <2>2. CASE c \in spark.failures
    <3>1. Genuine(c) BY <2>1, <2>2 DEF IInv, FailuresGenuine, Early
    <3> QED BY <3>1, CausesStay
  <2> QED BY <1>1, <2>2 DEF ScopeMoves
<1>3. spark'.failures # {} => spark'.reason # NoCause
  BY <1>1 DEF ScopeMoves, IInv, FailuresGenuine
<1>4. spark'.reason \in spark'.failures \union {NoCause, Outer, Ended}
  BY <1>1 DEF ScopeMoves, IInv, FailuresGenuine
<1> QED BY <1>2, <1>3, <1>4 DEF FailuresGenuine, Early

(* A scope that returns a value has lost no failure.                       *)
LEMMA NothingLostStays ==
  ASSUME IInv, Step
  PROVE  NothingLost'
<1> SUFFICES ASSUME spark'.outcome = Value, spark'.reason # Outer,
                    NEW j \in Jobs, job'[j].kind # "none"
             PROVE  /\ ~job'[j].cleanup
                    /\ (job'[j].kind # "speculate" \/ job'[j].use = "join") =>
                         \/ Outcome(j)' = Value
                         \/ job'[j].use = "cancel" /\ Outcome(j)' = Cancelled
  BY DEF NothingLost, Made
<1>1. ScopeMoves /\ JobMoves(j) BY DEF Step
<1>2. \A i \in Jobs : job'[i].kind # "none" =>
        job[i].kind # "none" /\ job[i].complete /\ job'[i].use = job[i].use
  BY <1>1 DEF ScopeMoves
<1>3. /\ job[j].kind # "none" /\ job[j].complete /\ actor[j].call = "ended"
      /\ job'[j].kind = job[j].kind /\ job'[j].use = job[j].use
  BY <1>1, <1>2 DEF JobMoves, IInv, JobsAgree, JobAgrees
<1>4. /\ job'[j].cleanup = job[j].cleanup /\ actor'[j].result = actor[j].result
      /\ Outcome(j)' = Outcome(j)
  BY <1>1, <1>3 DEF JobMoves, Outcome
<1>5. CASE spark.outcome = Value /\ spark'.reason = spark.reason
  BY <1>3, <1>4, <1>5 DEF IInv, NothingLost, Made
<1>6. CASE Early /\ spark.step # "body" /\ spark.failures = {}
  <2>1. ~job[j].cleanup BY <1>3, <1>6 DEF IInv, ScopeAgrees, EndsAgree, Made
  <2>2. spark.reason = NoCause
    BY <1>1, <1>6 DEF ScopeMoves, IInv, FailuresGenuine, ScopeAgrees, BodyAgrees
  <2>3. ~Joined(j)
    <3> SUFFICES ASSUME NEW a \in Actors, actor[a].op = "join"
                 PROVE  FALSE
      BY DEF Joined
    <3>1. actor[a].call = "running" BY DEF IInv, OpsAgree
    <3>2. a # Body BY <1>6, <3>1 DEF IInv, ScopeAgrees, BodyAgrees
    <3>3. a \in Jobs BY <3>2 DEF Actors
    <3>4. job[a].kind # "none"
      BY <3>1, <3>3 DEF IInv, JobsAgree, JobAgrees, NoActor
    <3>5. job'[a].kind # "none" BY <3>3, <3>4 DEF Step, JobMoves
    <3>6. job[a].complete BY <1>2, <3>3, <3>5
    <3> QED BY <3>1, <3>3, <3>6 DEF IInv, JobsAgree, JobAgrees
  <2>4. (job[j].kind # "speculate" \/ job[j].use = "join") =>
          \/ actor[j].result = Value
          \/ actor[j].result = Cancelled /\ job[j].use = "cancel"
    BY <1>3, <1>6, <2>2, <2>3 DEF IInv, FailuresKept, Made
  <2> QED BY <1>3, <1>4, <2>1, <2>4 DEF Outcome
<1> QED BY <1>1, <1>5, <1>6 DEF ScopeMoves

(* So the invariant goes over a step.                                      *)
LEMMA StepKeeps ==
  ASSUME IInv, Step
  PROVE  IInv'
<1>1. TypeOK' /\ MadeAgree' BY DEF Step
<1>2. JobsAgree' BY DEF Step, JobMoves, JobsAgree
<1>3. ScopeAgrees' BY DEF Step, ScopeMoves, JobMoves, ScopeAgrees, Made
<1> QED BY <1>1, <1>2, <1>3, OpsKept, ReasonsKept, FailuresStay, GenuineStay,
           NothingLostStays DEF IInv

-----------------------------------------------------------------------------
(* What a step leaves as it is.                                            *)

\* Job i may be cancelled and its scope begin to close; that is all.
Kept(i) ==
  /\ job'[i].kind = job[i].kind /\ job'[i].handle = job[i].handle
  /\ job'[i].use = job[i].use /\ job'[i].priority = job[i].priority
  /\ job'[i].admitted = job[i].admitted /\ job'[i].cleanup = job[i].cleanup
  /\ job'[i].complete = job[i].complete
  /\ job[i].kind = "none" => job'[i] = job[i] /\ actor'[i] = actor[i]
  /\ \/ job'[i].life = job[i].life
     \/ job[i].life = "open" /\ job'[i].life = "closing"
  /\ job'[i].life # "open" => job'[i].reason # NoCause
  /\ actor'[i].call = actor[i].call /\ actor'[i].result = actor[i].result
  /\ pool'[i] = pool[i]

\* The scope is not over yet, nor is a value its outcome.
Steady ==
  /\ spark'.step = "over" => spark.step = "over"
  /\ spark'.outcome = Value => spark.outcome = Value
  /\ spark.failures \subseteq spark'.failures

(* A job whose cleanup, outcome and handle go on agrees with the scope.    *)
LEMMA SteadyEnds ==
  ASSUME IInv, Steady, NEW i \in Jobs, job[i].kind # "none",
         job[i].complete => job'[i].complete,
         job'[i].complete /\ job'[i].cleanup => job[i].complete /\ job[i].cleanup,
         job[i].life = "closed" => job'[i].life = "closed",
         job[i].handle = "released" => job'[i].handle = "released"
  PROVE  EndsAgree(i)'
<1>1. EndsAgree(i) BY DEF IInv, ScopeAgrees, Made
<1> QED BY <1>1 DEF Steady, EndsAgree

(* A job that is left alone moves as jobs do.                              *)
LEMMA KeptMoves ==
  ASSUME IInv, NEW i \in Jobs, Kept(i),
         Steady \/ (job[i].kind # "none" => EndsAgree(i)')
  PROVE  JobMoves(i)
<1>1. JobAgrees(i) BY DEF IInv, JobsAgree
<1>2. JobAgrees(i)' BY <1>1 DEF Kept, JobAgrees, Joining
<1>3. job'[i].kind # "none" => EndsAgree(i)'
  <2> SUFFICES ASSUME Steady, job[i].kind # "none" PROVE EndsAgree(i)'
    BY DEF Kept
  <2>1. job[i].life = "closed" => job'[i].life = "closed" BY DEF Kept
  <2> QED BY <2>1, SteadyEnds DEF Kept
<1> QED BY <1>2, <1>3 DEF JobMoves, Kept

(* Without a new reason and without an end nothing is given to it.         *)
LEMMA KeptCauses ==
  ASSUME NEW i \in Jobs,
         ~Early' \/ (/\ job'[i].reason = job[i].reason
                     /\ actor'[i].call = "ended" => actor[i].call = "ended")
  PROVE  CausesMove(i)
BY DEF CausesMove

(* What is genuine depends on the jobs, their kinds and their uses alone.  *)
LEMMA GenuineSame ==
  ASSUME \A i \in Jobs : job'[i].kind = job[i].kind /\ job'[i].use = job[i].use
  PROVE  Made' = Made /\ \A c : Genuine(c)' <=> Genuine(c)
<1>1. Made' = Made BY DEF Made
<1>2. \A i \in Made : job'[i].kind = job[i].kind /\ job'[i].use = job[i].use
  BY DEF Made
<1> QED BY <1>1, <1>2 DEF Genuine

(* A scope that does nothing moves as scopes do.                           *)
LEMMA ScopeStays ==
  ASSUME IInv, spark' = spark, actor'[Body].call = actor[Body].call,
         spark.outcome = Value =>
           \A i \in Jobs : job'[i].kind = job[i].kind /\ job'[i].use = job[i].use
  PROVE  ScopeMoves /\ Steady
<1>1. BodyAgrees' BY DEF IInv, ScopeAgrees, BodyAgrees, Early
<1>2. spark'.outcome = Value =>
        \A j \in Jobs : job'[j].kind # "none" =>
          job[j].kind # "none" /\ job[j].complete /\ job'[j].use = job[j].use
  BY DEF IInv, ScopeAgrees, EndsAgree, Made
<1>3. Steady BY DEF Steady
<1> QED BY <1>1, <1>2, <1>3 DEF ScopeMoves, Early

(* Job numbers are given out in order.                                     *)
LEMMA MadeSame ==
  ASSUME IInv, \A i \in Jobs : job'[i].kind = job[i].kind
  PROVE  MadeAgree'
BY DEF Made, IInv, MadeAgree

(* A step of some jobs and actors, of which the scope hears nothing.       *)
LEMMA QuietStep ==
  ASSUME IInv, TypeOK', spark' = spark, actor'[Body].call = actor[Body].call,
         \A i \in Jobs : /\ job'[i].kind = job[i].kind
                         /\ job'[i].use = job[i].use \/ spark.outcome # Value,
         \A i \in Jobs : \/ Kept(i) /\ job'[i].reason = job[i].reason
                         \/ Steady => JobMoves(i) /\ CausesMove(i),
         \A a \in Actors : ActorMoves(a)
  PROVE  Step
<1>1. ScopeMoves /\ Steady BY ScopeStays
<1>2. ASSUME NEW i \in Jobs
      PROVE  JobMoves(i) /\ CausesMove(i)
  <2>1. CASE Kept(i) /\ job'[i].reason = job[i].reason
    <3>1. actor'[i].call = actor[i].call BY <2>1 DEF Kept
    <3> QED BY <1>1, <2>1, <3>1, KeptMoves, KeptCauses
  <2> QED BY <1>1, <2>1
<1> QED BY <1>1, <1>2, MadeSame DEF Step

(* What is left alone is kept.                                             *)
LEMMA SameKept ==
  ASSUME IInv, NEW i \in Jobs, job'[i] = job[i],
         job[i].kind = "none" => actor'[i] = actor[i],
         actor'[i].call = actor[i].call, actor'[i].result = actor[i].result,
         pool'[i] = pool[i]
  PROVE  Kept(i) /\ job'[i].reason = job[i].reason
BY DEF Kept, IInv, JobsAgree, JobAgrees

(* An error that is counted stays within its bound.                        *)
LEMMA FaultTypes ==
  ASSUME TypeOK, NEW happens, Fault(happens)
  PROVE  faults' \in 0..MaxFaults
BY Numbers DEF TypeOK, Fault

-----------------------------------------------------------------------------
(* Steps that the scope does not hear of.                                  *)

(* The pool keeps its types, and the jobs that it does not touch.          *)
LEMMA PoolSame ==
  ASSUME TypeOK, UNCHANGED poolVars
  PROVE  Service!TypeOK' /\ pool' = pool
BY DEF TypeOK, poolVars, Service!TypeOK, Service!Phase

LEMMA PoolSubmits ==
  ASSUME TypeOK, NEW j \in Jobs, Service!Submit(j)
  PROVE  /\ Service!TypeOK' /\ pool'[j] = "queued"
         /\ \A i \in Jobs \ {j} : pool'[i] = pool[i]
BY DEF TypeOK, Service!TypeOK, Service!Phase, Service!Submit

LEMMA PoolBegins ==
  ASSUME TypeOK, NEW j \in Jobs, Service!Start(j, j)
  PROVE  /\ Service!TypeOK' /\ pool[j] = "queued" /\ pool'[j] = "running"
         /\ \A i \in Jobs \ {j} : pool'[i] = pool[i]
BY DEF TypeOK, Service!TypeOK, Service!Phase, Service!Start

LEMMA PoolSettles ==
  ASSUME TypeOK, NEW j \in Jobs, NEW o \in {"value", "error"}, Service!Settle(j, o)
  PROVE  /\ Service!TypeOK' /\ pool[j] \in {"queued", "running"} /\ pool'[j] = o
         /\ \A i \in Jobs \ {j} : pool'[i] = pool[i]
BY DEF TypeOK, Service!TypeOK, Service!Phase, Service!Settle

(* An actor whose operation goes on moves as actors do.                    *)
LEMMA SameActor ==
  ASSUME NEW a \in Actors, actor'[a].op = actor[a].op,
         actor'[a].on = actor[a].on, actor'[a].call = actor[a].call
  PROVE  ActorMoves(a)
BY DEF ActorMoves

(* Only one that is in the guest is in an operation.                       *)
LEMMA Idle ==
  ASSUME IInv, NEW a \in Actors, actor[a].call # "running"
  PROVE  actor[a].op = "none"
BY ActorTypes DEF IInv, OpsAgree

(* The microtask starts the guest or hands the job to the pool.            *)
LEMMA LaunchStep ==
  ASSUME IInv, NEW j \in Jobs, Launch(j)
  PROVE  Step
<1> TypeOK /\ JobAgrees(j) /\ j \in Actors /\ j # Body /\ Body \in Actors
  BY Numbers DEF IInv, JobsAgree
<1>1. actor[j].call = "called" /\ spark' = spark /\ faults' = faults
  BY DEF Launch
<1>2. job[j].kind # "none" /\ actor[j].op = "none"
  BY <1>1, Idle DEF JobAgrees, NoActor
<1>3. PICK n \in {"running", "pooled"} :
        /\ actor' = [actor EXCEPT ![j].call = n]
        /\ IF n = "running" THEN job[j].kind = "spawn" ELSE job[j].kind # "spawn"
  BY DEF Launch
<1>4. PICK x \in Actor : x = actor[j] BY ActorTypes
<1>5. PICK y \in Actor : y = [x EXCEPT !.call = n] BY DEF Actor
<1>6. actor' = [actor EXCEPT ![j] = y] BY <1>3, <1>4, <1>5 DEF TypeOK
<1>7. y.call = n /\ y.op = x.op /\ y.on = x.on /\ y.result = x.result
  BY <1>5 DEF Actor
<1>8. /\ actor' \in [Actors -> Actor] /\ actor'[j] = y
      /\ \A a \in Actors \ {j} : actor'[a] = actor[a]
  BY <1>6 DEF TypeOK
<1>9. /\ job' \in [Jobs -> SparkJob] /\ Service!TypeOK'
      /\ \A i \in Jobs \ {j} : job'[i] = job[i] /\ pool'[i] = pool[i]
      /\ job'[j].kind = job[j].kind /\ job'[j].handle = job[j].handle
      /\ job'[j].use = job[j].use /\ job'[j].priority = job[j].priority
      /\ job'[j].life = job[j].life /\ job'[j].reason = job[j].reason
      /\ job'[j].cleanup = job[j].cleanup /\ job'[j].complete = job[j].complete
      /\ IF n = "running" THEN pool'[j] = pool[j] /\ job'[j] = job[j]
         ELSE pool'[j] = "queued" /\ job'[j].admitted = job[j].priority
  <2>1. CASE n = "running"
    <3>1. job' = job /\ UNCHANGED poolVars BY <1>3, <2>1 DEF Launch
    <3> QED BY <2>1, <3>1, PoolSame DEF TypeOK
  <2>2. CASE n = "pooled"
    <3>1. /\ job' = [job EXCEPT ![j].admitted = job[j].priority]
          /\ Service!Submit(j)
      BY <1>3, <2>2 DEF Launch
    <3>2. PICK t \in SparkJob : t = job[j] BY DEF TypeOK
    <3>3. PICK u \in SparkJob : u = [t EXCEPT !.admitted = t.priority]
      BY DEF SparkJob
    <3>4. job' = [job EXCEPT ![j] = u] BY <3>1, <3>2, <3>3 DEF TypeOK
    <3>5. /\ u.kind = t.kind /\ u.handle = t.handle /\ u.use = t.use
          /\ u.priority = t.priority /\ u.admitted = t.priority
          /\ u.life = t.life /\ u.reason = t.reason /\ u.cleanup = t.cleanup
          /\ u.complete = t.complete
      BY <3>3 DEF SparkJob
    <3>6. /\ job' \in [Jobs -> SparkJob] /\ job'[j] = u
          /\ \A i \in Jobs \ {j} : job'[i] = job[i]
      BY <3>4 DEF TypeOK
    <3> QED BY <2>2, <3>1, <3>2, <3>5, <3>6, PoolSubmits
  <2> QED BY <2>1, <2>2
<1>10. TypeOK' BY <1>1, <1>8, <1>9 DEF TypeOK
<1>11. JobAgrees(j)'
  BY <1>1, <1>2, <1>3, <1>4, <1>7, <1>8, <1>9 DEF JobAgrees, Joining
<1>12. Steady => JobMoves(j) /\ CausesMove(j)
  <2> SUFFICES ASSUME Steady PROVE JobMoves(j) /\ CausesMove(j)
    OBVIOUS
  <2>1. EndsAgree(j)' BY <1>2, <1>9, SteadyEnds
  <2>2. JobMoves(j) BY <1>1, <1>9, <1>11, <2>1 DEF JobMoves
  <2>3. actor'[j].call # "ended" BY <1>7, <1>8
  <2> QED BY <1>9, <2>2, <2>3, KeptCauses
<1>13. \A i \in Jobs \ {j} : Kept(i) /\ job'[i].reason = job[i].reason
  BY <1>8, <1>9, SameKept, Numbers
<1>14. ActorMoves(j) BY <1>2, <1>4, <1>7, <1>8 DEF ActorMoves
<1>15. \A a \in Actors : ActorMoves(a) BY <1>8, <1>14, SameActor
<1> QED BY <1>1, <1>8, <1>9, <1>10, <1>12, <1>13, <1>15, QuietStep

(* A worker of the pool takes the job.                                     *)
LEMMA PoolStartsStep ==
  ASSUME IInv, NEW j \in Jobs, PoolStarts(j)
  PROVE  Step
<1> TypeOK /\ JobAgrees(j) BY DEF IInv, JobsAgree
<1>1. /\ Service!Start(j, j) /\ spark' = spark /\ actor' = actor /\ job' = job
      /\ faults' = faults
  BY DEF PoolStarts
<1>2. /\ Service!TypeOK' /\ pool[j] = "queued" /\ pool'[j] = "running"
      /\ \A i \in Jobs \ {j} : pool'[i] = pool[i]
  BY <1>1, PoolBegins
<1>3. TypeOK' BY <1>1, <1>2 DEF TypeOK
<1>4. job[j].kind # "none" BY <1>2 DEF JobAgrees
<1>5. JobAgrees(j)' BY <1>1, <1>2 DEF JobAgrees, Joining
<1>6. Steady => JobMoves(j) /\ CausesMove(j)
  <2> SUFFICES ASSUME Steady PROVE JobMoves(j) /\ CausesMove(j)
    OBVIOUS
  <2>1. EndsAgree(j)' BY <1>1, <1>4, SteadyEnds
  <2>2. JobMoves(j) BY <1>1, <1>5, <2>1 DEF JobMoves
  <2> QED BY <1>1, <2>2, KeptCauses
<1>7. \A i \in Jobs \ {j} : Kept(i) /\ job'[i].reason = job[i].reason
  BY <1>1, <1>2, SameKept
<1>8. \A a \in Actors : ActorMoves(a) BY <1>1, SameActor
<1> QED BY <1>1, <1>3, <1>6, <1>7, <1>8, QuietStep

(* A step of one job alone.                                                *)
LEMMA JobStep ==
  ASSUME IInv, NEW j \in Jobs, NEW t \in SparkJob, job' = [job EXCEPT ![j] = t],
         spark' = spark, actor' = actor, UNCHANGED poolVars,
         faults' \in 0..MaxFaults, job[j].kind # "none",
         t.kind = job[j].kind, t.use = job[j].use, t.reason = job[j].reason,
         job[j].complete => t.complete /\ t.cleanup = job[j].cleanup,
         t.complete /\ t.cleanup => job[j].complete /\ job[j].cleanup,
         job[j].life = "closed" => t.life = "closed",
         job[j].handle = "released" => t.handle = "released",
         JobAgrees(j)'
  PROVE  Step
<1> TypeOK BY DEF IInv
<1>1. /\ job' \in [Jobs -> SparkJob] /\ job'[j] = t
      /\ \A i \in Jobs \ {j} : job'[i] = job[i]
  BY DEF TypeOK
<1>2. Service!TypeOK' /\ pool' = pool BY PoolSame
<1>3. TypeOK' BY <1>1, <1>2 DEF TypeOK
<1>4. Steady => JobMoves(j) /\ CausesMove(j)
  <2> SUFFICES ASSUME Steady PROVE JobMoves(j) /\ CausesMove(j)
    OBVIOUS
  <2>1. EndsAgree(j)' BY <1>1, SteadyEnds
  <2>2. JobMoves(j) BY <1>1, <2>1 DEF JobMoves
  <2> QED BY <1>1, <2>2, KeptCauses
<1>5. \A i \in Jobs \ {j} : Kept(i) /\ job'[i].reason = job[i].reason
  BY <1>1, <1>2, SameKept
<1>6. \A a \in Actors : ActorMoves(a) BY SameActor
<1> QED BY <1>1, <1>3, <1>4, <1>5, <1>6, QuietStep

(* The scope of a job is closed.                                           *)
LEMMA LifeClosesStep ==
  ASSUME IInv, NEW j \in Jobs, NEW fails \in BOOLEAN, LifeCloses(j, fails)
  PROVE  Step
<1> TypeOK /\ JobAgrees(j) BY DEF IInv, JobsAgree
<1>1. /\ job[j].life = "closing" /\ actor[j].call = "ended"
      /\ spark' = spark /\ actor' = actor /\ UNCHANGED poolVars
      /\ job' = [job EXCEPT ![j].life = "closed", ![j].cleanup = fails]
      /\ faults' \in 0..MaxFaults
  BY FaultTypes DEF LifeCloses
<1>2. PICK x \in SparkJob : x = job[j] BY DEF TypeOK
<1>3. PICK t \in SparkJob : t = [x EXCEPT !.life = "closed", !.cleanup = fails]
  BY DEF SparkJob
<1>4. job' = [job EXCEPT ![j] = t] BY <1>1, <1>2, <1>3 DEF TypeOK
<1>5. /\ t.kind = x.kind /\ t.handle = x.handle /\ t.use = x.use
      /\ t.life = "closed" /\ t.reason = x.reason /\ t.cleanup = fails
      /\ t.complete = x.complete
  BY <1>3 DEF SparkJob
<1>6. job[j].kind # "none" /\ ~x.complete
  BY <1>1, <1>2 DEF JobAgrees, NoJob
<1>7. job'[j] = t BY <1>4 DEF TypeOK
<1>8. pool' = pool BY <1>1, PoolSame
<1>9. x.handle # "released" BY <1>1, <1>2 DEF JobAgrees
<1>10. JobAgrees(j)'
  BY <1>1, <1>2, <1>5, <1>6, <1>7, <1>8, <1>9 DEF JobAgrees, Joining
<1> QED BY <1>1, <1>2, <1>4, <1>5, <1>6, <1>10, JobStep

(* A handle is released.                                                   *)
LEMMA HandleReleasedStep ==
  ASSUME IInv, NEW j \in Jobs, HandleReleased(j)
  PROVE  Step
<1> TypeOK /\ JobAgrees(j) BY DEF IInv, JobsAgree
<1>1. /\ job[j].handle = "releasing" /\ Disposer(j)
      /\ spark' = spark /\ actor' = actor /\ UNCHANGED poolVars
      /\ job' = [job EXCEPT ![j].handle = "released"]
      /\ faults' \in 0..MaxFaults
  BY DEF HandleReleased, TypeOK
<1>2. PICK x \in SparkJob : x = job[j] BY DEF TypeOK
<1>3. PICK t \in SparkJob : t = [x EXCEPT !.handle = "released"]
  BY DEF SparkJob
<1>4. job' = [job EXCEPT ![j] = t] BY <1>1, <1>2, <1>3 DEF TypeOK
<1>5. /\ t.kind = x.kind /\ t.handle = "released" /\ t.use = x.use
      /\ t.priority = x.priority /\ t.admitted = x.admitted
      /\ t.life = x.life /\ t.reason = x.reason /\ t.cleanup = x.cleanup
      /\ t.complete = x.complete
  BY <1>3 DEF SparkJob
<1>6. job[j].kind # "none" BY <1>1 DEF JobAgrees, NoJob
<1>7. job'[j] = t BY <1>4 DEF TypeOK
<1>8. pool' = pool BY <1>1, PoolSame
<1>9. /\ x.life = "closed" /\ (x.cleanup \/ x.complete)
      /\ x.use = "join" => x.complete
  BY <1>1, <1>2 DEF Disposer, JobAgrees
<1>10. JobAgrees(j)'
  BY <1>1, <1>2, <1>5, <1>6, <1>7, <1>8, <1>9 DEF JobAgrees, Joining
<1>11. /\ t.kind = job[j].kind /\ t.use = job[j].use /\ t.reason = job[j].reason
       /\ t.complete = job[j].complete /\ t.cleanup = job[j].cleanup
       /\ t.life = job[j].life /\ t.handle = "released"
  BY <1>2, <1>5
<1>12. /\ spark' = spark /\ actor' = actor /\ UNCHANGED poolVars
       /\ faults' \in 0..MaxFaults
  BY <1>1
<1> QED BY <1>4, <1>6, <1>10, <1>11, <1>12, JobStep

(* A job whose cleanup has not failed is complete.                         *)
LEMMA CompletesStep ==
  ASSUME IInv, NEW j \in Jobs, Completes(j), ~job[j].cleanup
  PROVE  Step
<1> TypeOK /\ JobAgrees(j) BY DEF IInv, JobsAgree
<1>1. /\ job[j].life = "closed" /\ ~job[j].complete
      /\ spark' = spark /\ actor' = actor /\ UNCHANGED poolVars
      /\ job' = [job EXCEPT ![j].complete = TRUE]
      /\ faults' \in 0..MaxFaults
  BY DEF Completes, TypeOK
<1>2. PICK x \in SparkJob : x = job[j] BY DEF TypeOK
<1>3. PICK t \in SparkJob : t = [x EXCEPT !.complete = TRUE]
  BY DEF SparkJob
<1>4. job' = [job EXCEPT ![j] = t] BY <1>1, <1>2, <1>3 DEF TypeOK
<1>5. /\ t.kind = x.kind /\ t.handle = x.handle /\ t.use = x.use
      /\ t.priority = x.priority /\ t.admitted = x.admitted
      /\ t.life = x.life /\ t.reason = x.reason /\ t.cleanup = x.cleanup
      /\ t.complete = TRUE
  BY <1>3 DEF SparkJob
<1>6. job[j].kind # "none" BY <1>1 DEF JobAgrees, NoJob
<1>7. job'[j] = t BY <1>4 DEF TypeOK
<1>8. pool' = pool BY <1>1, PoolSame
<1>9. JobAgrees(j)'
  BY <1>1, <1>2, <1>5, <1>6, <1>7, <1>8 DEF JobAgrees, Joining
<1> QED BY <1>1, <1>2, <1>4, <1>5, <1>6, <1>9, JobStep

-----------------------------------------------------------------------------
(* The scope is cancelled.                                                 *)

(* What is genuine is a failure.                                           *)
LEMMA GenuineNot ==
  ASSUME NEW c, Genuine(c)
  PROVE  c \notin {Value, NoCause, Cancelled, Ended}
<1>1. CASE c.kind \in {"cleanup", "aggregate", "outer", "own"}
  BY <1>1, CauseKinds
<1>2. CASE c = Unused
  BY <1>2, CauseKinds
<1> QED BY <1>1, <1>2 DEF Genuine

(* Errors of cleanups and of the caller are genuine.                       *)
LEMMA GenuineKinds ==
  ASSUME NEW c, c.kind \in {"cleanup", "aggregate", "outer"}
  PROVE  Genuine(c) /\ Genuine(c)'
BY DEF Genuine

(* Cancellation of the scope leaves a job otherwise as it is.              *)
LEMMA CancelledKept ==
  ASSUME IInv, NEW c \in Causes, c # NoCause, NEW table \in [Jobs -> SparkJob],
         job' = CancelAll(table, c), NEW i \in Jobs, table[i] = job[i],
         actor'[i] = actor[i], pool'[i] = pool[i]
  PROVE  Kept(i) /\ job'[i].reason \in {job[i].reason, c}
<1>1. TypeOK /\ JobAgrees(i) BY DEF IInv, JobsAgree
<1>2. /\ job'[i].kind = job[i].kind /\ job'[i].handle = job[i].handle
      /\ job'[i].use = job[i].use /\ job'[i].priority = job[i].priority
      /\ job'[i].admitted = job[i].admitted /\ job'[i].life = job[i].life
      /\ job'[i].cleanup = job[i].cleanup /\ job'[i].complete = job[i].complete
      /\ job[i].kind = "none" => job'[i] = job[i]
      /\ job[i].kind # "none" => job'[i].reason = First(job[i].reason, c)
  BY CancelFields
<1>3. job[i].life # "open" => job[i].reason # NoCause BY <1>1 DEF JobAgrees
<1>4. job'[i].reason \in {job[i].reason, c} /\
        (job[i].reason # NoCause => job'[i].reason = job[i].reason)
  BY <1>2 DEF First
<1> QED BY <1>2, <1>3, <1>4 DEF Kept

(* A job that is cancelled for a failure moves as jobs do.                 *)
LEMMA OthersCancelled ==
  ASSUME IInv, Steady, NEW i \in Jobs, Kept(i),
         NEW c, job'[i].reason \in {job[i].reason, c},
         Early' => Genuine(c)' /\ spark'.reason # NoCause
  PROVE  JobMoves(i) /\ CausesMove(i)
<1>1. JobMoves(i) BY KeptMoves
<1>2. actor'[i].call = actor[i].call BY DEF Kept
<1>3. CASE job'[i].reason = job[i].reason
  <2>1. actor'[i].call = "ended" => actor[i].call = "ended" BY <1>2
  <2> QED BY <1>1, <1>3, <2>1, KeptCauses
<1>4. CASE ~Early' BY <1>1, <1>4, KeptCauses
<1>5. CASE Early' /\ job'[i].reason = c
  <2>1. MayBe(i, c)' BY <1>5 DEF MayBe
  <2>2. MayBe(i, job[i].reason)' BY <1>5, <2>1 DEF MayBe
  <2>3. spark'.reason # NoCause BY <1>5
  <2> QED BY <1>1, <1>2, <2>2, <2>3 DEF CausesMove
<1> QED BY <1>1, <1>3, <1>4, <1>5

(* The scope takes in a failure.                                           *)
LEMMA FailsScope ==
  ASSUME IInv, NEW c \in Causes, c # NoCause, Early => Genuine(c),
         spark.outcome # Value, actor'[Body].call = actor[Body].call,
         spark' = [spark EXCEPT !.failures = @ \union {c}, !.reason = First(@, c)],
         \A i \in Jobs : job'[i].kind = job[i].kind /\ job'[i].use = job[i].use
  PROVE  /\ ScopeMoves /\ Steady /\ spark' \in SparkScope
         /\ spark'.reason # NoCause /\ spark'.failures # {}
         /\ Early' => Genuine(c)'
<1> TypeOK BY DEF IInv
<1>1. PICK s \in SparkScope : s = spark BY ScopeTypes
<1>2. PICK r \in Causes : r = First(s.reason, c) BY <1>1, FirstFacts, ScopeTypes
<1>3. PICK f \in SUBSET Causes : f = s.failures \union {c} BY <1>1, ScopeTypes
<1>4. spark' = [s EXCEPT !.failures = f, !.reason = r] BY <1>1, <1>2, <1>3
<1>5. /\ spark' \in SparkScope /\ spark'.step = s.step /\ spark'.failures = f
      /\ spark'.reason = r /\ spark'.outcome = s.outcome
  BY <1>4 DEF SparkScope
<1>6. r \in {s.reason, c} /\ r # NoCause /\ (s.reason # NoCause => r = s.reason)
  BY <1>1, <1>2 DEF First
<1>7. Early' => Early /\ Genuine(c) /\ Genuine(c)'
  BY <1>1, <1>5, GenuineSame DEF Early
<1>8. BodyAgrees /\ (Early => c # Ended)
  BY GenuineNot DEF IInv, ScopeAgrees
<1>9. BodyAgrees'
  BY <1>1, <1>5, <1>6, <1>8 DEF BodyAgrees, Early
<1>10. Steady BY <1>1, <1>3, <1>5 DEF Steady
<1>11. ScopeMoves
  BY <1>1, <1>3, <1>5, <1>6, <1>7, <1>9 DEF ScopeMoves
<1> QED BY <1>3, <1>5, <1>6, <1>7, <1>10, <1>11

(* The cleanup of a job has failed: that is a failure of the scope.        *)
LEMMA CompletesFailsStep ==
  ASSUME IInv, NEW j \in Jobs, Completes(j), job[j].cleanup
  PROVE  Step
<1> DEFINE table == [job EXCEPT ![j].complete = TRUE]
<1> TypeOK /\ JobAgrees(j) BY DEF IInv, JobsAgree
<1>1. /\ job[j].life = "closed" /\ ~job[j].complete /\ job[j].kind # "none"
      /\ actor' = actor /\ pool' = pool /\ Service!TypeOK' /\ faults' = faults
  BY PoolSame DEF Completes, JobAgrees, NoJob
<1>2. PICK c : c = Outcome(j) /\ Fails(c, table) BY DEF Completes
<1>3. PICK k \in {"cleanup", "aggregate"} : c = Cause(k, j) BY <1>2 DEF Outcome
<1>4. c \in Causes /\ c.kind = k BY <1>3, CauseTypes, CauseFields
<1>5. c # NoCause /\ Genuine(c)
  BY <1>4, GenuineKinds, CauseKinds
<1>6. PICK x \in SparkJob : x = job[j] BY DEF TypeOK
<1>7. PICK t \in SparkJob : t = [x EXCEPT !.complete = TRUE] BY DEF SparkJob
<1>8. table = [job EXCEPT ![j] = t] BY <1>6, <1>7 DEF TypeOK
<1>9. /\ t.kind = x.kind /\ t.handle = x.handle /\ t.use = x.use
      /\ t.priority = x.priority /\ t.admitted = x.admitted
      /\ t.life = x.life /\ t.reason = x.reason /\ t.cleanup = x.cleanup
      /\ t.complete = TRUE
  BY <1>7 DEF SparkJob
<1>10. /\ table \in [Jobs -> SparkJob] /\ table[j] = t
       /\ \A i \in Jobs \ {j} : table[i] = job[i]
  BY <1>8 DEF TypeOK
<1> HIDE DEF table
<1>11. job' = CancelAll(table, c) /\ job' \in [Jobs -> SparkJob]
  BY <1>2, <1>4, <1>10, CancelFields DEF Fails
<1>12. \A i \in Jobs \ {j} : Kept(i) /\ job'[i].reason \in {job[i].reason, c}
  BY <1>1, <1>4, <1>5, <1>10, <1>11, CancelledKept
<1>13. x.reason # NoCause BY <1>1, <1>6 DEF JobAgrees
<1>14. /\ job'[j].kind = x.kind /\ job'[j].handle = x.handle
       /\ job'[j].use = x.use /\ job'[j].priority = x.priority
       /\ job'[j].admitted = x.admitted /\ job'[j].life = x.life
       /\ job'[j].cleanup = x.cleanup /\ job'[j].complete = TRUE
       /\ job'[j].reason = First(x.reason, c)
  BY <1>1, <1>4, <1>6, <1>9, <1>10, <1>11, CancelFields
<1>15. job'[j].reason = x.reason BY <1>13, <1>14 DEF First
<1>16. \A i \in Jobs : job'[i].kind = job[i].kind /\ job'[i].use = job[i].use
  BY <1>6, <1>12, <1>14 DEF Kept
<1>17. EndsAgree(j) BY <1>1 DEF IInv, ScopeAgrees, Made
<1>18. spark.outcome # Value BY <1>1, <1>17 DEF EndsAgree
<1>19. /\ ScopeMoves /\ Steady /\ spark' \in SparkScope
       /\ spark'.reason # NoCause /\ spark'.failures # {}
       /\ Early' => Genuine(c)'
  <2>1. spark' = [spark EXCEPT !.failures = @ \union {c}, !.reason = First(@, c)]
    BY <1>2 DEF Fails
  <2> QED BY <1>1, <1>4, <1>5, <1>16, <1>18, <2>1, FailsScope
<1>20. TypeOK' BY <1>1, <1>11, <1>19 DEF TypeOK
<1>21. JobAgrees(j)'
  BY <1>1, <1>6, <1>13, <1>14, <1>15 DEF JobAgrees, Joining
<1>22. EndsAgree(j)'
  BY <1>1, <1>6, <1>14, <1>17, <1>19 DEF EndsAgree, Steady
<1>23. JobMoves(j) BY <1>1, <1>6, <1>14, <1>21, <1>22 DEF JobMoves
<1>24. CausesMove(j) BY <1>1, <1>6, <1>15, KeptCauses
<1>25. \A i \in Jobs : JobMoves(i) /\ CausesMove(i)
  BY <1>12, <1>19, <1>23, <1>24, OthersCancelled
<1>26. \A a \in Actors : ActorMoves(a) BY <1>1, SameActor
<1> QED BY <1>16, <1>19, <1>20, <1>25, <1>26, MadeSame DEF Step

(* The caller cancels the scope.                                           *)
LEMMA OuterAbortStep ==
  ASSUME IInv, OuterAbort
  PROVE  Step
<1> TypeOK BY DEF IInv
<1>1. /\ spark.reason = NoCause /\ job' = CancelAll(job, Outer)
      /\ actor' = actor /\ pool' = pool /\ Service!TypeOK' /\ faults' = faults
      /\ spark' = [spark EXCEPT !.reason = Outer]
  BY PoolSame DEF OuterAbort
<1>2. Outer \in Causes /\ Outer # NoCause /\ Outer # Ended /\ Genuine(Outer)'
  BY CauseTypes, CauseKinds, GenuineKinds
<1>3. Genuine(Outer) BY CauseKinds, GenuineKinds
<1>4. job \in [Jobs -> SparkJob] BY DEF TypeOK
<1>5. job' \in [Jobs -> SparkJob] BY <1>1, <1>2, <1>4, CancelFields
<1>6. \A i \in Jobs : Kept(i) /\ job'[i].reason \in {job[i].reason, Outer}
  BY <1>1, <1>2, <1>4, CancelledKept
<1>7. PICK s \in SparkScope : s = spark BY ScopeTypes
<1>8. /\ spark' \in SparkScope /\ spark'.step = s.step /\ spark'.reason = Outer
      /\ spark'.failures = s.failures /\ spark'.outcome = s.outcome
  BY <1>1, <1>2, <1>7 DEF SparkScope
<1>9. BodyAgrees /\ Early BY <1>1 DEF IInv, ScopeAgrees, BodyAgrees
<1>10. spark.outcome # Value BY <1>9, CauseKinds DEF BodyAgrees
<1>11. BodyAgrees' BY <1>1, <1>2, <1>7, <1>8, <1>9 DEF BodyAgrees, Early
<1>12. ScopeMoves /\ Steady
  BY <1>1, <1>2, <1>7, <1>8, <1>9, <1>10, <1>11 DEF ScopeMoves, Steady
<1>13. \A i \in Jobs : JobMoves(i) /\ CausesMove(i)
  BY <1>2, <1>6, <1>8, <1>12, OthersCancelled
<1>14. \A a \in Actors : ActorMoves(a) BY <1>1, SameActor
<1>15. TypeOK' BY <1>1, <1>5, <1>8 DEF TypeOK
<1>16. MadeAgree' BY <1>6, MadeSame DEF Kept
<1> QED BY <1>12, <1>13, <1>14, <1>15, <1>16 DEF Step

-----------------------------------------------------------------------------
(* runScope goes on.                                                       *)

(* Jobs whose scopes begin to close are otherwise as they were.            *)
LEMMA ShutKept ==
  ASSUME IInv, NEW c \in Causes, c # NoCause, NEW table \in [Jobs -> SparkJob],
         NEW S, job' = BeginClose(table, S, c), NEW i \in Jobs, table[i] = job[i],
         actor'[i] = actor[i], pool'[i] = pool[i], i \in S => i \in Made
  PROVE  /\ Kept(i) /\ job'[i].reason \in {job[i].reason, c}
         /\ i \notin S => job'[i] = job[i]
         /\ job[i].reason # NoCause => job'[i].reason = job[i].reason
<1>1. TypeOK /\ JobAgrees(i) BY DEF IInv, JobsAgree
<1>2. job[i].life \in {"open", "closing", "closed"} BY <1>1, JobTypes
<1>3. CASE i \notin S
  <2>1. job'[i] = job[i] BY <1>3, CloseFields
  <2> QED BY <1>3, <2>1, SameKept
<1>4. CASE i \in S
  <2>1. /\ job'[i].kind = job[i].kind /\ job'[i].handle = job[i].handle
        /\ job'[i].use = job[i].use /\ job'[i].priority = job[i].priority
        /\ job'[i].admitted = job[i].admitted /\ job'[i].cleanup = job[i].cleanup
        /\ job'[i].complete = job[i].complete
        /\ job'[i].reason = First(job[i].reason, c)
        /\ job'[i].life = IF job[i].life = "open" THEN "closing" ELSE job[i].life
    BY <1>4, CloseFields
  <2>2. job[i].kind # "none" BY <1>4 DEF Made
  <2>3. /\ job'[i].reason \in {job[i].reason, c} /\ job'[i].reason # NoCause
        /\ job[i].reason # NoCause => job'[i].reason = job[i].reason
    BY <2>1 DEF First
  <2> QED BY <1>2, <1>4, <2>1, <2>2, <2>3 DEF Kept
<1> QED BY <1>3, <1>4

(* The outcome of the scope is known.                                      *)
LEMMA CloseWithStep ==
  ASSUME IInv, Early, NEW c \in Causes, CloseWith(c),
         actor' \in [Actors -> Actor], actor'[Body].call = "ended",
         \A j \in Jobs : actor'[j] = actor[j],
         ~Early' => \A a \in Actors : ActorMoves(a),
         pool' = pool, Service!TypeOK', faults' \in 0..MaxFaults,
         c = Value => /\ spark.step # "body" /\ spark.failures = {}
                      /\ \A j \in Made : job[j].complete
  PROVE  Step
<1> TypeOK BY DEF IInv
<1>1. PICK s \in SparkScope : s = spark BY ScopeTypes
<1>2. Ended \in Causes /\ Ended # NoCause BY CauseTypes, CauseKinds
<1>3. PICK r \in Causes : r = First(s.reason, Ended)
  BY <1>1, <1>2, FirstFacts, ScopeTypes
<1>4. r # NoCause /\ r \in {s.reason, Ended} /\ (s.reason # NoCause => r = s.reason)
  BY <1>2, <1>3 DEF First
<1>5. /\ spark' = [s EXCEPT !.step = "close", !.outcome = c, !.waits = {},
                            !.reason = r]
      /\ job' = BeginClose(job, Made, r)
  BY <1>1, <1>3 DEF CloseWith
<1>6. /\ spark' \in SparkScope /\ spark'.step = "close" /\ spark'.outcome = c
      /\ spark'.reason = r /\ spark'.failures = s.failures
  BY <1>5 DEF SparkScope
<1>7. ~Early' /\ BodyAgrees' BY <1>4, <1>6 DEF Early, BodyAgrees
<1>8. job \in [Jobs -> SparkJob] BY DEF TypeOK
<1>9. job' \in [Jobs -> SparkJob] BY <1>5, <1>8, CloseFields
<1>10. \A i \in Jobs : Kept(i) BY <1>4, <1>5, <1>8, ShutKept
<1>11. ASSUME NEW i \in Jobs, job[i].kind # "none"
       PROVE  EndsAgree(i)'
  <2>1. EndsAgree(i) BY <1>11 DEF IInv, ScopeAgrees, Made
  <2>2. job'[i].complete = job[i].complete /\ job'[i].cleanup = job[i].cleanup
    BY <1>10 DEF Kept
  <2>3. c = Value => job[i].complete BY <1>11 DEF Made
  <2> QED BY <1>1, <1>6, <2>1, <2>2, <2>3 DEF EndsAgree
<1>12. \A i \in Jobs : JobMoves(i) /\ CausesMove(i)
  BY <1>7, <1>10, <1>11, KeptMoves, KeptCauses
<1>13. c = Value => \A j \in Jobs : job'[j].kind # "none" =>
         job[j].kind # "none" /\ job[j].complete /\ job'[j].use = job[j].use
  BY <1>10 DEF Kept, Made
<1>14. ScopeMoves BY <1>1, <1>4, <1>6, <1>7, <1>13 DEF ScopeMoves
<1>15. TypeOK' BY <1>6, <1>9 DEF TypeOK
<1>16. MadeAgree' BY <1>10, MadeSame DEF Kept
<1> QED BY <1>7, <1>12, <1>14, <1>15, <1>16 DEF Step

(* A step of runScope alone.                                               *)
LEMMA ScopeStep ==
  ASSUME IInv, spark' \in SparkScope, ScopeMoves, job' = job, actor' = actor,
         UNCHANGED poolVars, faults' = faults,
         \A i \in Jobs : job[i].kind # "none" => EndsAgree(i)'
  PROVE  Step
<1> TypeOK BY DEF IInv
<1>1. pool' = pool /\ Service!TypeOK' BY PoolSame
<1>2. \A i \in Jobs : Kept(i) BY <1>1, SameKept
<1>3. \A i \in Jobs : JobMoves(i) /\ CausesMove(i)
  BY <1>2, KeptMoves, KeptCauses
<1>4. \A a \in Actors : ActorMoves(a) BY SameActor
<1>5. TypeOK' BY <1>1 DEF TypeOK
<1>6. MadeAgree' BY MadeSame
<1> QED BY <1>3, <1>4, <1>5, <1>6 DEF Step

(* Unused speculation is closed, or its cleanup has failed.                *)
LEMMA UnusedClosedStep ==
  ASSUME IInv, UnusedClosed
  PROVE  Step
<1> TypeOK BY DEF IInv
<1>1. /\ spark.step = "unused" /\ actor' = actor /\ UNCHANGED poolVars
      /\ faults' = faults
      /\ \/ CloseWith(SparkFailed)
         \/ /\ spark' = [spark EXCEPT !.step = "jobs", !.waits = {}]
            /\ UNCHANGED job
  BY DEF UnusedClosed
<1>2. Early /\ BodyAgrees /\ actor[Body].call = "ended"
  BY <1>1 DEF IInv, ScopeAgrees, BodyAgrees, Early
<1>3. CASE CloseWith(SparkFailed)
  <2>1. SparkFailed \in Causes /\ SparkFailed # Value BY CauseTypes, CauseKinds
  <2>2. pool' = pool /\ Service!TypeOK' BY <1>1, PoolSame
  <2>3. \A a \in Actors : ActorMoves(a) BY <1>1, SameActor
  <2>4. actor' \in [Actors -> Actor] /\ faults' \in 0..MaxFaults
    BY <1>1 DEF TypeOK
  <2>5. \A j \in Jobs : actor'[j] = actor[j] BY <1>1
  <2>6. actor'[Body].call = "ended" BY <1>1, <1>2
  <2> QED BY <1>2, <1>3, <2>1, <2>2, <2>3, <2>4, <2>5, <2>6, CloseWithStep
<1>4. CASE spark' = [spark EXCEPT !.step = "jobs", !.waits = {}] /\ job' = job
  <2>1. PICK s \in SparkScope : s = spark BY ScopeTypes
  <2>2. /\ spark' \in SparkScope /\ spark'.step = "jobs"
        /\ spark'.outcome = s.outcome /\ spark'.reason = s.reason
        /\ spark'.failures = s.failures
    BY <1>4, <2>1 DEF SparkScope
  <2>3. BodyAgrees' /\ spark'.outcome # Value
    BY <1>1, <1>2, <2>1, <2>2, CauseKinds DEF BodyAgrees, Early
  <2>4. ScopeMoves BY <1>2, <2>1, <2>2, <2>3 DEF ScopeMoves
  <2>5. \A i \in Jobs : job[i].kind # "none" => EndsAgree(i)'
    BY <1>4, <2>1, <2>2, <2>3 DEF IInv, ScopeAgrees, EndsAgree, Made
  <2> QED BY <1>1, <1>4, <2>2, <2>4, <2>5, ScopeStep
<1> QED BY <1>1, <1>3, <1>4

(* All outcomes are there.                                                 *)
LEMMA JobsJoinedStep ==
  ASSUME IInv, JobsJoined
  PROVE  Step
<1> TypeOK BY DEF IInv
<1>1. /\ spark.step = "jobs" /\ \A j \in Made : job[j].complete
      /\ actor' = actor /\ UNCHANGED poolVars /\ faults' = faults
  BY DEF JobsJoined
<1>2. PICK c \in {Value, SparkFailed} :
        CloseWith(c) /\ (c = Value => spark.failures = {})
  BY CauseKinds DEF JobsJoined
<1>3. c \in Causes BY <1>2, CauseTypes
<1>4. Early /\ actor[Body].call = "ended"
  BY <1>1 DEF IInv, ScopeAgrees, BodyAgrees, Early
<1>5. pool' = pool /\ Service!TypeOK' BY <1>1, PoolSame
<1>6. \A a \in Actors : ActorMoves(a) BY <1>1, SameActor
<1>7. actor' \in [Actors -> Actor] /\ faults' \in 0..MaxFaults
  BY <1>1 DEF TypeOK
<1>8. \A j \in Jobs : actor'[j] = actor[j] BY <1>1
<1>9. actor'[Body].call = "ended" /\ spark.step # "body" BY <1>1, <1>4
<1> QED BY <1>1, <1>2, <1>3, <1>4, <1>5, <1>6, <1>7, <1>8, <1>9, CloseWithStep

(* Handles that are left are disposed.                                     *)
LEMMA DisposeHandlesStep ==
  ASSUME IInv, DisposeHandles
  PROVE  Step
<1> DEFINE left == {j \in Made : job[j].handle = "held"}
<1> TypeOK BY DEF IInv
<1>1. /\ spark' = spark /\ actor' = actor /\ UNCHANGED poolVars /\ faults' = faults
      /\ job' = [j \in Jobs |-> IF j \in left
                                THEN [job[j] EXCEPT !.handle = "releasing"]
                                ELSE job[j]]
  BY DEF DisposeHandles
<1>2. pool' = pool /\ Service!TypeOK' BY <1>1, PoolSame
<1>3. ASSUME NEW i \in left
      PROVE  /\ job'[i] \in SparkJob /\ job'[i].handle = "releasing"
             /\ job'[i].kind = job[i].kind /\ job'[i].use = job[i].use
             /\ job'[i].priority = job[i].priority
             /\ job'[i].admitted = job[i].admitted
             /\ job'[i].life = job[i].life /\ job'[i].reason = job[i].reason
             /\ job'[i].cleanup = job[i].cleanup
             /\ job'[i].complete = job[i].complete
  <2>1. i \in Jobs BY DEF Made
  <2>2. PICK x \in SparkJob : x = job[i] BY <2>1 DEF TypeOK
  <2>3. job'[i] = [x EXCEPT !.handle = "releasing"] BY <1>1, <2>1, <2>2
  <2> QED BY <2>2, <2>3 DEF SparkJob
<1>4. \A i \in Jobs \ left : job'[i] = job[i] BY <1>1
<1>5. left \subseteq Jobs /\ \A i \in left : job[i].handle = "held" /\ job[i].kind # "none"
  BY DEF Made
<1>6. job' = [i \in Jobs |-> job'[i]] BY <1>1
<1> HIDE DEF left
<1>7. job' \in [Jobs -> SparkJob]
  <2>1. \A i \in Jobs : job'[i] \in SparkJob BY <1>3, <1>4 DEF TypeOK
  <2> QED BY <1>6, <2>1
<1>8. ASSUME NEW i \in left
      PROVE  Steady => JobMoves(i) /\ CausesMove(i)
  <2> SUFFICES ASSUME Steady PROVE JobMoves(i) /\ CausesMove(i)
    OBVIOUS
  <2>1. /\ i \in Jobs /\ job[i].handle = "held" /\ job[i].kind # "none"
        /\ JobAgrees(i)
    BY <1>5 DEF IInv, JobsAgree
  <2>2. JobAgrees(i)' BY <1>1, <1>2, <1>3, <2>1 DEF JobAgrees, Joining
  <2>3. EndsAgree(i)' BY <1>3, <2>1, SteadyEnds
  <2>4. JobMoves(i) BY <1>1, <1>3, <2>2, <2>3 DEF JobMoves
  <2> QED BY <1>1, <1>3, <2>1, <2>4, KeptCauses
<1>9. \A i \in Jobs \ left : Kept(i) /\ job'[i].reason = job[i].reason
  BY <1>1, <1>2, <1>4, SameKept
<1>10. \A i \in Jobs : job'[i].kind = job[i].kind /\ job'[i].use = job[i].use
  BY <1>3, <1>4
<1>11. \A a \in Actors : ActorMoves(a) BY <1>1, SameActor
<1>12. TypeOK' BY <1>1, <1>2, <1>7 DEF TypeOK
<1> QED BY <1>1, <1>8, <1>9, <1>10, <1>11, <1>12, QuietStep

(* The scope is closed.                                                    *)
LEMMA OverStep ==
  ASSUME IInv, Over
  PROVE  Step
<1> TypeOK BY DEF IInv
<1>1. /\ spark.step = "close" /\ job' = job /\ actor' = actor
      /\ UNCHANGED poolVars /\ faults' = faults
      /\ spark' = [spark EXCEPT !.step = "over"]
      /\ \A j \in Made : job[j].life = "closed" /\ job[j].handle = "released"
  BY DEF Over, JobScopesClosed
<1>2. PICK s \in SparkScope : s = spark BY ScopeTypes
<1>3. /\ spark' \in SparkScope /\ spark'.step = "over"
      /\ spark'.outcome = s.outcome /\ spark'.reason = s.reason
      /\ spark'.failures = s.failures
  BY <1>1, <1>2 DEF SparkScope
<1>4. BodyAgrees' /\ ~Early'
  BY <1>1, <1>2, <1>3 DEF IInv, ScopeAgrees, BodyAgrees, Early
<1>5. \A i \in Jobs : job[i].kind # "none" => EndsAgree(i)'
  BY <1>1, <1>2, <1>3 DEF IInv, ScopeAgrees, EndsAgree, Made
<1>6. s.outcome = Value => \A j \in Jobs : job'[j].kind # "none" =>
        job[j].kind # "none" /\ job[j].complete /\ job'[j].use = job[j].use
  BY <1>1, <1>2 DEF IInv, ScopeAgrees, EndsAgree, Made
<1>7. ScopeMoves BY <1>2, <1>3, <1>4, <1>6 DEF ScopeMoves
<1> QED BY <1>1, <1>3, <1>5, <1>7, ScopeStep

-----------------------------------------------------------------------------
(* Calls end.                                                              *)

\* An actor whose call has ended with r.
Done(r) == [NoActor EXCEPT !.call = "ended", !.result = r]

LEMMA DoneFields ==
  ASSUME NEW r \in Causes
  PROVE  /\ Done(r) \in Actor /\ Done(r).call = "ended" /\ Done(r).op = "none"
         /\ Done(r).result = r
BY Numbers, CauseTypes DEF Done, NoActor, Actor

(* The call of the body ends.                                              *)
LEMMA BodyEndsStep ==
  ASSUME IInv, NEW r \in Causes, CallEnds(Body, r), actor[Body].call = "running",
         UNCHANGED poolVars, faults' \in 0..MaxFaults,
         actor[Body].op # "none" =>
           r # Value /\ job[actor[Body].on].handle = "released"
  PROVE  Step
<1> TypeOK /\ Body \in Actors /\ Body \notin Jobs /\ Jobs \subseteq Actors
  BY Numbers DEF IInv
<1>1. actor' = [actor EXCEPT ![Body] = Done(r)] /\ BodyEnds(r)
  BY DEF CallEnds, Done
<1>2. /\ actor' \in [Actors -> Actor] /\ actor'[Body] = Done(r)
      /\ \A a \in Actors \ {Body} : actor'[a] = actor[a]
  BY <1>1, DoneFields DEF TypeOK
<1>3. \A j \in Jobs : actor'[j] = actor[j] BY <1>2
<1>4. spark.step = "body" /\ Early /\ BodyAgrees
  BY DEF IInv, ScopeAgrees, BodyAgrees, Early
<1>5. pool' = pool /\ Service!TypeOK' BY PoolSame
<1>6. \A a \in Actors \ {Body} : ActorMoves(a) BY <1>2, SameActor
<1>7. actor'[Body].call = "ended" /\ actor'[Body].op = "none"
  BY <1>2, DoneFields
<1>8. CASE r # Value
  <2>1. CloseWith(r) BY <1>1, <1>8 DEF BodyEnds
  <2>2. ~Early' => ActorMoves(Body) BY <1>7 DEF ActorMoves
  <2>3. ~Early' => \A a \in Actors : ActorMoves(a) BY <1>6, <2>2
  <2> QED BY <1>2, <1>3, <1>4, <1>5, <1>7, <1>8, <2>1, <2>3, CloseWithStep
<1>9. CASE r = Value
  <2> DEFINE S == UnusedJobs
  <2>1. /\ spark' = [spark EXCEPT !.step = "unused", !.waits = S]
        /\ job' = BeginClose(job, S, Unused)
    BY <1>1, <1>9 DEF BodyEnds
  <2>2. S \subseteq Made /\ \A i \in S : job[i].kind = "speculate"
    BY DEF UnusedJobs
  <2> HIDE DEF S
  <2>3. Made \subseteq Jobs BY DEF Made
  <2>4. PICK W \in SUBSET Jobs : W = S BY <2>2, <2>3
  <2>5. PICK s \in SparkScope : s = spark BY ScopeTypes
  <2>6. /\ spark' \in SparkScope /\ spark'.step = "unused"
        /\ spark'.outcome = s.outcome /\ spark'.reason = s.reason
        /\ spark'.failures = s.failures
    BY <2>1, <2>4, <2>5 DEF SparkScope
  <2>7. BodyAgrees' /\ spark'.outcome # Value
    BY <1>4, <1>7, <2>5, <2>6, CauseKinds DEF BodyAgrees, Early
  <2>8. ScopeMoves /\ Steady
    BY <1>4, <2>5, <2>6, <2>7 DEF ScopeMoves, Steady
  <2>9. Unused \in Causes /\ Unused # NoCause BY CauseTypes, CauseKinds
  <2>10. job \in [Jobs -> SparkJob] BY DEF TypeOK
  <2>11. job' \in [Jobs -> SparkJob] BY <2>1, <2>9, <2>10, CloseFields
  <2>12. \A i \in Jobs : /\ Kept(i) /\ job'[i].reason \in {job[i].reason, Unused}
                         /\ i \notin S => job'[i] = job[i]
    BY <1>3, <1>5, <2>1, <2>2, <2>9, <2>10, ShutKept
  <2>13. ASSUME NEW i \in Jobs
         PROVE  JobMoves(i) /\ CausesMove(i)
    <3>1. JobMoves(i) BY <2>8, <2>12, KeptMoves
    <3>2. actor'[i].call = "ended" => actor[i].call = "ended" BY <1>3
    <3>3. CASE job'[i].reason = job[i].reason BY <3>1, <3>2, <3>3, KeptCauses
    <3>4. CASE i \in S /\ job'[i].reason = Unused
      <4>1. job'[i].kind = "speculate" BY <2>2, <2>12, <3>4 DEF Kept
      <4>2. MayBe(i, job[i].reason)' /\ Mild(i)' BY <3>4, <4>1 DEF MayBe, Mild
      <4> QED BY <3>1, <3>2, <4>2 DEF CausesMove
    <3> QED BY <2>12, <3>3, <3>4
  <2>14. ActorMoves(Body) BY <1>7, <1>9 DEF ActorMoves
  <2>15. TypeOK' BY <1>2, <1>5, <2>6, <2>11 DEF TypeOK
  <2>16. MadeAgree' BY <2>12, MadeSame DEF Kept
  <2> QED BY <1>6, <2>8, <2>13, <2>14, <2>15, <2>16 DEF Step
<1> QED BY <1>8, <1>9

(* An error of a job is genuine if it is recorded.                         *)
LEMMA RecordsGenuine ==
  ASSUME NEW j \in Made, NEW r, r # NoCause, Records(j, r),
         r \in {Value, Cause("own", j), job[j].reason} \/ Genuine(r)
  PROVE  Genuine(r)
<1>1. r # Value /\ r # job[j].reason BY DEF Records
<1>2. CASE r = Cause("own", j)
  <2>1. r.kind = "own" /\ r.of = j BY <1>2, CauseFields
  <2>2. job[j].kind = "speculate" => job[j].use = "join"
    BY DEF Records, Joining
  <2> QED BY <2>1, <2>2 DEF Genuine
<1> QED BY <1>1, <1>2

(* What is not recorded is no failure, or somebody waits for it.           *)
LEMMA UnrecordedMild ==
  ASSUME IInv, Early, spark.reason = NoCause, NEW j \in Made, NEW r, r # NoCause,
         actor[j].call # "ended", ~Records(j, r),
         job[j].kind # "speculate" \/ job[j].use = "join"
  PROVE  \/ r = Value
         \/ r = Cancelled /\ job[j].use = "cancel"
         \/ Joined(j)
<1> j \in Jobs BY DEF Made
<1>1. JobAgrees(j) /\ (job[j].use = "join" => Joined(j))
  BY DEF IInv, JobsAgree, JoinsAgree
<1>2. CASE job[j].use = "join" BY <1>1, <1>2
<1>3. CASE job[j].use # "join" /\ r # Value
  <2>1. r = job[j].reason /\ job[j].kind # "speculate" BY <1>3 DEF Records
  <2>2. Mild(j) /\ MayBe(j, job[j].reason) BY DEF IInv, ReasonsAgree
  <2>3. MayBe(j, r) /\ r \in {Cancelled, Ended} BY <2>1, <2>2 DEF Mild
  <2>4. ~Genuine(r) /\ Ended # Cancelled /\ Ended # Unused /\ Cancelled # Unused
    BY <2>3, GenuineNot, CauseKinds
  <2> QED BY <2>1, <2>3, <2>4 DEF MayBe
<1> QED BY <1>2, <1>3

(* The call of a job ends.                                                 *)
LEMMA JobEndsStep ==
  ASSUME IInv, NEW j \in Jobs, NEW r \in Causes, r # NoCause, CallEnds(j, r),
         actor[j].call \in {"called", "running", "pooled"},
         Service!TypeOK', \A i \in Jobs \ {j} : pool'[i] = pool[i],
         pool'[j] \notin {"queued", "running"}, faults' \in 0..MaxFaults,
         Early => r \in {Value, Cause("own", j), job[j].reason} \/ Genuine(r),
         actor[j].op # "none" =>
           /\ job[actor[j].on].handle = "released"
           /\ (Early /\ spark.reason = NoCause /\ actor[j].op = "join") =>
                actor[actor[j].on].result = Value \/ Genuine(r)
  PROVE  Step
<1> TypeOK /\ Body \in Actors /\ Body # j /\ j \in Actors /\ JobAgrees(j)
  BY Numbers DEF IInv, JobsAgree
<1>1. /\ actor' = [actor EXCEPT ![j] = Done(r)] /\ RunJob(j, r)
  BY DEF CallEnds, Done
<1>2. /\ actor' \in [Actors -> Actor] /\ actor'[j] = Done(r)
      /\ \A a \in Actors \ {j} : actor'[a] = actor[a]
  BY <1>1, DoneFields DEF TypeOK
<1>3. actor'[j].call = "ended" /\ actor'[j].op = "none" /\ actor'[j].result = r
  BY <1>2, DoneFields
<1>4. \A i \in Jobs \ {j} : actor'[i] = actor[i] BY <1>2, Numbers
<1>5. actor'[Body].call = actor[Body].call BY <1>2
<1>6. /\ job[j].kind # "none" /\ actor[j].call # "ended" /\ job[j].life # "closed"
      /\ ~job[j].cleanup /\ ~job[j].complete /\ job[j].handle # "released"
      /\ job[j].life # "open" => job[j].reason # NoCause
      /\ job[j].use # "none" => job[j].handle = "releasing"
      /\ job[j].handle # "none"
  BY DEF JobAgrees, NoActor
<1>7. j \in Made /\ EndsAgree(j) BY <1>6 DEF IInv, ScopeAgrees, Made
<1>8. spark.outcome # Value BY <1>6, <1>7 DEF EndsAgree
<1>9. \A a \in Actors \ {j} : ActorMoves(a) BY <1>2, SameActor
<1>10. job[j].life \in {"open", "closing", "closed"} BY JobTypes
<1>11. job \in [Jobs -> SparkJob] BY DEF TypeOK
<1>12. CASE Records(j, r)
  <2> DEFINE table == BeginClose(job, {j}, r)
  <2>1. Fails(r, table) BY <1>1, <1>12 DEF RunJob
  <2>2. /\ table \in [Jobs -> SparkJob]
        /\ \A i \in Jobs \ {j} : table[i] = job[i]
        /\ table[j].kind = job[j].kind /\ table[j].handle = job[j].handle
        /\ table[j].use = job[j].use /\ table[j].priority = job[j].priority
        /\ table[j].admitted = job[j].admitted
        /\ table[j].cleanup = job[j].cleanup
        /\ table[j].complete = job[j].complete
        /\ table[j].reason = First(job[j].reason, r)
        /\ table[j].life = IF job[j].life = "open" THEN "closing" ELSE job[j].life
    BY <1>11, CloseFields
  <2> HIDE DEF table
  <2>3. /\ job' = CancelAll(table, r)
        /\ spark' = [spark EXCEPT !.failures = @ \union {r}, !.reason = First(@, r)]
    BY <2>1 DEF Fails
  <2>4. /\ job' \in [Jobs -> SparkJob]
        /\ job'[j].kind = job[j].kind /\ job'[j].handle = job[j].handle
        /\ job'[j].use = job[j].use /\ job'[j].priority = job[j].priority
        /\ job'[j].admitted = job[j].admitted
        /\ ~job'[j].cleanup /\ ~job'[j].complete
        /\ job'[j].reason = First(First(job[j].reason, r), r)
        /\ job'[j].life = "closing"
    BY <1>6, <1>10, <2>2, <2>3, CancelFields
  <2>5. job'[j].reason \in {job[j].reason, r} /\ job'[j].reason # NoCause
    BY <2>4 DEF First
  <2>6. \A i \in Jobs \ {j} : Kept(i) /\ job'[i].reason \in {job[i].reason, r}
    BY <1>4, <2>2, <2>3, CancelledKept
  <2>7. \A i \in Jobs : job'[i].kind = job[i].kind /\ job'[i].use = job[i].use
    BY <2>4, <2>6 DEF Kept
  <2>8. Early => Genuine(r) BY <1>7, <1>12, RecordsGenuine
  <2>9. /\ ScopeMoves /\ Steady /\ spark' \in SparkScope
        /\ spark'.reason # NoCause /\ (Early' => Genuine(r)')
    BY <1>5, <1>8, <2>3, <2>7, <2>8, FailsScope
  <2>10. \A i \in Jobs \ {j} : JobMoves(i) /\ CausesMove(i)
    BY <2>6, <2>9, OthersCancelled
  <2>11. JobAgrees(j)'
    BY <1>3, <1>6, <2>4, <2>5 DEF JobAgrees, Joining
  <2>12. EndsAgree(j)' BY <1>6, <2>4, <2>9, SteadyEnds
  <2>13. JobMoves(j) BY <1>6, <2>4, <2>11, <2>12 DEF JobMoves
  <2>14. CausesMove(j)
    <3>1. Early' => MayBe(j, r)' BY <2>9 DEF MayBe
    <3>2. Early' => MayBe(j, actor[j].result)' BY <1>3, <3>1 DEF MayBe
    <3>3. (Early' /\ job'[j].reason = r) => MayBe(j, job[j].reason)'
      BY <3>1 DEF MayBe
    <3> QED BY <2>5, <2>9, <3>2, <3>3 DEF CausesMove
  <2>15. ActorMoves(j) BY <1>3, <2>9 DEF ActorMoves
  <2>16. TypeOK' BY <1>2, <2>4, <2>9 DEF TypeOK
  <2> QED BY <1>9, <2>7, <2>9, <2>10, <2>13, <2>14, <2>15, <2>16, MadeSame DEF Step
<1>13. CASE ~Records(j, r)
  <2>1. job' = BeginClose(job, {j}, Ended) /\ spark' = spark
    BY <1>1, <1>13 DEF RunJob
  <2>2. Ended \in Causes /\ Ended # NoCause BY CauseTypes, CauseKinds
  <2>3. /\ job' \in [Jobs -> SparkJob]
        /\ \A i \in Jobs \ {j} : job'[i] = job[i]
        /\ job'[j].kind = job[j].kind /\ job'[j].handle = job[j].handle
        /\ job'[j].use = job[j].use /\ job'[j].priority = job[j].priority
        /\ job'[j].admitted = job[j].admitted
        /\ ~job'[j].cleanup /\ ~job'[j].complete
        /\ job'[j].reason = First(job[j].reason, Ended)
        /\ job'[j].life = "closing"
    BY <1>6, <1>10, <1>11, <2>1, <2>2, CloseFields
  <2>4. job'[j].reason \in {job[j].reason, Ended} /\ job'[j].reason # NoCause
    BY <2>2, <2>3 DEF First
  <2>5. \A i \in Jobs : job'[i].kind = job[i].kind /\ job'[i].use = job[i].use
    BY <2>3
  <2>6. JobAgrees(j)'
    BY <1>3, <1>6, <2>3, <2>4 DEF JobAgrees, Joining
  <2>7. Early' => Early /\ spark'.reason = spark.reason BY <2>1 DEF Early
  <2>8. \A c : MayBe(j, c) => MayBe(j, c)' BY <2>5, GenuineSame DEF MayBe
  <2>9. CausesMove(j)
    <3>1. job'[j].reason = Ended => Mild(j)' BY DEF Mild
    <3>2. Early => r \in {Value, Cause("own", j)} \/ MayBe(j, r)
      BY <1>6, <1>7 DEF IInv, ReasonsAgree, MayBe
    <3>3. MayBe(j, r) => MayBe(j, actor[j].result)'
      <4>1. MayBe(j, r) => MayBe(j, r)' BY <2>8
      <4> QED BY <1>3, <4>1 DEF MayBe
    <3>4. Joined(j) => Joined(j)'
      <4> SUFFICES ASSUME NEW a \in Actors, actor[a].op = "join", actor[a].on = j
                   PROVE  Joined(j)'
        BY DEF Joined
      <4>1. job[j].use = "join" /\ actor[a].call = "running"
        BY DEF IInv, OpsAgree
      <4>2. CASE a # j
        <5>1. actor'[a] = actor[a] BY <1>2, <4>2
        <5> QED BY <5>1 DEF Joined
      <4>3. CASE a = j
        BY <1>6, <4>3
      <4> QED BY <4>2, <4>3
    <3>5. (Early' /\ spark'.reason = NoCause
             /\ (job'[j].kind # "speculate" \/ job'[j].use = "join")) =>
            \/ r = Value
            \/ r = Cancelled /\ job'[j].use = "cancel"
            \/ Joined(j)'
      BY <1>6, <1>7, <1>13, <2>5, <2>7, <3>4, UnrecordedMild
    <3> QED BY <1>3, <2>4, <2>7, <3>1, <3>2, <3>3, <3>5 DEF CausesMove
  <2>10. Steady => JobMoves(j) /\ CausesMove(j)
    <3> SUFFICES ASSUME Steady PROVE JobMoves(j)
      BY <2>9
    <3>1. EndsAgree(j)' BY <1>6, <2>3, SteadyEnds
    <3> QED BY <1>6, <2>3, <2>6, <3>1 DEF JobMoves
  <2>11. \A i \in Jobs \ {j} : Kept(i) /\ job'[i].reason = job[i].reason
    BY <1>4, <2>3, SameKept
  <2>12. ActorMoves(j)
    <3> SUFFICES ASSUME Early', spark'.reason = NoCause, actor[j].op = "join"
                 PROVE  actor[actor[j].on].result = Value
      BY <1>3 DEF ActorMoves
    <3> SUFFICES ASSUME Genuine(r) PROVE FALSE
      BY <2>7
    <3>1. job[j].kind = "spawn" BY DEF IInv, OpsAgree, JobAgrees
    <3>2. Mild(j) BY <1>7, <2>7 DEF IInv, ReasonsAgree
    <3>3. r = job[j].reason BY <1>13, <3>1, GenuineNot DEF Records
    <3> QED BY <3>1, <3>2, <3>3, GenuineNot DEF Mild
  <2>13. TypeOK' BY <1>2, <2>1, <2>3 DEF TypeOK
  <2>14. \A a \in Actors : ActorMoves(a) BY <1>9, <2>12
  <2> QED BY <1>5, <2>1, <2>5, <2>10, <2>11, <2>13, <2>14, QuietStep
<1> QED BY <1>12, <1>13

(* What a call may throw is a cause.                                       *)
LEMMA ThrowsCauses ==
  ASSUME IInv, NEW a \in Actors, NEW r \in Throws(a)
  PROVE  /\ r \in Causes /\ r # NoCause
         /\ r = Cause("own", a) \/ r = Reason(a)
<1>1. TypeOK BY DEF IInv
<1>2. Reason(a) \in Causes
  <2>1. CASE a = Body BY <1>1, <2>1, ScopeTypes DEF Reason
  <2>2. CASE a # Body
    <3>1. a \in Jobs BY <2>2 DEF Actors
    <3> QED BY <1>1, <2>2, <3>1, JobTypes DEF Reason
  <2> QED BY <2>1, <2>2
<1>3. Cause("own", a) \in Causes /\ Cause("own", a).kind = "own"
  BY CauseTypes, CauseFields
<1>4. Cause("own", a) # NoCause BY <1>3, CauseKinds
<1> QED BY <1>2, <1>3, <1>4 DEF Throws

(* A job whose call has not ended cannot have left the pool by itself.     *)
LEMMA LaunchFailsStep ==
  ASSUME IInv, NEW j \in Jobs, LaunchFails(j)
  PROVE  Step
<1> TypeOK /\ JobAgrees(j) /\ j \in Actors /\ j # Body
  BY Numbers DEF IInv, JobsAgree
<1>1. PICK r \in Throws(j) : Fault(r = Cause("own", j)) /\ CallEnds(j, r)
  BY DEF LaunchFails
<1>2. actor[j].call = "called" /\ UNCHANGED poolVars BY DEF LaunchFails
<1>3. pool' = pool /\ Service!TypeOK' BY <1>2, PoolSame
<1>4. pool[j] \notin {"queued", "running"} BY <1>2 DEF JobAgrees
<1>5. faults' \in 0..MaxFaults BY <1>1, FaultTypes
<1>6. r \in Causes /\ r # NoCause /\ r \in {Cause("own", j), job[j].reason}
  BY ThrowsCauses DEF Reason
<1>7. actor[j].op = "none" BY <1>2, Idle
<1> QED BY <1>1, <1>2, <1>3, <1>4, <1>5, <1>6, <1>7, JobEndsStep

(* A call of the guest on this thread ends.                                *)
LEMMA ReturnsStep ==
  ASSUME IInv, NEW a \in Actors, Returns(a)
  PROVE  Step
<1> TypeOK BY DEF IInv
<1>1. PICK r \in Throws(a) \union {Value} :
        Fault(r = Cause("own", a)) /\ CallEnds(a, r)
  BY DEF Returns
<1>2. actor[a].call = "running" /\ actor[a].op = "none" /\ UNCHANGED poolVars
  BY DEF Returns
<1>3. pool' = pool /\ Service!TypeOK' BY <1>2, PoolSame
<1>4. faults' \in 0..MaxFaults BY <1>1, FaultTypes
<1>5. r \in Causes /\ r # NoCause /\ r \in {Value, Cause("own", a), Reason(a)}
  BY <1>1, ThrowsCauses, CauseTypes, CauseKinds
<1>6. CASE a = Body BY <1>1, <1>2, <1>4, <1>5, <1>6, BodyEndsStep
<1>7. CASE a # Body
  <2>1. a \in Jobs BY <1>7 DEF Actors
  <2>2. JobAgrees(a) BY <2>1 DEF IInv, JobsAgree
  <2>3. pool[a] \notin {"queued", "running"} BY <1>2, <2>2 DEF JobAgrees
  <2>4. r \in {Value, Cause("own", a), job[a].reason} BY <1>5, <1>7 DEF Reason
  <2> QED BY <1>1, <1>2, <1>3, <1>4, <1>5, <2>1, <2>3, <2>4, JobEndsStep
<1> QED BY <1>6, <1>7

(* The pool settles a job.                                                 *)
LEMMA PoolEndsStep ==
  ASSUME IInv, NEW j \in Jobs, PoolReturns(j) \/ PoolFails(j)
  PROVE  Step
<1> TypeOK /\ j \in Actors /\ j # Body BY Numbers DEF IInv
<1>1. actor[j].call = "pooled" BY DEF PoolReturns, PoolFails
<1>2. actor[j].op = "none" BY <1>1, Idle
<1>3. PICK o \in {"value", "error"} : Service!Settle(j, o)
  BY DEF PoolReturns, PoolFails
<1>4. /\ Service!TypeOK' /\ pool'[j] \notin {"queued", "running"}
      /\ \A i \in Jobs \ {j} : pool'[i] = pool[i]
  BY <1>3, PoolSettles
<1>5. PICK r : /\ CallEnds(j, r) /\ r \in Causes /\ r # NoCause
               /\ r \in {Value, Cause("own", j), job[j].reason}
               /\ faults' \in 0..MaxFaults
  <2>1. CASE PoolReturns(j)
    <3>1. CallEnds(j, Value) /\ faults' = faults BY <2>1 DEF PoolReturns
    <3> QED BY <3>1, CauseTypes, CauseKinds DEF TypeOK
  <2>2. CASE PoolFails(j)
    <3>1. PICK r \in Throws(j) : Fault(r = Cause("own", j)) /\ CallEnds(j, r)
      BY <2>2 DEF PoolFails
    <3>2. faults' \in 0..MaxFaults BY <3>1, FaultTypes
    <3>3. r \in Causes /\ r # NoCause /\ r \in {Cause("own", j), job[j].reason}
      BY ThrowsCauses DEF Reason
    <3> QED BY <3>1, <3>2, <3>3
  <2> QED BY <2>1, <2>2
<1> QED BY <1>1, <1>2, <1>4, <1>5, JobEndsStep

(* What an operation throws is the failure of a job that was demanded, or  *)
(* of a cleanup.                                                           *)
LEMMA ThrownFacts ==
  ASSUME IInv, NEW a \in Actors, actor[a].op # "none",
         job[actor[a].on].handle = "released"
  PROVE  /\ Thrown(a) \in Causes /\ Thrown(a) # Value
         /\ (Early /\ Thrown(a) # NoCause) => Genuine(Thrown(a))
         /\ (actor[a].op = "join" /\ Thrown(a) = NoCause) =>
              actor[actor[a].on].result = Value
<1> TypeOK BY DEF IInv
<1>1. PICK i \in Made : i = actor[a].on BY DEF IInv, OpsAgree
<1>2. i \in Jobs /\ i \in Actors /\ JobAgrees(i) BY <1>1, Numbers DEF Made, IInv, JobsAgree
<1>3. /\ job[i].use = actor[a].op /\ job[i].handle = "released"
      /\ actor[a].op \in {"join", "cancel"}
  BY <1>1, ActorTypes DEF IInv, OpsAgree
<1>4. actor[i].call = "ended" /\ actor[i].result # NoCause
  BY <1>2, <1>3 DEF JobAgrees
<1>5. actor[i].result \in Causes BY <1>2, ActorTypes
<1>6. ASSUME NEW k \in {"cleanup", "aggregate"}
      PROVE  /\ Cause(k, i) \in Causes /\ Genuine(Cause(k, i))
             /\ Cause(k, i) # Value /\ Cause(k, i) # NoCause
  <2>1. Cause(k, i).kind = k BY CauseFields
  <2> QED BY <1>2, <2>1, CauseTypes, CauseKinds DEF Genuine
<1>7. CASE actor[a].op = "cancel"
  <2>1. Thrown(a) = IF job[i].cleanup THEN Cause("cleanup", i) ELSE NoCause
    BY <1>1, <1>7 DEF Thrown
  <2> QED BY <1>6, <1>7, <2>1, CauseTypes, CauseKinds
<1>8. CASE actor[a].op = "join"
  <2>1. Thrown(a) = IF Outcome(i) = Value THEN NoCause ELSE Outcome(i)
    BY <1>1, <1>8 DEF Thrown
  <2>2. CASE job[i].cleanup
    <3>1. PICK k \in {"cleanup", "aggregate"} : Outcome(i) = Cause(k, i)
      BY <2>2 DEF Outcome
    <3>2. Outcome(i) # Value /\ Outcome(i) # NoCause BY <1>6, <3>1
    <3>3. Thrown(a) = Cause(k, i) BY <2>1, <3>1, <3>2
    <3> QED BY <1>6, <3>3
  <2>3. CASE ~job[i].cleanup
    <3>1. Outcome(i) = actor[i].result BY <2>3 DEF Outcome
    <3>2. (Early /\ actor[i].result # Value) => Genuine(actor[i].result)
      <4> SUFFICES ASSUME Early, actor[i].result # Value
                   PROVE  Genuine(actor[i].result)
        OBVIOUS
      <4>1. PICK c : c = actor[i].result OBVIOUS
      <4>2. c = Cause("own", i) \/ MayBe(i, c)
        BY <1>4, <4>1 DEF IInv, ReasonsAgree
      <4>3. CASE c = Cause("own", i)
        <5>1. c.kind = "own" /\ c.of = i BY <4>3, CauseFields
        <5> QED BY <1>3, <1>8, <4>1, <5>1 DEF Genuine
      <4>4. CASE MayBe(i, c)
        BY <1>3, <1>4, <1>8, <4>1, <4>4 DEF MayBe, Genuine
      <4> QED BY <4>2, <4>3, <4>4
    <3> QED BY <1>1, <1>4, <1>5, <2>1, <3>1, <3>2, CauseTypes, CauseKinds
  <2> QED BY <2>2, <2>3
<1> QED BY <1>3, <1>7, <1>8

(* An operation returns or throws.                                         *)
LEMMA ResumesStep ==
  ASSUME IInv, NEW a \in Actors, Resumes(a)
  PROVE  Step
<1> TypeOK BY DEF IInv
<1>1. /\ actor[a].op # "none" /\ job[actor[a].on].handle = "released"
      /\ UNCHANGED poolVars /\ faults' = faults
  BY DEF Resumes
<1>2. PICK t : t = Thrown(a) OBVIOUS
<1>3. /\ t \in Causes /\ t # Value /\ (Early /\ t # NoCause => Genuine(t))
      /\ (actor[a].op = "join" /\ t = NoCause) =>
           actor[actor[a].on].result = Value
  BY <1>1, <1>2, ThrownFacts
<1>4. actor[a].call = "running" BY <1>1 DEF IInv, OpsAgree
<1>5. pool' = pool /\ Service!TypeOK' BY <1>1, PoolSame
<1>6. PICK r : r = First(t, Reason(a)) OBVIOUS
<1>7. r = t \/ (t = NoCause /\ r = Reason(a)) BY <1>6 DEF First
<1>8. faults' \in 0..MaxFaults BY <1>1 DEF TypeOK
<1>9. CASE r = NoCause
  <2>1. /\ actor' = [actor EXCEPT ![a].op = "none", ![a].on = Body]
        /\ spark' = spark /\ job' = job
    BY <1>2, <1>6, <1>9 DEF Resumes
  <2>2. t = NoCause BY <1>7, <1>9
  <2>3. PICK x \in Actor : x = actor[a] BY ActorTypes
  <2>4. PICK y \in Actor : y = [x EXCEPT !.op = "none", !.on = Body]
    BY Numbers DEF Actor
  <2>5. y.call = x.call /\ y.result = x.result /\ y.op = "none" BY <2>4 DEF Actor
  <2>6. actor' = [actor EXCEPT ![a] = y] BY <2>1, <2>3, <2>4 DEF TypeOK
  <2>7. /\ actor' \in [Actors -> Actor] /\ actor'[a] = y
        /\ \A b \in Actors \ {a} : actor'[b] = actor[b]
    BY <2>6 DEF TypeOK
  <2>8. \A b \in Actors : /\ actor'[b].call = actor[b].call
                          /\ actor'[b].result = actor[b].result
    BY <2>3, <2>5, <2>7
  <2>9. \A i \in Jobs : job[i].kind = "none" => i # a
    BY <1>4 DEF IInv, JobsAgree, JobAgrees, NoActor
  <2>10. \A i \in Jobs : job[i].kind = "none" => actor'[i] = actor[i]
    BY <2>7, <2>9, Numbers
  <2>11. \A i \in Jobs : Kept(i) /\ job'[i].reason = job[i].reason
    BY <1>5, <2>1, <2>8, <2>10, SameKept, Numbers
  <2>12. ActorMoves(a) BY <1>1, <1>3, <2>2, <2>5, <2>7 DEF ActorMoves
  <2>13. \A b \in Actors : ActorMoves(b) BY <2>7, <2>12, SameActor
  <2>14. TypeOK' BY <1>5, <1>8, <2>1, <2>7 DEF TypeOK
  <2> QED BY <2>1, <2>8, <2>11, <2>13, <2>14, Numbers, QuietStep
<1>10. CASE r # NoCause
  <2>1. CallEnds(a, r) BY <1>2, <1>6, <1>10 DEF Resumes
  <2>2. CASE a = Body
    <3>1. Reason(a) = spark.reason BY <2>2 DEF Reason
    <3>2. Early BY <1>4, <2>2 DEF IInv, ScopeAgrees, BodyAgrees, Early
    <3>3. spark.reason \in Causes BY ScopeTypes
    <3>4. spark.reason # Value
      <4>1. \A c \in spark.failures : Genuine(c)
        BY <3>2 DEF IInv, FailuresGenuine, Early
      <4>2. spark.reason \in spark.failures \union {NoCause, Outer, Ended}
        BY DEF IInv, FailuresGenuine
      <4> QED BY <4>1, <4>2, GenuineNot, CauseKinds
    <3>5. r \in Causes /\ r # Value BY <1>3, <1>7, <3>1, <3>3, <3>4
    <3>6. job[actor[Body].on].handle = "released" /\ actor[Body].call = "running"
      BY <1>1, <1>4, <2>2
    <3>7. CallEnds(Body, r) BY <2>1, <2>2
    <3> QED BY <1>1, <1>8, <3>5, <3>6, <3>7, BodyEndsStep
  <2>3. CASE a # Body
    <3>1. a \in Jobs BY <2>3 DEF Actors
    <3>2. JobAgrees(a) BY <3>1 DEF IInv, JobsAgree
    <3>3. pool[a] \notin {"queued", "running"} BY <1>4, <3>2 DEF JobAgrees
    <3>4. Reason(a) = job[a].reason /\ job[a].reason \in Causes
      BY <2>3, <3>1, JobTypes DEF Reason
    <3>5. r \in Causes /\ (Early => r = job[a].reason \/ Genuine(r))
      BY <1>3, <1>7, <1>10, <3>4
    <3>6. (Early /\ actor[a].op = "join") =>
            actor[actor[a].on].result = Value \/ Genuine(r)
      BY <1>3, <1>7
    <3> QED BY <1>1, <1>4, <1>5, <1>8, <1>10, <2>1, <3>1, <3>3, <3>5, <3>6, JobEndsStep
  <2> QED BY <2>2, <2>3
<1> QED BY <1>9, <1>10

-----------------------------------------------------------------------------
(* Operations.                                                             *)

(* While somebody is in the guest the scope has no value.                  *)
LEMMA ActsOpen ==
  ASSUME IInv, NEW a \in Actors, Acts(a)
  PROVE  /\ spark.outcome # Value /\ actor[a].call = "running"
         /\ actor[a].op = "none" /\ (a \in Jobs => a \in Made)
<1>1. actor[a].call = "running" /\ actor[a].op = "none" BY DEF Acts
<1>2. CASE a = Body
  <2>1. BodyAgrees /\ Early
    BY <1>1, <1>2 DEF IInv, ScopeAgrees, BodyAgrees, Early
  <2> QED BY <1>1, <1>2, <2>1, Numbers, CauseKinds DEF BodyAgrees
<1>3. CASE a # Body
  <2>1. a \in Jobs BY <1>3 DEF Actors
  <2>2. JobAgrees(a) BY <2>1 DEF IInv, JobsAgree
  <2>3. a \in Made /\ ~job[a].complete
    BY <1>1, <2>1, <2>2 DEF JobAgrees, NoActor, Made
  <2>4. EndsAgree(a) BY <2>3 DEF IInv, ScopeAgrees
  <2> QED BY <1>1, <2>3, <2>4 DEF EndsAgree
<1> QED BY <1>2, <1>3

(* A job is spawned.                                                       *)
LEMMA SpawnStep ==
  ASSUME IInv, NEW a \in Actors, NEW kind \in {"spawn", "parallel", "speculate"},
         NEW captures \in SUBSET Held(a), Spawn(a, kind, captures)
  PROVE  Step
<1> TypeOK BY DEF IInv
<1>1. PICK n \in 0..MaxJobs : Made = 1..n BY DEF IInv, MadeAgree
<1>2. Cardinality(Made) = n BY <1>1, FS_Interval, Numbers
<1>3. PICK j : j = n + 1 OBVIOUS
<1>4. PICK new : new =
        [NoJob EXCEPT !.kind = kind, !.handle = "held", !.holder = a,
                      !.priority = IF kind = "speculate" THEN "speculative"
                                   ELSE "required"]
  OBVIOUS
<1>5. /\ Acts(a) /\ spark.step = "body" /\ j \in Jobs
      /\ actor' = [actor EXCEPT ![j].call = "called"]
      /\ spark' = spark /\ UNCHANGED poolVars /\ faults' = faults
      /\ job' = [k \in Jobs |->
                   IF k = j THEN new
                   ELSE IF k \in captures THEN [job[k] EXCEPT !.holder = j]
                   ELSE job[k]]
  BY <1>2, <1>3, <1>4 DEF Spawn, NoJob
<1>6. j \notin Made /\ job[j].kind = "none" /\ j \in Actors /\ j # Body
  BY <1>1, <1>3, <1>5, Numbers DEF Made
<1>7. JobAgrees(j) /\ job[j] = NoJob /\ actor[j] = NoActor /\ pool[j] = "unsubmitted"
  BY <1>5, <1>6 DEF IInv, JobsAgree, JobAgrees
<1>8. /\ new \in SparkJob /\ new.kind = kind /\ new.handle = "held"
      /\ new.use = "none" /\ new.life = "open" /\ new.reason = NoCause
      /\ ~new.cleanup /\ ~new.complete
  BY <1>4, Numbers, CauseTypes DEF NoJob, SparkJob
<1>9. job'[j] = new BY <1>5
<1>10. captures \subseteq Made BY DEF Held
<1>11. ASSUME NEW k \in Jobs, k # j
       PROVE  /\ job'[k] \in SparkJob /\ job'[k].kind = job[k].kind
              /\ job'[k].handle = job[k].handle /\ job'[k].use = job[k].use
              /\ job'[k].priority = job[k].priority
              /\ job'[k].admitted = job[k].admitted
              /\ job'[k].life = job[k].life /\ job'[k].reason = job[k].reason
              /\ job'[k].cleanup = job[k].cleanup
              /\ job'[k].complete = job[k].complete
              /\ job[k].kind = "none" => job'[k] = job[k]
  <2>1. CASE k \in captures
    <3>1. PICK x \in SparkJob : x = job[k] BY DEF TypeOK
    <3>2. job'[k] = [x EXCEPT !.holder = j] BY <1>5, <1>11, <2>1, <3>1
    <3>3. job[k].kind # "none" BY <1>10, <2>1 DEF Made
    <3> QED BY <1>6, <3>1, <3>2, <3>3 DEF SparkJob
  <2>2. CASE k \notin captures
    <3>1. job'[k] = job[k] BY <1>5, <1>11, <2>2
    <3> QED BY <3>1 DEF TypeOK
  <2> QED BY <2>1, <2>2
<1>12. job' \in [Jobs -> SparkJob]
  <2>1. \A k \in Jobs : job'[k] \in SparkJob BY <1>8, <1>9, <1>11
  <2>2. job' = [k \in Jobs |-> job'[k]] BY <1>5
  <2> QED BY <2>1, <2>2
<1>13. PICK y \in Actor : y = [NoActor EXCEPT !.call = "called"]
  BY Numbers, CauseTypes DEF NoActor, Actor
<1>14. /\ actor' \in [Actors -> Actor] /\ actor'[j] = y
       /\ \A b \in Actors \ {j} : actor'[b] = actor[b]
  BY <1>5, <1>6, <1>7, <1>13 DEF TypeOK
<1>15. y.call = "called" /\ y.op = "none" BY <1>13 DEF NoActor
<1>16. pool' = pool /\ Service!TypeOK' BY <1>5, PoolSame
<1>17. ScopeMoves /\ Steady
  <2>1. actor'[Body].call = actor[Body].call BY <1>6, <1>14, Numbers
  <2> QED BY <1>5, <2>1, ActsOpen, ScopeStays
<1>18. ASSUME NEW k \in Jobs, k # j
       PROVE  JobMoves(k) /\ CausesMove(k)
  <2>1. actor'[k] = actor[k] BY <1>14, <1>18, Numbers
  <2>2. JobAgrees(k) BY DEF IInv, JobsAgree
  <2>3. Kept(k) BY <1>11, <1>16, <1>18, <2>1, <2>2 DEF Kept, JobAgrees
  <2>4. JobMoves(k) BY <1>17, <2>3, KeptMoves
  <2>5. job'[k].reason = job[k].reason BY <1>11, <1>18
  <2> QED BY <2>1, <2>4, <2>5, KeptCauses
<1>19. JobMoves(j) /\ CausesMove(j)
  <2>1. JobAgrees(j)'
    BY <1>7, <1>8, <1>9, <1>14, <1>15, <1>16 DEF JobAgrees, Joining
  <2>2. EndsAgree(j)'
    <3>1. spark'.outcome # Value BY <1>5, ActsOpen
    <3> QED BY <1>5, <1>8, <1>9, <3>1 DEF EndsAgree
  <2>3. actor[j].call = "none" BY <1>7 DEF NoActor
  <2>4. ~job[j].complete /\ job[j].reason = NoCause BY <1>7 DEF NoJob
  <2>5. JobMoves(j)
    BY <1>6, <1>8, <1>9, <2>1, <2>2, <2>3, <2>4 DEF JobMoves
  <2>6. actor'[j].call # "ended" /\ job'[j].reason = job[j].reason
    BY <1>8, <1>9, <1>14, <1>15, <2>4
  <2>7. CausesMove(j) BY <1>5, <2>6, KeptCauses
  <2> QED BY <2>5, <2>7
<1>20. ActorMoves(j)
  <2>1. actor[j].op = "none" BY <1>7 DEF NoActor
  <2> QED BY <1>14, <1>15, <2>1 DEF ActorMoves
<1>21. \A b \in Actors : ActorMoves(b) BY <1>14, <1>20, SameActor
<1>22. TypeOK' BY <1>5, <1>12, <1>14, <1>16 DEF TypeOK
<1>23. MadeAgree'
  <2>1. Made' = Made \union {j}
    BY <1>5, <1>8, <1>9, <1>11 DEF Made
  <2>2. n + 1 \in 0..MaxJobs BY <1>3, <1>5, Numbers DEF Jobs
  <2>3. Made' = 1..(n + 1) BY <1>1, <1>3, <2>1
  <2> QED BY <2>2, <2>3 DEF MadeAgree
<1> QED BY <1>17, <1>18, <1>19, <1>21, <1>22, <1>23 DEF Step

(* What a consumer does to itself.                                         *)
LEMMA ConsumesFacts ==
  ASSUME IInv, NEW a \in Actors, NEW j \in Jobs, NEW op \in {"join", "cancel"},
         Consumes(a, j, op)
  PROVE  /\ actor' \in [Actors -> Actor] /\ faults' = faults
         /\ pool' = pool /\ Service!TypeOK'
         /\ \A b \in Actors : /\ actor'[b].call = actor[b].call
                              /\ actor'[b].result = actor[b].result
                              /\ b # a => actor'[b] = actor[b]
         /\ actor'[a].op = op /\ actor'[a].on = j /\ actor'[a].call = "running"
         /\ actor[a].op = "none" /\ spark.outcome # Value /\ j \in Made
         /\ job[j].handle = "held" /\ job[j].use = "none"
         /\ \A i \in Jobs : job[i].kind = "none" => actor'[i] = actor[i]
<1> TypeOK /\ j \in Actors BY Numbers DEF IInv
<1>1. /\ Acts(a) /\ j \in Held(a)
      /\ actor' = [actor EXCEPT ![a].op = op, ![a].on = j]
      /\ UNCHANGED poolVars /\ faults' = faults
  BY DEF Consumes
<1>2. /\ spark.outcome # Value /\ actor[a].call = "running"
      /\ actor[a].op = "none" /\ (a \in Jobs => a \in Made)
  BY <1>1, ActsOpen
<1>3. PICK x \in Actor : x = actor[a] BY ActorTypes
<1>4. PICK y \in Actor : y = [x EXCEPT !.op = op, !.on = j] BY DEF Actor
<1>5. y.call = x.call /\ y.result = x.result /\ y.op = op /\ y.on = j
  BY <1>4 DEF Actor
<1>6. actor' = [actor EXCEPT ![a] = y] BY <1>1, <1>3, <1>4 DEF TypeOK
<1>7. /\ actor' \in [Actors -> Actor] /\ actor'[a] = y
      /\ \A b \in Actors \ {a} : actor'[b] = actor[b]
  BY <1>6 DEF TypeOK
<1>8. pool' = pool /\ Service!TypeOK' BY <1>1, PoolSame
<1>9. j \in Made /\ job[j].handle = "held" /\ job[j].use = "none"
  <2>1. j \in Made /\ job[j].handle = "held" BY <1>1 DEF Held
  <2>2. job[j].use \in {"none", "join", "cancel"} BY JobTypes
  <2>3. JobAgrees(j) BY DEF IInv, JobsAgree
  <2> QED BY <2>1, <2>2, <2>3 DEF JobAgrees
<1>10. \A i \in Jobs : job[i].kind = "none" => actor'[i] = actor[i]
  BY <1>2, <1>7, Numbers DEF Made
<1> QED BY <1>1, <1>2, <1>3, <1>5, <1>7, <1>8, <1>9, <1>10

(* A handle is joined: the job is demanded.                                *)
LEMMA JoinStep ==
  ASSUME IInv, NEW a \in Actors, NEW j \in Jobs, Join(a, j)
  PROVE  Step
<1> TypeOK /\ JobAgrees(j) /\ Body \in Actors BY Numbers DEF IInv, JobsAgree
<1>1. Consumes(a, j, "join") /\ spark' = spark BY DEF Join
<1>2. /\ actor' \in [Actors -> Actor] /\ faults' = faults
      /\ pool' = pool /\ Service!TypeOK'
      /\ \A b \in Actors : /\ actor'[b].call = actor[b].call
                           /\ actor'[b].result = actor[b].result
                           /\ b # a => actor'[b] = actor[b]
      /\ actor'[a].op = "join" /\ actor'[a].on = j /\ actor'[a].call = "running"
      /\ actor[a].op = "none" /\ spark.outcome # Value /\ j \in Made
      /\ job[j].handle = "held" /\ job[j].use = "none"
      /\ \A i \in Jobs : job[i].kind = "none" => actor'[i] = actor[i]
  BY <1>1, ConsumesFacts
<1>3. PICK x \in SparkJob : x = job[j] BY DEF TypeOK
<1>4. PICK d \in SparkJob :
        /\ d = IF actor[j].call # "ended" THEN DemandHostCallback(j) ELSE job[j]
        /\ actor[j].call # "ended" =>
             d.priority = "required" /\ d.admitted # "speculative"
        /\ d.kind = x.kind /\ d.life = x.life /\ d.reason = x.reason
        /\ d.cleanup = x.cleanup /\ d.complete = x.complete
  <2>1. CASE actor[j].call = "ended" BY <1>3, <2>1
  <2>2. CASE actor[j].call # "ended"
    <3>1. PICK m \in {"none", "required", "speculative"} :
            m = IF x.admitted = "speculative" THEN "required" ELSE x.admitted
      BY DEF SparkJob
    <3>2. PICK d \in SparkJob : d = [x EXCEPT !.priority = "required", !.admitted = m]
      BY DEF SparkJob
    <3>3. d = DemandHostCallback(j) BY <1>3, <3>1, <3>2 DEF DemandHostCallback
    <3> QED BY <2>2, <3>1, <3>2, <3>3 DEF SparkJob
  <2> QED BY <2>1, <2>2
<1>5. PICK t \in SparkJob : t = [d EXCEPT !.use = "join", !.handle = "releasing"]
  BY DEF SparkJob
<1>6. job' = [job EXCEPT ![j] = t] BY <1>4, <1>5 DEF Join
<1>7. /\ t.kind = x.kind /\ t.life = x.life /\ t.reason = x.reason
      /\ t.cleanup = x.cleanup /\ t.complete = x.complete
      /\ t.use = "join" /\ t.handle = "releasing"
      /\ actor[j].call # "ended" =>
           t.priority = "required" /\ t.admitted # "speculative"
  BY <1>4, <1>5 DEF SparkJob
<1>8. /\ job' \in [Jobs -> SparkJob] /\ job'[j] = t
      /\ \A i \in Jobs \ {j} : job'[i] = job[i]
  BY <1>6 DEF TypeOK
<1>9. job[j].kind # "none" /\ j \in Actors BY <1>2, Numbers DEF Made
<1>10. JobAgrees(j)'
  BY <1>2, <1>3, <1>7, <1>8, <1>9 DEF JobAgrees, Joining
<1>11. Joined(j)' BY <1>2 DEF Joined
<1>12. Steady => JobMoves(j) /\ CausesMove(j)
  <2> SUFFICES ASSUME Steady PROVE JobMoves(j) /\ CausesMove(j)
    OBVIOUS
  <2>1. EndsAgree(j)' BY <1>2, <1>3, <1>7, <1>8, <1>9, SteadyEnds
  <2>2. JobMoves(j)
    BY <1>2, <1>3, <1>7, <1>8, <1>9, <1>10, <1>11, <2>1 DEF JobMoves
  <2> QED BY <1>2, <1>3, <1>7, <1>8, <1>9, <2>2, KeptCauses
<1>13. \A i \in Jobs \ {j} : Kept(i) /\ job'[i].reason = job[i].reason
  BY <1>2, <1>8, SameKept, Numbers
<1>14. ActorMoves(a) BY <1>2, <1>7, <1>8 DEF ActorMoves
<1>15. \A b \in Actors : ActorMoves(b) BY <1>2, <1>14, SameActor
<1>16. TypeOK' BY <1>1, <1>2, <1>8 DEF TypeOK
<1>17. \A i \in Jobs : job'[i].kind = job[i].kind BY <1>3, <1>7, <1>8
<1> QED BY <1>1, <1>2, <1>12, <1>13, <1>15, <1>16, <1>17, QuietStep

(* A handle is cancelled: the scope of the job begins to close.            *)
LEMMA CancelStep ==
  ASSUME IInv, NEW a \in Actors, NEW j \in Jobs, Cancel(a, j)
  PROVE  Step
<1> TypeOK /\ JobAgrees(j) /\ Body \in Actors BY Numbers DEF IInv, JobsAgree
<1>1. /\ Consumes(a, j, "cancel") /\ spark' = spark
      /\ job' = BeginClose([job EXCEPT ![j].use = "cancel",
                                       ![j].handle = "releasing"], {j}, Cancelled)
  BY DEF Cancel
<1>2. /\ actor' \in [Actors -> Actor] /\ faults' = faults
      /\ pool' = pool /\ Service!TypeOK'
      /\ \A b \in Actors : /\ actor'[b].call = actor[b].call
                           /\ actor'[b].result = actor[b].result
                           /\ b # a => actor'[b] = actor[b]
      /\ actor'[a].op = "cancel" /\ actor'[a].on = j /\ actor'[a].call = "running"
      /\ actor[a].op = "none" /\ spark.outcome # Value /\ j \in Made
      /\ job[j].handle = "held" /\ job[j].use = "none"
      /\ \A i \in Jobs : job[i].kind = "none" => actor'[i] = actor[i]
  BY <1>1, ConsumesFacts
<1>3. PICK x \in SparkJob : x = job[j] BY DEF TypeOK
<1>4. PICK t \in SparkJob : t = [x EXCEPT !.use = "cancel", !.handle = "releasing"]
  BY DEF SparkJob
<1>5. /\ t.kind = x.kind /\ t.life = x.life /\ t.reason = x.reason
      /\ t.cleanup = x.cleanup /\ t.complete = x.complete
      /\ t.use = "cancel" /\ t.handle = "releasing"
  BY <1>4 DEF SparkJob
<1>6. PICK table : table = [job EXCEPT ![j] = t] OBVIOUS
<1>7. job' = BeginClose(table, {j}, Cancelled)
  BY <1>1, <1>3, <1>4, <1>6 DEF TypeOK
<1>8. /\ table \in [Jobs -> SparkJob] /\ table[j] = t
      /\ \A i \in Jobs \ {j} : table[i] = job[i]
  BY <1>6 DEF TypeOK
<1>9. Cancelled \in Causes /\ Cancelled # NoCause BY CauseTypes, CauseKinds
<1>10. x.life \in {"open", "closing", "closed"} BY DEF SparkJob
<1>11. /\ job' \in [Jobs -> SparkJob]
       /\ \A i \in Jobs \ {j} : job'[i] = job[i]
       /\ job'[j].kind = x.kind /\ job'[j].use = "cancel"
       /\ job'[j].handle = "releasing" /\ job'[j].cleanup = x.cleanup
       /\ job'[j].complete = x.complete
       /\ job'[j].reason = First(x.reason, Cancelled)
       /\ job'[j].life = IF x.life = "open" THEN "closing" ELSE x.life
  BY <1>5, <1>7, <1>8, <1>9, CloseFields
<1>12. /\ job'[j].reason \in {x.reason, Cancelled} /\ job'[j].reason # NoCause
  BY <1>9, <1>11 DEF First
<1>13. job[j].kind # "none" /\ j \in Actors BY <1>2, Numbers DEF Made
<1>14. JobAgrees(j)'
  BY <1>2, <1>3, <1>10, <1>11, <1>12, <1>13 DEF JobAgrees, Joining
<1>15. CausesMove(j)
  <2>1. actor'[j].call = actor[j].call BY <1>2, <1>13
  <2>2. CASE job'[j].reason = job[j].reason BY <2>1, <2>2, KeptCauses
  <2>3. CASE job'[j].reason = Cancelled
    <3>1. MayBe(j, job[j].reason)' /\ Mild(j)' BY <1>11, <2>3 DEF MayBe, Mild
    <3> QED BY <2>1, <3>1 DEF CausesMove
  <2> QED BY <1>3, <1>12, <2>2, <2>3
<1>16. Steady => JobMoves(j) /\ CausesMove(j)
  <2> SUFFICES ASSUME Steady PROVE JobMoves(j)
    BY <1>15
  <2>1. job[j].life = "closed" => job'[j].life = "closed" BY <1>3, <1>11
  <2>2. EndsAgree(j)' BY <1>2, <1>3, <1>11, <1>13, <2>1, SteadyEnds
  <2> QED BY <1>2, <1>3, <1>11, <1>13, <1>14, <2>2 DEF JobMoves
<1>17. \A i \in Jobs \ {j} : Kept(i) /\ job'[i].reason = job[i].reason
  BY <1>2, <1>11, SameKept, Numbers
<1>18. ActorMoves(a) BY <1>2, <1>11 DEF ActorMoves
<1>19. \A b \in Actors : ActorMoves(b) BY <1>2, <1>18, SameActor
<1>20. TypeOK' BY <1>1, <1>2, <1>11 DEF TypeOK
<1>21. \A i \in Jobs : job'[i].kind = job[i].kind BY <1>3, <1>11
<1> QED BY <1>1, <1>2, <1>16, <1>17, <1>19, <1>20, <1>21, QuietStep

-----------------------------------------------------------------------------
(* The invariant.                                                          *)

(* The initial states.                                                     *)
LEMMA InitSound == Init => IInv
<1> SUFFICES ASSUME Init PROVE IInv
  OBVIOUS
<1>1. /\ spark = [step |-> "body", reason |-> NoCause, failures |-> {},
                  waits |-> {}, outcome |-> NoCause]
      /\ \A j \in Jobs : job[j] = NoJob /\ pool[j] = "unsubmitted"
      /\ faults = 0
  BY DEF Init, Service!Init
<1>2. /\ actor[Body] = [NoActor EXCEPT !.call = "running"]
      /\ \A j \in Jobs : actor[j] = NoActor
  BY Numbers DEF Init
<1>3. Made = {} BY <1>1 DEF Made, NoJob
<1>4. NoCause \in Causes /\ Body \in Actors /\ NoCause # Value /\ NoCause # Ended
  BY Numbers, CauseTypes, CauseKinds
<1>5. /\ NoActor \in Actor /\ [NoActor EXCEPT !.call = "running"] \in Actor
      /\ NoJob \in SparkJob /\ spark \in SparkScope
  BY <1>1, <1>4 DEF NoActor, Actor, NoJob, SparkJob, SparkScope
<1>6. TypeOK
  <2>1. actor \in [Actors -> Actor]
    <3>1. \A a \in Actors : actor[a] \in Actor BY <1>2, <1>5 DEF Actors
    <3>2. actor = [a \in Actors |-> actor[a]] BY DEF Init
    <3> QED BY <3>1, <3>2
  <2>2. job \in [Jobs -> SparkJob] BY <1>5 DEF Init
  <2>3. Service!TypeOK
    BY DEF Init, Service!Init, Service!TypeOK, Service!Phase
  <2> QED BY <1>1, <1>5, <2>1, <2>2, <2>3, Numbers DEF TypeOK
<1>7. MadeAgree
  <2>1. Made = 1..0 /\ 0 \in 0..MaxJobs BY <1>3, Numbers
  <2> QED BY <2>1 DEF MadeAgree
<1>8. JobsAgree /\ JoinsAgree
  <2>1. /\ NoActor.call = "none" /\ NoJob.kind = "none" /\ NoJob.life = "open"
        /\ NoJob.handle = "none" /\ NoJob.use = "none"
        /\ ~NoJob.cleanup /\ ~NoJob.complete
    BY DEF NoActor, NoJob
  <2>2. ASSUME NEW j \in Jobs
        PROVE  JobAgrees(j) /\ job[j].use # "join"
    <3>1. job[j] = NoJob /\ pool[j] = "unsubmitted" /\ actor[j] = NoActor
      BY <1>1, <1>2
    <3> QED BY <2>1, <3>1 DEF JobAgrees, Joining
  <2> QED BY <2>2 DEF JobsAgree, JoinsAgree
<1>9. \A a \in Actors : actor[a].op = "none"
  BY <1>2 DEF NoActor, Actors
<1>10. actor[Body].call = "running" BY <1>2 DEF NoActor
<1>11. ScopeAgrees
  BY <1>1, <1>3, <1>4, <1>10 DEF ScopeAgrees, BodyAgrees, Early
<1>12. OpsAgree BY <1>9 DEF OpsAgree
<1>13. ReasonsAgree /\ FailuresKept BY <1>3 DEF ReasonsAgree, FailuresKept
<1>14. FailuresGenuine /\ NothingLost
  BY <1>1, <1>3 DEF FailuresGenuine, NothingLost
<1> QED BY <1>6, <1>7, <1>8, <1>11, <1>12, <1>13, <1>14 DEF IInv

(* A step that does nothing.                                               *)
LEMMA StutterStep ==
  ASSUME IInv, UNCHANGED vars
  PROVE  Step
<1> TypeOK BY DEF IInv
<1>1. /\ spark' = spark /\ actor' = actor /\ job' = job /\ faults' = faults
      /\ UNCHANGED poolVars
  BY DEF vars
<1>2. pool' = pool /\ Service!TypeOK' BY <1>1, PoolSame
<1>3. TypeOK' BY <1>1, <1>2 DEF TypeOK
<1>4. \A i \in Jobs : Kept(i) /\ job'[i].reason = job[i].reason
  BY <1>1, <1>2, SameKept
<1>5. \A a \in Actors : ActorMoves(a) BY <1>1, SameActor
<1> QED BY <1>1, <1>3, <1>4, <1>5, QuietStep

(* Every step is one of these.                                             *)
LEMMA NextStep ==
  ASSUME IInv, [Next]_vars
  PROVE  Step
<1>1. ASSUME NEW a \in Actors, Operation(a)
      PROVE  Step
  BY <1>1, SpawnStep, JoinStep, CancelStep DEF Operation
<1>2. ASSUME NEW a \in Actors, Resumes(a) \/ Returns(a)
      PROVE  Step
  BY <1>2, ResumesStep, ReturnsStep
<1>3. ASSUME NEW j \in Jobs, Continues(j)
      PROVE  Step
  <2>1. CASE Launch(j) \/ LaunchFails(j) BY <2>1, LaunchStep, LaunchFailsStep
  <2>2. CASE \E fails \in BOOLEAN : LifeCloses(j, fails) BY <2>2, LifeClosesStep
  <2>3. CASE Completes(j) BY <2>3, CompletesStep, CompletesFailsStep
  <2>4. CASE HandleReleased(j) BY <2>4, HandleReleasedStep
  <2> QED BY <1>3, <2>1, <2>2, <2>3, <2>4 DEF Continues
<1>4. ASSUME NEW j \in Jobs, Pool(j)
      PROVE  Step
  BY <1>4, PoolStartsStep, PoolEndsStep DEF Pool
<1>5. CASE RunScope
  BY <1>5, UnusedClosedStep, JobsJoinedStep, DisposeHandlesStep, OverStep
     DEF RunScope
<1>6. CASE OuterAbort BY <1>6, OuterAbortStep
<1>7. CASE UNCHANGED vars BY <1>7, StutterStep
<1> QED BY <1>1, <1>2, <1>3, <1>4, <1>5, <1>6, <1>7 DEF Next

(***************************************************************************)
(* The inductive invariant: jobs, callbacks, scopes and handles advance    *)
(* together, every reason comes from a failure, from the program or from   *)
(* an end, and no failure of a job that is demanded gets lost on its way.  *)
(***************************************************************************)
THEOREM Invariant == Spec => []IInv
<1>1. Init => IInv BY InitSound
<1>2. IInv /\ [Next]_vars => IInv' BY NextStep, StepKeeps
<1> QED BY <1>1, <1>2, PTL DEF Spec

(* When the scope is over nobody is left in it.                            *)
LEMMA OverDrained ==
  ASSUME IInv
  PROVE  Drained
<1> SUFFICES ASSUME spark.step = "over" PROVE
      /\ \A a \in Made \union {Body} :
           actor[a].call = "ended" /\ actor[a].op = "none"
      /\ \A j \in Made :
           /\ pool[j] \notin {"queued", "running"} /\ job[j].handle = "released"
           /\ job[j].complete \/ (job[j].cleanup /\ job[j].use # "join")
  BY DEF Drained
<1>1. ASSUME NEW j \in Made
      PROVE  /\ actor[j].call = "ended" /\ actor[j].op = "none"
             /\ pool[j] \notin {"queued", "running"} /\ job[j].handle = "released"
             /\ job[j].complete \/ (job[j].cleanup /\ job[j].use # "join")
  <2>1. j \in Jobs /\ j \in Actors /\ JobAgrees(j) /\ EndsAgree(j)
    BY Numbers DEF Made, IInv, JobsAgree, ScopeAgrees
  <2>2. job[j].life = "closed" /\ job[j].handle = "released"
    BY <2>1 DEF EndsAgree
  <2>3. actor[j].call = "ended" BY <2>1, <2>2 DEF JobAgrees
  <2>4. actor[j].op = "none" BY <2>1, <2>3, Idle
  <2> QED BY <2>1, <2>2, <2>3, <2>4 DEF JobAgrees
<1>2. actor[Body].call = "ended" BY DEF IInv, ScopeAgrees, BodyAgrees
<1>3. actor[Body].op = "none" BY <1>2, Idle, Numbers
<1> QED BY <1>1, <1>2, <1>3

(***************************************************************************)
(* join demands and promotes, what is recorded as a failure is one, a      *)
(* scope that returns a value has lost no failure, and one that is over    *)
(* has nothing left running: for every number of jobs and of errors.       *)
(***************************************************************************)
THEOREM SparkAlwaysSound == Spec => []SparkSound
<1>1. IInv => SparkSound
  <2> SUFFICES ASSUME IInv PROVE SparkSound
    OBVIOUS
  <2>1. DemandKept BY DEF IInv, JobsAgree, JobAgrees, DemandKept, Made
  <2> QED BY <2>1, OverDrained DEF SparkSound, IInv
<1> QED BY <1>1, Invariant, PTL
=============================================================================
