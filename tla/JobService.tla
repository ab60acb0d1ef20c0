----------------------------- MODULE JobService -----------------------------
(***************************************************************************)
(* What a caller of CallbackExecutor may rely on, whatever the pool does   *)
(* about queues, priorities, caches and worker loss: an admitted job waits,*)
(* is given to at most one worker, which it has to itself, and settles     *)
(* once.  Nothing is admitted or started after the service is shut.        *)
(***************************************************************************)
CONSTANTS Jobs, Workers, NoWorker

VARIABLES phase,    \* the life of each job
          holder,   \* the worker it was given to
          open      \* the service admits and starts jobs

vars == <<phase, holder, open>>

Phase == {"unsubmitted", "queued", "running", "value", "error"}

TypeOK == /\ phase \in [Jobs -> Phase]
          /\ holder \in [Jobs -> Workers \union {NoWorker}]
          /\ open \in BOOLEAN

Init == /\ phase = [j \in Jobs |-> "unsubmitted"]
        /\ holder = [j \in Jobs |-> NoWorker]
        /\ open = TRUE

Submit(j) ==
  /\ open /\ phase[j] = "unsubmitted"
  /\ phase' = [phase EXCEPT ![j] = "queued"]
  /\ UNCHANGED <<holder, open>>

Start(j, w) ==
  /\ open /\ phase[j] = "queued"
  /\ \A k \in Jobs : phase[k] = "running" => holder[k] # w
  /\ phase' = [phase EXCEPT ![j] = "running"]
  /\ holder' = [holder EXCEPT ![j] = w]
  /\ UNCHANGED open

\* A value only comes from a job that ran; an error may come from the queue.
Settle(j, outcome) ==
  /\ \/ phase[j] = "running"
     \/ phase[j] = "queued" /\ outcome = "error"
  /\ phase' = [phase EXCEPT ![j] = outcome]
  /\ UNCHANGED <<holder, open>>

\* Shutting the service fails every job that no worker has.
Shut ==
  /\ open
  /\ open' = FALSE
  /\ phase' = [j \in Jobs |-> IF phase[j] = "queued" THEN "error" ELSE phase[j]]
  /\ UNCHANGED holder

Next ==
  \/ \E j \in Jobs : Submit(j)
  \/ \E j \in Jobs, w \in Workers : Start(j, w)
  \/ \E j \in Jobs, outcome \in {"value", "error"} : Settle(j, outcome)
  \/ Shut

Spec == Init /\ [][Next]_vars
=============================================================================
