--------------------------- MODULE LanguageServer ---------------------------
(***************************************************************************)
(* The language server in the mode the shipped entries run it: a           *)
(* coordinator (lsp/server.ts, requests.ts, scheduler.ts, diagnostics.ts,  *)
(* documents.ts) over two Node worker threads (node/lsp_worker_host.ts).   *)
(* The syntax lane formats; the semantic lane answers every other request, *)
(* diagnoses, and feeds a replica of the open documents.                   *)
(*                                                                         *)
(* A handler runs to its end before the next event, so its effect is an    *)
(* operator from the coordinator before to the coordinator after, and one  *)
(* step is one event.  What a handler leaves to the microtask queue        *)
(* (Resumes, Sends) happens before the next event.                         *)
(*                                                                         *)
(* A text is the number of the revision that made it; 0 stands for a       *)
(* closed document.  Every request has an identifier of its own.           *)
(***************************************************************************)
EXTENDS Naturals, Sequences, FiniteSets, SequencesExt

CONSTANTS
    Uris,           \* documents
    MaxRequests,    \* bound: requests
    MaxRevision,    \* bound: openings and changes
    MaxPending,     \* maxPendingPerLane
    MaxFaults,      \* bound: crashes, failed starts, changes that do not fit
    MaxEvents,      \* bound: all of these and the shutdown together
    None,           \* undefined
    Again           \* a pump whose loop has to go round again

ASSUME ServerBounds ==
    /\ MaxPending \in Nat \ {0}
    /\ {MaxRequests, MaxRevision, MaxFaults, MaxEvents} \subseteq Nat
    /\ {None, Again} \cap Uris = {}

VARIABLES
    server,         \* the coordinator and its two hosts
    faults          \* faults so far

vars == <<server, faults>>

Lanes     == {"syntax", "semantic"}
Ids       == 1..MaxRequests
Revisions == 0..MaxRevision
Wrong     == MaxRevision + 1    \* a text the coordinator never had
DocKinds  == {"open", "change", "misfit", "close"}

\* A job for a lane.  A change leads from text base to text; a misfit is a
\* change whose ranges do not fit.  ahead: taken while the documents it is
\* about were being sent anew.
DocTask(kind, uri, base, text) ==
    [kind |-> kind, id |-> None, uri |-> uri, entry |-> 0, base |-> base,
     text |-> text, ahead |-> FALSE]
Task(kind, id, uri, entry) ==
    [DocTask(kind, uri, 0, 0) EXCEPT !.id = id, !.entry = entry]

IsDocTask(task) == task.kind \in DocKinds
LaneOf(task) == IF task.kind = "format" THEN "syntax" ELSE "semantic"

NoRequest ==
    [state |-> "none", method |-> "none", uri |-> None, cancelled |-> FALSE,
     invalidated |-> FALSE, answer |-> "none"]
NoHost ==
    [worker |-> "none", started |-> FALSE, muted |-> FALSE, dying |-> "none",
     late |-> 0]

Init ==
    /\ faults = 0
    /\ server =
         [lifecycle |-> "running",
          docs |-> [u \in Uris |-> 0], revision |-> 0,
          requests |-> [i \in Ids |-> NoRequest],
          priority |-> [l \in Lanes |-> << >>], normal |-> [l \in Lanes |-> << >>],
          active |-> [l \in Lanes |-> None], pump |-> [l \in Lanes |-> None],
          reconstruct |-> [l \in Lanes |-> "no"],
          host |-> [l \in Lanes |-> NoHost], work |-> [l \in Lanes |-> << >>],
          replica |-> [u \in Uris |-> 0],
          timer |-> [u \in Uris |-> 0], ready |-> << >>,
          held |-> [u \in Uris |-> 0], cursor |-> None,
          published |-> [u \in Uris |-> 0], missed |-> [u \in Uris |-> FALSE],
          unsynced |-> FALSE]

\* The bounds.
Asked == Cardinality({i \in Ids : server.requests[i].state # "none"})
Stopped == IF server.lifecycle = "running" THEN 0 ELSE 1
Spare == Asked + server.revision + faults + Stopped < MaxEvents
Fault == Spare /\ faults < MaxFaults /\ faults' = faults + 1

-----------------------------------------------------------------------------
(* Requests (requests.ts) and freshness (documents.ts).                    *)

Live(s, id) == s.requests[id].state = "live"

\* settle: results are converted, failures are not.  Nothing but its state is
\* read of a settled record.
Answered(request, outcome) ==
    [NoRequest EXCEPT
       !.state = "settled",
       !.answer = IF outcome \in {"failed", "deadline"} THEN outcome
                  ELSE IF request.cancelled THEN "cancelled"
                  ELSE IF request.invalidated THEN "modified" ELSE outcome]
Settle(s, id, outcome) ==
    IF Live(s, id) THEN [s EXCEPT !.requests[id] = Answered(@, outcome)] ELSE s

\* markInvalidated.
Invalidated(s, id) ==
    IF id = None \/ ~Live(s, id) THEN s
    ELSE [s EXCEPT !.requests[id].invalidated = TRUE]

InvalidateUri(s, uri) ==
    [s EXCEPT !.requests = [i \in Ids |->
        IF Live(s, i) /\ s.requests[i].uri = uri
        THEN [@[i] EXCEPT !.invalidated = TRUE] ELSE @[i]]]

\* The entry snapshot of a task still names the current revision.
IsFresh(s, task) == task.entry = 0 \/ s.docs[task.uri] = task.entry

-----------------------------------------------------------------------------
(* The worker hosts (node/lsp_worker_host.ts).                             *)

\* start: a worker that is up or booting is kept.  A crashed one is forgotten
\* although its exit has not been reported.
StartHost(s, l) ==
    IF s.host[l].started \/ s.host[l].worker = "booting" THEN s
    ELSE [s EXCEPT
            !.host[l] = [@ EXCEPT !.worker = "booting", !.muted = FALSE,
                                  !.late = @ + IF s.host[l].worker = "crashed"
                                               THEN 1 ELSE 0],
            !.work[l] = << >>,
            !.replica = IF l = "semantic" THEN [u \in Uris |-> 0] ELSE @]

\* terminate: what follows it waits for the worker's exit.
Terminate(s, l) ==
    [s EXCEPT !.host[l] =
        [@ EXCEPT !.worker = "none", !.started = FALSE, !.muted = TRUE,
                  !.dying = IF s.host[l].worker = "none" THEN @
                            ELSE s.host[l].worker]]

-----------------------------------------------------------------------------
(* Queues and the pump (scheduler.ts).                                     *)

Queued(s, l) == Len(s.priority[l]) + Len(s.normal[l])
Runnable(s, l) ==
    s.active[l] = None /\ s.reconstruct[l] = "no" /\ Queued(s, l) > 0

Push(s, task) ==
    IF IsDocTask(task) THEN [s EXCEPT !.priority["semantic"] = Append(@, task)]
    ELSE [s EXCEPT !.normal[LaneOf(task)] = Append(@, task)]

NextTask(s, l) ==
    IF s.priority[l] # << >> THEN Head(s.priority[l]) ELSE Head(s.normal[l])
Shift(s, l) ==
    IF s.priority[l] # << >> THEN [s EXCEPT !.priority[l] = Tail(@)]
    ELSE [s EXCEPT !.normal[l] = Tail(@)]

\* A task the lane will take.  Priority tasks bypass the bound.
Accepts(s, task) == IsDocTask(task) \/ Queued(s, LaneOf(task)) < MaxPending

(* Diagnostics (diagnostics.ts).                                            *)

EntryOf(s, uri) == CHOOSE r \in Range(s.ready) : r.uri = uri
IsReady(s, uri) == \E r \in Range(s.ready) : r.uri = uri
Unready(s, uri) == SelectSeq(s.ready, LAMBDA r : r.uri # uri)
SetReady(s, uri, entry) ==
    IF IsReady(s, uri)
    THEN [i \in DOMAIN s.ready |->
            IF s.ready[i].uri = uri THEN [uri |-> uri, entry |-> entry] ELSE s.ready[i]]
    ELSE Append(s.ready, [uri |-> uri, entry |-> entry])

\* The uris that are ready, from the one after the cursor on.
RotatedReady(s) ==
    LET uris == [i \in DOMAIN s.ready |-> s.ready[i].uri]
        at   == {i \in DOMAIN uris : uris[i] = s.cursor}
    IN  IF at = {} THEN uris
        ELSE LET k == CHOOSE i \in at : TRUE
             IN  SubSeq(uris, k + 1, Len(uris)) \o SubSeq(uris, 1, k)

\* The job a document waits for becomes its job in the lane, when no other is.
Submits(s, uri) ==
    /\ IsReady(s, uri) /\ s.held[uri] = 0
    /\ s.docs[uri] = EntryOf(s, uri).entry
    /\ Queued(s, "semantic") < MaxPending
Diagnosis(s, uri) == Task("diagnose", None, uri, EntryOf(s, uri).entry)
Submitted(s, task) ==
    [s EXCEPT !.held[task.uri] = task.entry, !.cursor = task.uri,
              !.ready = Unready(s, task.uri)]
Unsubmitted(s, uri) ==
    IF ~IsReady(s, uri) \/ s.held[uri] # 0 THEN s
    ELSE IF s.docs[uri] # EntryOf(s, uri).entry THEN [s EXCEPT !.ready = Unready(s, uri)]
    ELSE [s EXCEPT !.timer[uri] = EntryOf(s, uri).entry]

\* #flush, called by the loop of a lane, which is not pumped again.
FlushInLoop(s) ==
    IF s.lifecycle # "running" THEN s
    ELSE FoldLeft(LAMBDA acc, uri :
           IF Submits(acc, uri)
           THEN Submitted(Push(acc, Diagnosis(acc, uri)), Diagnosis(acc, uri))
           ELSE Unsubmitted(acc, uri),
           s, RotatedReady(s))

(* Dispatch, up to the await of the host.                                  *)

\* Stale or superseded work settles without running.
GateDrops(s, task) ==
    \/ task.id # None /\ ~Live(s, task.id)
    \/ task.id # None /\ (s.requests[task.id].cancelled \/ s.requests[task.id].invalidated)
    \/ ~IsDocTask(task) /\ ~IsFresh(s, task)
Dropped(s, task) ==
    IF task.id # None
    THEN Settle(IF IsFresh(s, task) THEN s ELSE Invalidated(s, task.id), task.id, "null")
    ELSE IF s.held[task.uri] # task.entry THEN s
    ELSE FlushInLoop([s EXCEPT !.held[task.uri] = 0])

Dispatch(s, l, task) ==
    IF GateDrops(s, task) THEN Dropped([s EXCEPT !.pump[l] = Again], task)
    ELSE StartHost([s EXCEPT !.pump[l] = task], l)

PumpLane(s, l) ==
    IF s.pump[l] # None \/ ~Runnable(s, l) THEN s
    ELSE Dispatch(Shift(s, l), l, NextTask(s, l))
Pump(s) == PumpLane(PumpLane(s, "syntax"), "semantic")

\* enqueue.
Enqueue(s, task) ==
    IF s.lifecycle = "running" /\ Accepts(s, task) THEN Pump(Push(s, task))
    ELSE IF task.id # None THEN Settle(s, task.id, "failed") ELSE s

\* #flush and onTaskAbandoned.
Flush(s) ==
    IF s.lifecycle # "running" THEN s
    ELSE FoldLeft(LAMBDA acc, uri :
           IF Submits(acc, uri)
           THEN Submitted(Enqueue(acc, Diagnosis(acc, uri)), Diagnosis(acc, uri))
           ELSE Unsubmitted(acc, uri),
           s, RotatedReady(s))
TaskAbandoned(s, task) ==
    IF s.held[task.uri] # task.entry THEN s
    ELSE Flush([s EXCEPT !.held[task.uri] = 0])

\* dropQueued: the doomed tasks are abandoned while they are still queued,
\* which leads to after; what is enqueued meanwhile stays.
InLanes(s) == s.normal["syntax"] \o s.priority["semantic"] \o s.normal["semantic"]
Kept(before, after, doomed) ==
    SelectSeq(before, LAMBDA task : task \notin doomed)
        \o SubSeq(after, Len(before) + 1, Len(after))
Without(s, after, doomed) ==
    [after EXCEPT
       !.priority = [l \in Lanes |-> Kept(s.priority[l], @[l], doomed)],
       !.normal   = [l \in Lanes |-> Kept(s.normal[l], @[l], doomed)]]
DropQueued(s, after, doomed) ==
    IF doomed = {} THEN s ELSE Pump(Without(s, after, doomed))

\* The abandon callback of a request or of a diagnostics job, which publishes
\* nothing when it fails.
AbandonWork(s, task, outcome) ==
    IF task.id # None THEN Settle(s, task.id, outcome)
    ELSE TaskAbandoned(
           IF outcome = "failed" /\ s.docs[task.uri] = task.entry
           THEN [s EXCEPT !.missed[task.uri] = TRUE] ELSE s,
           task)

\* dropQueued with null for every doomed task.
DropWork(s, doomed) ==
    DropQueued(s, FoldLeft(LAMBDA acc, task : AbandonWork(acc, task, "null"), s,
                           SelectSeq(InLanes(s), LAMBDA task : task \in doomed)), doomed)
DropUriTasks(s, uri) ==
    DropWork(s, {task \in Range(InLanes(s)) : task.uri = uri /\ ~IsDocTask(task)})

\* #schedule: the latest entry replaces what is queued for the document.
Schedule(s, uri, entry) ==
    IF s.lifecycle # "running" \/ s.docs[uri] = 0 THEN s
    ELSE Flush(DropWork([s EXCEPT !.ready = SetReady(s, uri, entry)],
                  {task \in Range(InLanes(s)) :
                     task.kind = "diagnose" /\ task.uri = uri /\ task.entry = s.held[uri]}))

-----------------------------------------------------------------------------
(* The replica (server.ts).                                                *)

\* requestResync.  The tasks that sent documents are dropped, which pumps the
\* lane before the documents are enqueued again.
Overtakes(s, after) ==
    IF s.pump["semantic"] = None /\ after.pump["semantic"] \notin {None, Again}
    THEN [after EXCEPT !.pump["semantic"].ahead = TRUE] ELSE after
SendAll(s) ==
    FoldSet(LAMBDA uri, acc : Enqueue(acc, DocTask("open", uri, 0, s.docs[uri])),
            s, {u \in Uris : s.docs[u] # 0})
Resync(s) ==
    IF s.lifecycle # "running" THEN s
    ELSE LET synced == [s EXCEPT !.unsynced = FALSE]
             doomed == {task \in Range(InLanes(s)) : task.kind \in DocKinds \ {"close"}}
         IN  SendAll(Overtakes(s, DropQueued(synced, synced, doomed)))

\* A task's abandon callback.
Abandon(s, task, outcome) ==
    IF IsDocTask(task) THEN Resync(s) ELSE AbandonWork(s, task, outcome)

-----------------------------------------------------------------------------
(* Losing and restarting a host (scheduler.ts).                            *)

Cleared(s, l) == [s EXCEPT !.active[l] = None]

Restart(s, l) == [StartHost(s, l) EXCEPT !.reconstruct[l] = "start"]
Reconstruct(s, l) ==
    IF s.reconstruct[l] # "no" THEN s
    ELSE IF s.host[l].worker = "none" THEN Restart(Terminate(s, l), l)
    ELSE [Terminate(s, l) EXCEPT !.reconstruct[l] = "terminate"]
\* Mutant: nobody sends the documents to the new worker.
ReconstructedBlank(s, l) == Pump([s EXCEPT !.reconstruct[l] = "no"])
Reconstructed(s, l) ==
    Pump(IF l = "semantic" THEN Resync([s EXCEPT !.reconstruct[l] = "no"])
         ELSE [s EXCEPT !.reconstruct[l] = "no"])
\* Mutant: the lane is not pumped again.
ReconstructFailsSilent(s, l) ==
    [s EXCEPT !.reconstruct[l] = "no", !.unsynced = @ \/ l = "semantic"]
ReconstructFails(s, l) ==
    Pump([s EXCEPT !.reconstruct[l] = "no",
                   !.unsynced = @ \/ l = "semantic"])

OnHostError(s, l) ==
    Reconstruct(IF s.active[l] = None THEN s
                ELSE Abandon(Cleared(s, l), s.active[l].task, "failed"), l)

\* The start a dispatch waits for fails: a task without a request is put back.
Waits(s, l) == s.pump[l] \notin {None, Again}
Requeue(s, l, task) ==
    IF IsDocTask(task) THEN [s EXCEPT !.pump[l] = None, !.priority[l] = <<task>> \o @]
    ELSE [s EXCEPT !.pump[l] = None, !.normal[l] = <<task>> \o @]
StartFails(s, l) ==
    IF ~Waits(s, l) THEN s
    ELSE IF s.pump[l].id = None THEN PumpLane(Requeue(s, l, s.pump[l]), l)
    ELSE [Settle(s, s.pump[l].id, "failed") EXCEPT !.pump[l] = Again]

-----------------------------------------------------------------------------
(* Microtasks: what an event leaves behind is over before the next one.    *)

Quiet == \A l \in Lanes : server.pump[l] # Again /\
                          (Waits(server, l) => ~server.host[l].started)

\* The loop of #pumpLane goes round after a task that was dropped.
Resumes(l) ==
    /\ server.pump[l] = Again
    /\ server' = PumpLane([server EXCEPT !.pump[l] = None], l)
    /\ UNCHANGED faults

\* The rest of #dispatch.  A format job takes the current text along.
NextJob(s, l) == IF \E j \in Range(s.work[l]) : j.job = 1 THEN 2 ELSE 1
Sent(s, l, task) ==
    [s EXCEPT
       !.pump[l] = None,
       !.active[l] = [task |-> task, job |-> NextJob(s, l), obsolete |-> FALSE,
                      late |-> task.id # None /\ ~Live(s, task.id)],
       !.work[l] = Append(@, [job |-> NextJob(s, l), task |-> task,
                              text |-> s.docs[task.uri]])]
Sends(l) ==
    /\ Waits(server, l) /\ server.host[l].started
    /\ LET task == server.pump[l]
       IN  server' = IF task.kind = "format" /\ server.docs[task.uri] = 0
                     THEN [Settle(server, task.id, "failed") EXCEPT !.pump[l] = Again]
                     ELSE Sent(server, l, task)
    /\ UNCHANGED faults

-----------------------------------------------------------------------------
(* Messages of the client (server.ts).                                     *)

Client == server.lifecycle = "running" /\ Quiet

NewText(s, uri) ==
    [s EXCEPT !.docs[uri] = s.revision + 1, !.revision = @ + 1,
              !.missed[uri] = FALSE]

DidOpen(uri) ==
    /\ server.docs[uri] = 0 /\ server.revision < MaxRevision /\ Spare /\ Client
    /\ LET entry == server.revision + 1
       IN  server' = Schedule(
               Enqueue(NewText(server, uri), DocTask("open", uri, 0, entry)), uri, entry)
    /\ UNCHANGED faults

DidChange(uri) ==
    /\ server.docs[uri] # 0 /\ server.revision < MaxRevision /\ Spare /\ Client
    /\ LET entry == server.revision + 1
           sent  == Enqueue(server, DocTask("change", uri, server.docs[uri], entry))
       IN  server' = [DropUriTasks(InvalidateUri(NewText(sent, uri), uri), uri)
                        EXCEPT !.timer[uri] = entry]
    /\ UNCHANGED faults

\* The job is enqueued before the coordinator's own copy rejects the change.
DidMischange(uri) ==
    /\ server.docs[uri] # 0 /\ Client
    /\ Fault
    /\ server' = Enqueue(server, DocTask("misfit", uri, server.docs[uri], 0))

DidSave(uri) ==
    /\ server.docs[uri] # 0 /\ Client
    /\ server' = Schedule([server EXCEPT !.timer[uri] = 0], uri, server.docs[uri])
    /\ UNCHANGED faults

NoteClosed(s, uri) ==
    [s EXCEPT !.timer[uri] = 0, !.held[uri] = 0, !.ready = Unready(s, uri),
              !.cursor = IF @ = uri THEN None ELSE @, !.published[uri] = 0]
DidClose(uri) ==
    /\ server.docs[uri] # 0 /\ Client
    /\ LET closed == InvalidateUri([server EXCEPT !.docs[uri] = 0], uri)
       IN  server' = Enqueue(NoteClosed(DropUriTasks(closed, uri), uri),
                             DocTask("close", uri, 0, 0))
    /\ UNCHANGED faults

\* A request for a document, open or not: formatting, or any other method.
Ask(id, method, uri) ==
    /\ server.requests[id].state = "none"
    /\ \A i \in Ids : i < id => server.requests[i].state # "none"
    /\ Spare /\ Client
    /\ server' = Enqueue([server EXCEPT !.requests[id] =
                             [@ EXCEPT !.state = "live", !.method = method, !.uri = uri]],
                         Task(method, id, uri, server.docs[uri]))
    /\ UNCHANGED faults

CancelRequest(id) ==
    /\ Live(server, id) /\ ~server.requests[id].cancelled /\ Quiet
    /\ server' = Pump([server EXCEPT !.requests[id].cancelled = TRUE])
    /\ UNCHANGED faults

-----------------------------------------------------------------------------
(* Results.  A worker runs its jobs in order (workers/loop.ts); a change to   *)
(* another text than its base either fails or makes a text that is nobody's. *)

Outcome(ok, seen, text) == [ok |-> ok, seen |-> seen, text |-> text]
Executes(task, given, held) ==
    CASE task.kind = "open"   -> {Outcome(TRUE, 0, task.text)}
      [] task.kind = "close"  -> {Outcome(TRUE, 0, 0)}
      [] task.kind = "format" -> {Outcome(ok, given, held) : ok \in BOOLEAN}
      [] held = 0             -> {Outcome(FALSE, 0, 0)}
      [] task.kind = "change" ->
            IF held = task.base THEN {Outcome(TRUE, 0, task.text)}
            ELSE {Outcome(FALSE, 0, held), Outcome(TRUE, 0, Wrong)}
      [] task.kind = "misfit" ->
            {Outcome(FALSE, 0, held)}
               \cup IF held = task.base THEN {} ELSE {Outcome(TRUE, 0, Wrong)}
      [] OTHER -> {Outcome(ok, held, held) : ok \in BOOLEAN}

\* What the answer was computed from, seen by the client.
Excused(s, task) == task.ahead \/ s.unsynced
ValueOf(s, task, seen) ==
    IF task.entry = 0 \/ seen = s.docs[task.uri] THEN "value"
    ELSE IF Excused(s, task) THEN "overtaken" ELSE "other"

\* onTaskSettled: the result is published under the version of its entry.
TaskSettled(s, task, seen) ==
    IF s.held[task.uri] # task.entry THEN s
    ELSE Flush([s EXCEPT
                  !.held[task.uri] = 0,
                  !.published[task.uri] =
                     IF seen = task.entry THEN seen
                     ELSE IF Excused(s, task) THEN 0 ELSE Wrong,
                  !.missed[task.uri] = @ \/ (seen # task.entry /\ Excused(s, task))])

\* The settle callback of a task.
Settled(s, task, seen) ==
    IF IsDocTask(task) THEN s
    ELSE IF task.id = None THEN TaskSettled(s, task, seen)
    ELSE Settle(s, task.id, ValueOf(s, task, seen))

\* onRawResult.
OnResult(s, l, job, outcome) ==
    IF s.active[l] = None \/ s.active[l].job # job THEN s
    ELSE LET task == s.active[l].task
         IN  Pump(IF ~IsDocTask(task) /\ ~IsFresh(s, task)
                  THEN AbandonWork(Invalidated(Cleared(s, l), task.id), task, "null")
                  ELSE IF ~outcome.ok THEN Abandon(Cleared(s, l), task, "failed")
                  ELSE Settled(Cleared(s, l), task, outcome.seen))

Result(l) ==
    /\ server.work[l] # << >> /\ Quiet
    /\ LET done == Head(server.work[l])
           uri  == done.task.uri
       IN  \E outcome \in Executes(done.task, done.text, server.replica[uri]) :
             server' = OnResult(
                 [server EXCEPT !.work[l] = Tail(@), !.replica[uri] = outcome.text],
                 l, done.job, outcome)
    /\ UNCHANGED faults

-----------------------------------------------------------------------------
(* Events of the workers.                                                  *)

Ready(l) ==
    /\ server.host[l].worker = "booting" /\ Quiet
    /\ LET up == [server EXCEPT !.host[l].worker = "ready", !.host[l].started = TRUE]
       IN  server' = IF up.reconstruct[l] = "start" THEN Reconstructed(up, l) ELSE up
    /\ UNCHANGED faults

\* Whoever waits for a boot learns that it failed.
BootLost(s, l) ==
    IF s.reconstruct[l] = "start" THEN ReconstructFails(s, l) ELSE StartFails(s, l)

\* A startup that times out or dies.  The worker is terminated at once.
BootFails(l) ==
    /\ server.host[l].worker = "booting" /\ Quiet
    /\ Fault
    /\ server' = BootLost([server EXCEPT !.host[l].worker = "none"], l)

\* drain, from the termination of the semantic host on.
DrainSemantic(s) ==
    [Terminate(s, "semantic") EXCEPT
        !.lifecycle = IF s.host["semantic"].worker = "none" THEN "drained" ELSE "semantic"]
Drained(s, l) ==
    IF s.lifecycle # l THEN s
    ELSE IF l = "syntax" THEN DrainSemantic(s) ELSE [s EXCEPT !.lifecycle = "drained"]

\* A terminated worker is gone: its boot fails, and terminate returns.
Gone(s, l) ==
    [s EXCEPT !.host[l].dying = "none", !.work[l] = << >>]
Exits(l) ==
    /\ server.host[l].dying # "none" /\ Quiet
    /\ LET gone == IF server.host[l].dying = "booting" THEN BootLost(Gone(server, l), l)
                   ELSE Gone(server, l)
       IN  server' = Drained(IF server.reconstruct[l] = "terminate"
                             THEN Restart(gone, l) ELSE gone, l)
    /\ UNCHANGED faults

\* A running worker reports an error; its exit is reported later.
Crash(l) ==
    /\ server.host[l].worker = "ready" /\ server.host[l].started /\ Quiet
    /\ Fault
    /\ server' = OnHostError([server EXCEPT
                    !.host[l].worker = "crashed", !.host[l].started = FALSE,
                    !.work[l] = << >>], l)

\* The exit of a crashed worker that was replaced before it was terminated is
\* taken for an exit of the worker that replaced it.
LateExit(l) ==
    /\ server.host[l].late > 0 /\ Quiet
    /\ LET seen == [server EXCEPT !.host[l].late = @ - 1]
       IN  server' = IF seen.host[l].muted THEN seen
                     ELSE OnHostError([seen EXCEPT !.host[l].started = FALSE], l)
    /\ UNCHANGED faults

-----------------------------------------------------------------------------
(* Timers and the end.                                                     *)

\* markObsolete starts the grace of a job that is running; a job that is
\* about to be sent is not seen.
MarkObsolete(s, l, id) ==
    IF s.active[l] = None THEN s
    ELSE IF s.active[l].task.id = id THEN [s EXCEPT !.active[l].obsolete = TRUE] ELSE s

\* fireDeadline and noteExpired.  Only formatting has a deadline.
Expires(id) == Live(server, id) /\ server.requests[id].method = "format"
Deadline(id) ==
    /\ Expires(id) /\ Quiet
    /\ LET expired == Settle(server, id, "deadline")
       IN  server' = Pump(MarkObsolete(
              Without(expired, expired, {task \in Range(InLanes(expired)) : task.id = id}),
              "syntax", id))
    /\ UNCHANGED faults

Grace(l) ==
    /\ server.active[l] # None /\ server.active[l].obsolete /\ Quiet
    /\ server' = Reconstruct(
          AbandonWork(Cleared(server, l), server.active[l].task, "null"), l)
    /\ UNCHANGED faults

Debounce(uri) ==
    /\ server.timer[uri] # 0 /\ Quiet
    /\ server' = Schedule([server EXCEPT !.timer[uri] = 0], uri, server.timer[uri])
    /\ UNCHANGED faults

\* drain, once there is no work or its bound lapses.  A task that waits for
\* its host is neither queued nor active.
HasWork(s) == \E l \in Lanes : s.active[l] # None \/ Queued(s, l) > 0
Refusal(task) == IF task.id = None THEN "null" ELSE "failed"
DropActive(s, l) ==
    IF s.active[l] = None THEN s
    ELSE Abandon(Cleared(s, l), s.active[l].task, Refusal(s.active[l].task))
TerminateHosts(s) ==
    IF s.host["syntax"].worker = "none" THEN DrainSemantic(Terminate(s, "syntax"))
    ELSE [Terminate(s, "syntax") EXCEPT !.lifecycle = "syntax"]
EndDrain(s) ==
    LET after == FoldLeft(LAMBDA acc, task : Abandon(acc, task, Refusal(task)),
                          s, InLanes(s))
    IN  TerminateHosts(DropActive(DropActive(
            DropQueued(s, after, Range(InLanes(s))), "syntax"), "semantic"))
Drain(s) == IF HasWork(s) THEN s ELSE EndDrain(s)

Shutdown ==
    /\ Spare /\ Client
    /\ server' = Drain([server EXCEPT !.lifecycle = "draining", !.ready = << >>,
                                      !.timer = [u \in Uris |-> 0]])
    /\ UNCHANGED faults
DrainEnds ==
    /\ server.lifecycle = "draining" /\ Quiet
    /\ server' = EndDrain(server)
    /\ UNCHANGED faults

-----------------------------------------------------------------------------
Microtask(l) == Resumes(l) \/ Sends(l)
HostEvent(l) ==
    \/ Result(l) \/ Ready(l) \/ BootFails(l) \/ Exits(l) \/ Crash(l)
    \/ LateExit(l) \/ Grace(l)
ClientMessage ==
    \/ \E uri \in Uris : \/ DidOpen(uri) \/ DidChange(uri) \/ DidMischange(uri)
                         \/ DidSave(uri) \/ DidClose(uri)
    \/ \E id \in Ids, uri \in Uris : Ask(id, "format", uri) \/ Ask(id, "request", uri)
    \/ \E id \in Ids : CancelRequest(id)
    \/ Shutdown
TimerEvent ==
    \/ \E id \in Ids : Deadline(id)
    \/ \E uri \in Uris : Debounce(uri)
    \/ DrainEnds

Next ==
    \/ \E l \in Lanes : Microtask(l) \/ HostEvent(l)
    \/ ClientMessage
    \/ TimerEvent

\* The event loop drains its microtasks and serves every event that is
\* pending, in whatever order: a boot ends, a terminated worker exits, a grace
\* passes, a deadline passes, and the compiler answers every job.  The
\* formatter may hang: nothing is assumed of Result("syntax").
\*
\* Each is strong fairness of the steps that end a condition, which are enabled
\* whenever it holds and the loop is quiet: the condition does not hold for
\* ever.  Deadline is SF_vars with ENABLED written out.
Fairness ==
    /\ []<>Quiet
    /\ \A l \in Lanes :
          /\ []<>(server.host[l].worker # "booting")
          /\ []<>(server.host[l].dying = "none")
          /\ []<>(server.active[l] = None \/ ~server.active[l].obsolete)
    /\ []<>(server.work["semantic"] = << >>)
    /\ []<>(server.lifecycle # "draining")
    /\ \/ <>[]~(Quiet /\ \E id \in Ids : Expires(id))
       \/ []<><<\E id \in Ids : Deadline(id)>>_vars

Spec == Init /\ [][Next]_vars /\ Fairness

-----------------------------------------------------------------------------
(* Correctness.                                                            *)

Tasks ==
    [kind : DocKinds \cup {"format", "request", "diagnose"}, id : Ids \cup {None},
     uri : Uris, entry : Revisions, base : Revisions, text : Revisions,
     ahead : BOOLEAN]

TypeOK ==
    /\ faults \in 0..MaxFaults
    /\ server.lifecycle \in {"running", "draining", "syntax", "semantic", "drained"}
    /\ server.docs \in [Uris -> Revisions] /\ server.revision \in Revisions
    /\ server.replica \in [Uris -> Revisions \cup {Wrong}]
    /\ \A l \in Lanes :
          /\ Range(server.priority[l]) \cup Range(server.normal[l]) \subseteq Tasks
          /\ server.pump[l] \in Tasks \cup {None, Again}
          /\ server.reconstruct[l] \in {"no", "terminate", "start"}
          /\ server.host[l].dying # "none" => server.host[l].worker = "none"

\* A request is answered from the text its document has when the answer is
\* sent: a result of an older or of a foreign text is turned into
\* ContentModified.  The two excuses are a request sent ahead of a resync and
\* a semantic host that came back without one.
AnswersCurrent == \A id \in Ids : server.requests[id].answer # "other"

\* Work that was dropped or abandoned is never passed off as an empty result:
\* the null its task settles with is converted on the way.
NoSilentNull == \A id \in Ids : server.requests[id].answer # "null"

\* Replaying on the replica what is running, about to run and queued makes it
\* the coordinator's set of documents.
Pending(l) ==
    (IF server.active[l] = None THEN << >> ELSE <<server.active[l].task>>)
       \o (IF Waits(server, l) THEN <<server.pump[l]>> ELSE << >>)
       \o server.priority[l] \o server.normal[l]
Replayed(text, task, uri) ==
    IF task.uri # uri \/ ~IsDocTask(task) THEN text
    ELSE IF task.kind = "change" /\ text # task.base THEN Wrong ELSE task.text
ReplicaInStep ==
    (/\ Quiet /\ server.lifecycle = "running" /\ ~server.unsynced
     /\ server.reconstruct["semantic"] = "no"
     /\ \A i \in DOMAIN Pending("semantic") : Pending("semantic")[i].kind # "misfit")
    => \A uri \in Uris :
         FoldLeft(LAMBDA text, task : Replayed(text, task, uri),
                  server.replica[uri], Pending("semantic")) = server.docs[uri]

\* Diagnostics of the current text have been published or are on their way,
\* unless computing them failed; what a document waits for is in the lane.
LatestPublished ==
    (Quiet /\ server.lifecycle = "running") =>
      \A uri \in Uris :
        /\ server.published[uri] # Wrong
        /\ server.docs[uri] # 0 =>
             \/ server.docs[uri] \in {server.published[uri], server.timer[uri],
                                     server.held[uri]}
             \/ IsReady(server, uri) /\ EntryOf(server, uri).entry = server.docs[uri]
             \/ server.missed[uri]
        /\ server.held[uri] # 0 =>
             \E i \in DOMAIN Pending("semantic") :
               LET task == Pending("semantic")[i]
               IN  task.kind = "diagnose" /\ task.uri = uri
                     /\ task.entry = server.held[uri]

\* A lane with work is at work: something will pump it.
NoIdleLane ==
    Quiet => \A l \in Lanes :
      Queued(server, l) > 0 =>
        server.active[l] # None \/ server.pump[l] # None \/ server.reconstruct[l] # "no"

\* At most one job is at a worker, and the active job is at a worker that is
\* up, until drain terminates the hosts.
OneJob ==
    server.lifecycle \in {"running", "draining"} => \A l \in Lanes :
      /\ Len(server.work[l]) <= 1
      /\ server.active[l] # None =>
           /\ server.host[l].worker = "ready" /\ server.host[l].started
           /\ server.work[l] # << >> /\ Head(server.work[l]).job = server.active[l].job

\* A job that outlives its request is watched: its lane comes back.  The
\* excuse is a request that expired while its task waited for the host.
WatchdogArmed ==
    \A l \in Lanes : server.active[l] # None =>
      \/ server.active[l].task.id = None \/ Live(server, server.active[l].task.id)
      \/ server.active[l].obsolete \/ server.active[l].late

ServesCurrentText ==
    /\ TypeOK
    /\ AnswersCurrent /\ NoSilentNull
    /\ ReplicaInStep /\ LatestPublished
    /\ NoIdleLane /\ OneJob /\ WatchdogArmed

\* Every request is settled, however workers hang, crash and restart, unless
\* the server has shut down.
RequestsSettle ==
    \A id \in Ids : Live(server, id) ~> (~Live(server, id) \/ server.lifecycle = "drained")

=============================================================================
