# Formal models of the Blot host and compiler

Blot is a functional language compiled to WebAssembly. A Rust compiler
(`compiler/src`) turns source into core modules; a TypeScript host (`src/`)
loads packages, drives the compiler, instantiates the modules, gives them
scopes, resources, workers, channels and shared memory, and serves editors.

This directory holds TLA+ models of the concurrent and stateful parts of that
host, of its language server, of the compiler's resident session, and of the
code the compiler emits for memory and suspension, the TLC runs that check them
on small instances, and proofs that TLAPS checks for every instance. Paths in this file are relative to the repository;
`PROJECT.json` lists the same files with one more leading `src/`.

## The system and its parts

| part | state it keeps | operations | what is hard about it |
| --- | --- | --- | --- |
| worker pool, `src/worker_executor.ts` | pending jobs, a required and a speculative queue, idle workers, speculation budget, program cache of each worker, retirements, close | `execute`, `promote`, abort, `#dispatch`, message and error events, `#lose`, `close` | crashes, late answers, cancellation racing completion, clean-up in the background |
| worker runtime, `src/worker_runtime.ts` | installed programs, the running job, the chain of retirements | install, uninstall, run, cancel | messages overtake asynchronous clean-up |
| channels, `src/channel.ts` | buffer, blocked senders, registered receivers | send, receive, close, cancel, release | both ends wait, are cancelled or torn down in any order |
| event subscriptions, `src/events.ts` | buffered events, receivers, detach function | subscribe, emit, close, fail, dispose | the source may act while it is still being registered |
| selection, `src/select.ts`, `src/selecting.ts`, `src/receiving.ts` | registrations at several sources, timers | admit, commit, detach, drain | one of many events decides, the rest must leave no trace |
| shared storage, `src/shared.ts`, `src/shared_memory.ts` | partitions of an allocation, their phases and generations, the control word, loans | allocate, split, join, run, snapshot | a kernel in another thread reads and writes what host handles also name |
| host scopes, `src/resources.ts` | tree of scopes, cleanup list, pending acquisitions, releases, closers | child, cancel, trap, grant, acquire, own, onExit, release, close | asynchronous clean-up of a tree while its members still change |
| callbacks and Spark jobs, `src/callbacks.ts`, `src/spark.ts` | one-shot callbacks, jobs of a scope | move, spawn, join, cancel, speculate | ownership moves between scopes and workers while calls suspend |
| hosted calls, `src/host.ts` and the exports of a compiled module | a Wasm instance, suspended calls and their scopes | start, poll, resume, cancel, release | calls suspend, are answered late, cancelled or trapped |
| compiler session, `compiler/src/session.rs`, `development.rs` | loaded modules, boundaries, dirty set, caches, a prepared development update | add, configure, remove, install a snapshot, check, compile, prepare, commit | what may be reused after which sequence of edits, failures and requests |
| continuation graph, `compiler/src/continuation.rs`, `continuation_interpreter.rs` | a graph cut at every call, captures, a machine that runs it | lower, validate, poll, resume | which values a suspended call needs |
| frames and native code, `compiler/src/backend.rs`, `backend/suspension.rs`, `backend/lifetimes.rs` | heap frames, Wasm locals, reference counts, status of a call | step, transfer roots, call, tail call, return, poll | the right value in the right place, held exactly as often as needed |
| allocator and managed values, `compiler/src/backend/allocation.rs`, `managed.rs`, `canonical.rs` | blocks, size classes, scopes, temporaries, counts, drop list | alloc, realloc, retain, release, enter, select, leave | long sequences of sharing and updating, several calls in one memory |
| language server, `src/lsp`, `src/node/lsp_worker_host.ts` | documents, requests, two lanes with queues and an active job, two worker hosts, a replica of the documents, diagnostics | document notifications, requests, cancel, dispatch, results, restart of a host, deadline, watchdog, resync, shutdown | the text changes and workers hang, crash and restart while requests wait and run |
| development runtime, persistent caches, loader | builds, cached results | activate, load | staleness |
| checker, evaluator, lowering, parser | program trees | sequential passes | size of the input, not concurrency |

How they meet: a hosted call runs in a scope; the scope owns the leases of
channels, subscriptions, partitions and callbacks, and its `close()` disposes
them; Spark and `Shared.run` submit jobs to the pool, with the scope's signal
as the job's abort signal; the pool talks to each worker over two message
channels and to the platform through `create`, `post` and `terminate`. The host
keeps one compiler session, loads the modules of a program into it, and asks it
to check, compile or prepare; the modules it gets back carry their own allocator
and frames, which the host drives through `blot:poll`, `blot:resume`,
`blot:cancel` and `blot:release`.

All host code is one JavaScript thread. What interleaves is handlers, timers,
continuations of promises and, in parallel, the workers. A handler that awaits
nothing is therefore one action of a model, and a handler that awaits is one
action for each part between two awaits. The compiler and the code it emits are
sequential; what interleaves there is the calls a host makes, in any order, and
the calls that are suspended in one instance.

`PROJECT.json` lists every part, the ones that are not modelled included, and
under `hazards` each place where something hard to test can go wrong.

## Modules

| module | models | used by |
| --- | --- | --- |
| `Queue` | `src/queue.ts`: push, shift, peek and unlink of the intrusive queue | `WorkerPool` |
| `QueueProofs` | lemmas about `Queue` | proof modules |
| `JobService` | abstract: what the pool promises the caller of a job | `WorkerPool`, `Spark` |
| `WorkerPool` | pool, workers and the messages between them | `MCWorkerPool` |
| `WorkerPoolProofs`, `WorkerPoolProtocol` | theorems about `WorkerPool` | |
| `Delivery` | abstract: one line of messages per source, each going to one wait | `Messaging` |
| `Messaging` | channels, subscriptions, receive and selection | `MCMessaging` |
| `MessagingProofs` | theorems about `Messaging` | |
| `Spark` | a Spark scope, its jobs and their callbacks, over `JobService` | `MCSpark` |
| `SparkProofs` | theorems about `Spark` | |
| `SharedPartitions` | partitions, loans and the kernels that use them | `MCSharedPartitions` |
| `SharedPartitionsProofs` | theorems about `SharedPartitions` | |
| `HostScope` | scopes, leases, acquisitions, closers, finalizers | `MCHostScope` |
| `HostScopeProofs` | theorems about `HostScope` | |
| `Session` | the compiler session and its development updates | `MCSession` |
| `SessionProofs` | theorems about `Session` | |
| `Allocator` | the allocator as operators on a memory | `ManagedCode` |
| `ManagedCode` | compiled operations on the allocator, several calls in one memory | `MCManagedCode` |
| `Continuations` | the graph, lifetimes, locals and frame layout a module is compiled to | `Frames` |
| `Machine` | abstract: the interpreter of the continuation graph | `Frames` |
| `Frames` | the emitted code of a call, native and resumable, and its host | `MCFrames` |
| `LanguageServer` | the language server: coordinator, lanes, worker hosts, replica, diagnostics | `MCLanguageServer` |

The `MC` modules give constants their values; `MCFrames` holds the staged modules
that are compiled and run.

### Worker pool and worker runtime: `WorkerPool`

`job[j]` is a pending or settled `Job`: its priority, callback, worker, abort
flag and status. `required`, `speculative` and `idle` are the three queues;
`busy[w]` is `worker.job`; `workers` and `retiring` are the sets of live and
terminating connections; `activeSpeculative` is the counter of that name;
`inbox[w]` and `outbox[w]` are the two message channels, and `remote[w]` is the
state of `serveWorker` in worker `w`.

The actions are the entry points of the class (submit, promote, abort, close),
its events (message, error), the two continuations that matter (`Retire` after
`terminate()`, the steps of `close()`), and the four messages and three
asynchronous continuations of `serveWorker`. `#dispatch` is called at the end of
most host handlers. Its loop runs to the end before any other host code, but
workers run meanwhile, so a handler sets `dispatching` and every turn of the
loop is one step that excludes all other host steps. `PlaceFails` is a turn in
which creating a worker or posting to it throws.

`MaxFaults` bounds crashes and failing platform calls, `MaxJobs` the jobs ever
submitted. Program identities are given by a constant function from callbacks
to programs; how the code derives them from modules, with its 64 remembered
development keys, is left out. So are messages that do not decode, results that
cannot be cloned, and the differences between web and Node workers beyond
"an error event arrives". A call whose signal is already aborted is rejected
before it is admitted and never appears.

### Channels, events and selection: `Messaging`

Every send, emit and wait is a numbered call, and a message is the number of
the call that brought it. A wait has a list of arms: one arm is
`Channel.receive` or `Events.next`, several are `Select`. `senders[s]` and
`receivers[s]` are the linked entries of the queues of `s`; because an entry is
pushed in the step that admits its call, queue order is call order and the set
is enough. `timer[i]` holds the sleeps a selection has started; `TimerDrains`
and `TimerSpoils` are an aborted sleep that settles, well or badly.

`Attach` and `AttachReturns` are two steps, because the function that registers
with an event source may call the sink before it returns the detach function.
Re-entrant calls from the abort listener of a custom clock are not modelled.
The granted clock is external: it may fire, fail or be aborted.

### Callbacks and Spark jobs: `Spark`

One run of `Spark.scope`: `spark` is its `SparkScope` with the place where
`#runScope` waits, `actor` the callbacks of the body and of the jobs with the
operation each awaits, `job[j]` the `SparkJob` with its handle, the priority of
its callback and the scope it runs in. `pool` and `worker` are the variables of
`JobService`, which stands for the worker pool: `PoolStarts`, `PoolReturns` and
`PoolFails` are its steps, and `Launch` submits to it.

`Spawn`, `Join` and `Cancel` are the operations, taken by the body or by a job
that runs on this thread; a consumer waits until the handle is released
(`Resumes`). `Launch` is the microtask of `call()`, which reads the priority late:
a join before it changes the callback only, a join after it is a promotion in the
pool (`DemandHostCallback`). `CallEnds` continues `#runJob` or `#runScope`,
`LifeCloses` and `Completes` are the two awaits left in `#runJob`, and
`HandleReleased` is the disposer of a handle. Reasons and errors are told apart as
far as the code compares them by identity, which is how `Records` decides whether
a result is a failure of the scope or only the echo of its cancellation.

The scopes of jobs are cut down to open, closing and closed: `HostScope` models
them. Handles move only into the work that is spawned, the one transfer the types
of the prelude allow. `child_scope`, `yield`, `on_exit`, the registration of
finalizers and development callbacks are left out.

### Shared storage: `SharedPartitions`

A cell is one number of one allocation. `partitions` and `handles` are the
`Partition` objects and the leases granted for them, with their generations;
`control` tells whether the control word still has the allocation's generation;
`loans` are calls of `Shared.run`. A kernel checks the control word (`Checks`)
and accesses (`Writes`) in two steps, as `shared_memory.ts` does, so that the
host may invalidate between them. `dirty` is a history variable: the cells
written by a kernel that has not returned well.

The model takes from the pool one fact, that a job is settled only when no
worker executes it; `NoWorkAfterSettling` checks that fact. `Shared.run` with
resources in its scope returns a failure when their clean-up fails, which is
`Returns` with `failed`. The atomic counters are single `Atomics` calls and are
left out.

### Scopes and resources: `HostScope`

Scopes are numbered in creation order and `scope[s]` holds the parent, the
stage of `close()`, the abort flag, `owner` (for a masked scope, the scope whose
finalizer it serves) and `guest` (no trap has been reclaimed). Items are leases,
acquisitions, closers and finalizers; `cleanups` and `releases` are the list that
ends in `#lastCleanup` and `#releases`. `close()` goes through stages, each an
await of the code: closers, children, pending acquisitions, then `releases`
(`drainReleases` has still to look at `#releases`), `drained` (it has looked for
the last time and returned, and `close()` has not gone on yet), and `finalizing`
(one cleanup from the end of the list), back to `releases` until the list is empty.

`Drains` and what follows it (`FinalizeLease`, `FinalizeGuest`, `SkipGuest`,
`Closed`) are separate steps because `close()` goes on in a microtask of its own
and does not look at `#releases` again. A release by hand in between is seen by
nobody: `item.late` marks it, and `Slipped` is such a release for as long as
`#releases` still holds it. `ReverseOrder`, `NothingOutlives` and
`FailuresReported` except exactly the releases that slipped.

`item.older`, `item.exit` and `item.late` are history variables: what was
registered when an item was registered, whether `close()` ended it, and whether
its release began at the stage `drained`.

Families, payload types and the lookup of a token are data checks that change
nothing. The masked scope of a finalizer is closed only by the code that runs
the finalizer. A failed acquisition is reported to its caller, and a disposal
that failed before `close()` was called to the caller of the release;
`FailuresReported` claims neither of them for `close()`.

`Uses` selects the operations the tasks of an instance use, and `MCHostScope`
adds a `shape`, chosen at the start, which bounds the scopes and items that tasks
make and the operations they take: one run explores small trees with
everything in them and larger ones with less. Neither limits a step of `close()` or
of what it awaits. `RoomForScope` keeps a scope number back for every registered
finalizer, for the same reason.

### Compiler session: `Session`

`modules`, `imports`, `dirty`, `published`, `closed`, `closedDev`, `artifacts` and
`pending` are the fields of `CompilerSession` with those meanings; `interfaces`
and `bindings` stand for the checker's caches and the evaluated bindings. A cache
is a function on the keys it holds; an edit or a publication takes keys away.
`renewed` stands for revisions: a boundary whose value is not portable is sealed
over the revision of its module, which `invalidate_exact` renews. `retained` is
the host's copy of the committed artifacts.

A text is a record of what the session can tell apart: whether it checks, whether
the backend accepts it, whether its value is portable, its exports, its body and
the shape of its functions. What a request computes is a view: the set of the
modules it saw, each as it saw it. A value computed from something stale is then
a different value, and freshness is equality with the view that a session without
caches has (`FreshView`, `FreshProgram`).

Loading, configuring, removing and installing are one action each. A request is
`BeginRequest`, one step for each module that `ensure_current` visits, in any
order of the imports (the code walks a hash map), and the answer. Units of a
development program are computed as `split_runtime_module` does: code of modules
that are no unit root is copied into every unit that reaches it.

Assumed of the host, and taken from its code: it asks only for acyclic graphs
(`src/load.ts:346`), names units the program reaches, and installs snapshots
where no importer waits for them (`src/compiler/session.ts:329` installs into an
empty session). Assumed of texts is what the constants of `Session` state: a
snapshot is made of a module that checks, and two portable texts with equal
exports are compiled alike by an importer (`PortableByValue`). `MissingInstalls = TRUE` drops the last assumption.

### Memory: `Allocator` and `ManagedCode`

A memory is a record of headers, lists and counters, and each function of
`allocation.rs` is an operator on it. Addresses are block numbers, sizes are
numbers of elements, `bytes` of a block its class. `Trap` records which check of
the allocator failed. `release` queues a block whose last reference is gone and
drains the queue in a loop, as the code does, so that nested values need no
recursion.

`ManagedCode` has one action per operation that makes, shares, updates or drops a
value in memory, per transition, and per entry from the host. A call holds
locals; each step releases any subset of the operands as their last use, so that
every choice of lifetimes is explored. In-place updates are guarded by `Unique`,
the ownership analysis, which is external here. `HostWrite` and `Upper` are the
host's writes of arguments and answers.

### Continuations and frames: `Continuations`, `Machine`, `Frames`

`Continuations` is the compiler: `Compile` takes a staged module to its
continuation graph with captures, tail calls, the last use of each value, the
sharing of Wasm locals and the sizes of frames. It has no variables. Every value
has one lane of one type, in which values compete most for locals and slots.

`Frames` runs what was compiled. A step of a resumable function loads a frame,
runs one continuation and saves the edge; other functions run on the Wasm stack
in shared locals. `refs` are reference counts; retaining, releasing and
transferring follow the plan of `Continuations`, and `fault` records the first
thing that would be undefined: a freed value that is read, a write beyond a
frame, a place emitted as unreachable. The host starts, polls with any quantum,
resumes, cancels and leaves. The structured control flow that emission recovers
from the graph is taken to be that graph.

`Machine` is `continuation_interpreter.rs`, which the repository's tests use as
the meaning of a graph: a state, a stack of callers that wait, and a request.
`ImplementsMachine` maps frames and activations to it: a frame is its inputs in
their slots, an activation its inputs in their locals.

### Language server: `LanguageServer`

The language server is one process that reads messages of an editor and two
worker threads, one for each lane: `syntax` formats, `semantic` holds a replica
of the open documents and does everything else. `server` is one record of the
coordinator's state, because one handler changes most of it: `docs` is the
document store, `requests` the registry, `priority`, `normal`, `active` and
`reconstruct` the fields of a lane in `scheduler.ts`, `host` a worker host,
`work` and `replica` the worker behind it, `timer`, `ready`, `held` and `cursor`
the state of `diagnostics.ts`. `pump[l]` is where the asynchronous loop
`#pumpLane` is: nowhere, about to go round, or waiting for its host with a task.

A handler runs to its end before the next event, calling back and forth between
server, scheduler, registry and diagnostics. Each of these functions is an
operator from a record to a record, composed as the code calls them; an action
applies the operators of one event. `Quiet` says that the microtasks of the last
event are over, `Resumes` and `Sends` are these microtasks.

A text is the number of the revision that made it, so it is the same number as
the entry of a task, and the token of a diagnostics job. The values a worker may
answer with (`Executes`) depend on the text its replica holds. `published`,
`missed`, `ahead`, `late` and `unsynced` are history variables. The last three
mark situations of the shipped server that are listed under "Observed in the
language server" below. The properties excuse exactly these and a server that has
drained.

What is assumed: the client opens only closed documents, numbers its requests
uniquely and its versions in order. What cannot be reached is left out: results
that do not decode, jobs that cannot be posted, generations (the one of an active
job is always the lane's). A job gets a number that is not at its worker, in the
place of a growing one. A failed start is one step with the termination of the
worker that failed. The server never asks its hosts for a job that they do not
offer. Left out are requests without a document (`workspace/symbol`), which carry no
entry to compare, and a `doc/close` that fails at the worker. Initialization and
framing, the inline hosts, the Deno adapter and watched files are not modelled.

## Runs

State counts are distinct states. Deadlock checking is off, except in `frames`,
because each of these systems really may stop: every call over, the pool closed,
all scopes closed, the edits used up.

| run | instance | states | shows |
| --- | --- | --- | --- |
| `worker_programs` | 1 worker, cache of 1, 3 jobs of 2 symmetric programs, 1 fault | 478 k | `TypeOK`, `ProtocolHolds`, `RequiredNotStranded` |
| `worker_service` | 2 workers, 2 jobs, 1 fault, fair | 63 k | `Bookkeeping`, `SpeculationReserve`, `NoWorkAfterSettling`, `AtMostOnce`, `ImplementsJobService`, `Progress` |
| `messaging` | rendezvous, buffer of 1, queueing and latest subscription, timer; 4 calls of one kind of source, 3 with selections; 1 failure, fair | 153 k | `WaitsAgree`, `MessagesKept`, `FirstComeFirstServed`, `SelectionReturns`, `ImplementsDelivery` |
| `spark` | a body and 2 jobs of every kind, 2 failures, fair | 505 k | `SparkSound`, `SparkProgress` |
| `shared` | 2 allocations of 1 number, 5 partitions, 7 handles, 2 loans | 899 k | `PartitionsAgree`, `ExclusiveAccess`, `NoTornRead`, `LoanKept`, `StaleForever` |
| `scopes` | 2 scopes with 2 items of every kind, cancel and trap; or 4 scopes with 2 finalizers, cancel and trap; or 2 scopes with 3 leases and finalizers; failures, fair | 358 k | `ReverseOrder`, `FinalizersServed`, `ScopesAgree`, `NothingOutlives`, `FailuresReported`, `MaskHolds`, `NoGuestAfterTrap`, `ScopeCloses` |
| `scope_order` | 2 scopes, up to 3 leases | (refuted) | `ReleasesReversed` does not hold |
| `session` | 3 modules, 6 texts, 3 requests, 2 edits, 2 preparations, 8 boundary identities | 683 k | `CachesCurrent`, `PreparationsCurrent`, `AnswersCurrent` |
| `unit_cache` | 3 modules, 3 texts, 1 edit, 3 preparations | (refuted) | `UnitCacheEqual` does not hold |
| `memory` | 1 call with 7 locals of 5 types, 6 blocks, 3 operations; or 2 calls with 2 locals each, 4 blocks, 2 operations | 299 k | `HeapConsistent`, `NoMisuse`, `Isolation` |
| `frames` | 664 staged modules, 7 values in memory, 3 frames, stack of 3 | 18 k | `CallInOrder`, `Polled`, `ImplementsMachine` |
| `language_server` | 1 document, 2 requests, 3 revisions, 2 faults, 4 of these and the shutdown in all, fair | 455 k | `ServesCurrentText`, `RequestsSettle` |

Several properties are conjunctions of named parts, which the modules state and
explain one by one: `ProtocolHolds` of `WorkerAccepts` and `HostAccepts`;
`Progress` of `RequiredSettles`, `AbortedSettles` and `CloseEnds`; `WaitsAgree` of
`TypeOK`, `RegistrationsAgree` and `NoMissedMeeting`; `MessagesKept` of `Custody`,
`NoOvertaking` and `DetachesOnce`; `SparkSound` of `TypeOK`, `DemandKept`,
`FailuresGenuine`, `NothingLost` and `Drained`; `SparkProgress` of `ScopeEnds` and
`ConsumersReturn`; `PartitionsAgree` of `TypeOK` and `Tiling`; `ScopesAgree` of
`TypeOK` and `ListsAgree`; `CachesCurrent` of `TypeOK`, `LinksCurrent` and
`SettledFresh`; `PreparationsCurrent` of `PendingCurrent` and `HostHolds`;
`AnswersCurrent` of `AnswersFresh` and `ImportsPublished`; `HeapConsistent` of
`TypeOK`, `ListsAgree`, `StatisticsAgree`, `ReferencesExact` and `ReachesLive`;
`CallInOrder` of `TypeOK`, `RootsExact` and `NoFault`; `ServesCurrentText` of
`TypeOK`, `AnswersCurrent`, `NoSilentNull`, `ReplicaInStep`, `LatestPublished`,
`NoIdleLane`, `OneJob` and `WatchdogArmed`.

What they mean, in the words of the code:

- `worker_programs`: host and worker agree on what is installed although
  retirement is asynchronous, neither meets a message its checks reject, and no
  event that frees capacity forgets the queue. The fault may be a crash or a
  failing clean-up, after which the worker refuses every job.
- `worker_service`: whatever crashes and whatever order answers, cancellations
  and promotions arrive in, queues, slots and jobs agree, so `#finish` never
  throws "worker job completed twice"; speculation leaves a worker to required
  work; a job is settled only when no worker works on it, and runs at most once.
  To its caller the pool is `JobService`, and required work, cancelled work and
  `close()` come to their end.
- `messaging`: senders and receivers never wait beside each other,
  accepted messages are kept or delivered once and in order, waits are served in
  the order of registration, and a source is detached exactly once. Whatever
  decides a selection, its other registrations and its timers are gone, and it
  returns when they have drained. All of it implements `Delivery`.
- `spark`: a join promotes its job wherever the job is; the scope records as a
  failure what is one, and no echo of a cancellation; a scope that returns a value
  has lost no failure of a job that was required or joined; nothing of it runs when
  it returns, and it returns, speculation that diverges included.
- `shared`: splitting and joining keep one owner for every number; a kernel and
  a handle never overlap; what a failed kernel half wrote is never read; and old
  handles stay dead.
- `scopes`: `close()` works backwards, waits for everything, reports every
  failure and ends, all but a release by hand that begins after `drainReleases` has
  looked for the last time; a finalizer has the leases it was registered after and
  a signal of its own; after a trap no guest code runs.
- `session`: after any sequence of edits, removals, failures and requests, an
  answer is what a fresh session would answer, although invalidation stops at
  every unchanged boundary; a preparation that can still be committed describes
  the current texts, and the host holds every artifact it is told to keep.
- `memory`: the emitted sequences keep counts equal to holders, so
  nothing is freed early and nothing leaks until its scope is left; they trip no
  check of the allocator; and calls that take turns in one memory do not touch
  each other's blocks.
- `frames`: compiled code computes what the interpreter computes, whichever calls
  are native, resumable or tail calls and wherever a call yields or suspends; a
  call that returns has given everything back; callbacks are polled at every
  call.
- `language_server`: whatever the order of edits, answers, cancellations and
  losses of workers, an answer and a published diagnosis stand for the text the
  document has at that moment; work that was dropped never looks like an empty
  result; running, waiting and queued jobs always add up to a replica that equals
  the documents; no diagnosis is forgotten; a lane with work is at work, with one
  job at its worker, and a job that outlives its request is watched. Every
  request is settled.

Why the bounds are enough to be interesting:

- Pool. Two workers and two jobs are the least in which speculation may hold
  one worker and not the other. One worker and three jobs give a queue with a
  middle to unlink, and a program that is evicted and wanted again.
- Messaging. `OneKind` keeps three kinds of instance apart, which share no arm:
  subscriptions, the buffered channel, and selections. With room for one message,
  four calls fill the buffer, block a sender and leave two receivers, or two
  senders and a receiver. Two sources and a timer in one selection give every
  order of decision and detaching, with a third call to meet it.
- Spark. The body and two jobs are three actors, so a job may join its sibling
  while the body ends; two failures are a job that fails and a clean-up that fails,
  of one job or of two. A third job has no new relation to the others: all jobs
  are siblings under one scope.
- Shared storage. Five partitions are an allocation split twice, so that
  children are split and joined in both orders; with one number a split has an
  empty and a full half, which is all that ownership tells apart. Two loans may
  overlap, and borrow from two allocations.
- Scopes. A finalizer makes a masked scope, so two scopes are a scope and a
  child or mask, and four add a scope inside the mask and one beside it. Two items
  are a younger and an older one; a third is a finalizer or lease between them, or
  one that is released while the other two are being ended. `Uses` includes
  failures in every shape. The order of cleanup, what a close waits for and what
  it reports are also proved for every number of scopes and items. `ScopeCloses` is
  stated as `[]<>` that no scope is closing, which for finitely many scopes that
  never open again says that each `close()` ends; with one such formula TLC
  affords leases and acquisitions in the fair run.
- Session. Three modules are a root, a module both imported and importing, and a
  leaf reached on two ways. Two edits allow a change and its reversal, or a
  failure and its repair, with requests between them; the identities run out at
  8, where `publish_boundary` refuses. The requests are a check of a module below
  the root, a compilation and a preparation of two units.
- Language server. Every event is made by the document, a request, a fault or
  the shutdown, and four of them in any order give, for example, a document, a
  request that starts a worker, a crash and a change before the worker is back.
  One document makes every job compete for one replica entry; with two documents,
  two revisions, two faults and three events the same properties hold (320 k
  states), which adds the rotation of diagnostics. A lane bounded at two is full
  with two requests and a diagnosis.
- Memory. `Bounded` keeps the two kinds of instance apart. Six blocks hold a store of stores with shared texts and a builder; the
  reference limit of 3 and the end of memory are both reached. Three operations
  build a nested value, share it and update or drop it.
- Frames. The modules vary, around each shape of control (a call, a loop around
  a call, mutual tail calls, nested calls, recursion), which value goes to which
  place, twice or nowhere. Three frames and a stack of three are exceeded by the
  recursive modules, where the call traps.

A violation of any of these properties needs several calls, and for each one
`PROJECT.json` names a change of the modelled code (`mutants`) under which the
same run refutes it.

### Findings

- `unit_cache`: `compile_development_program` compares the sources of each
  committed unit with the modules checked by this request
  (`compiler/src/session.rs:1319`, `reusable_partition` in `development.rs:215`).
  A module that was edited and then checked by an earlier request, whose
  preparation was not committed, is not checked again. Its unit is then answered
  as `unit-cache` from the last commit although its code has changed. The
  counterexample: commit; edit `lib`; prepare and do not commit; prepare again.
  `spec/COMPILER.md:1197` says that a `unit-cache` response proves equality with
  the full Runtime HIR, and `spec/INCREMENTAL.md:562` that after a failure of the
  host the next preparation recompiles the uncommitted units.

- `scope_order`: `close()` of a host scope awaits `drainReleases`, whose last check
  of `#releases` (`src/resources.ts:343`) is a microtask older than the step that
  takes the next cleanup (`366`) or ends (`378`). A lease that a task releases by
  hand in between has left the cleanup list and is not waited for. The
  counterexample: two leases; `close()`; when `drainReleases` has returned, the
  younger lease is released; `close()` disposes the older one while the
  younger is still being disposed. `LANGUAGE.md:4693` says that scope exit runs
  releases in reverse acquisition order. In the same way `close()` may end with
  a disposal in progress, whose failure is then in no `AggregateError`
  (`LANGUAGE.md:4696`: cleanup continues after failures and reports them).

Observed in the language server as the shipped entries run it. Where a property
excuses one of these, the history variable or the condition is named:

- `#requestResync` (`server.ts:666`) drops the queued
  synchronization jobs through `dropQueued`, which pumps the lane, before it
  queues the documents again. A request that was queued behind them is dispatched
  ahead of the resync and answered from an old replica (`ahead`), while
  `docs/editor.md:81` says that the replica never serves a revision the
  coordinator has moved past.
- When the restart of the semantic host fails, nobody resyncs: the next dispatch
  starts the host with an empty replica (`unsynced`).
- A deadline that passes while its task waits for the start of the host finds no
  active job to mark, so the job that is then sent is not watched (`late`); a
  formatter that hangs on it keeps its lane until the next crash.
- A synchronization job whose host fails to start is put back and tried again at
  once, without a pause (`scheduler.ts:436`).
- `drain` does not see a task that waits for its host, and a task that is put
  back or a restart in progress may start a host after the drain. A request in
  that position is never answered; `RequestsSettle` excuses a drained server.
- A crashed worker reports an error and then an exit. When it was replaced in
  between, the exit is taken for one of the new worker, which is given up
  although it runs (`LateExit`).

Observed while modelling, besides:

- `install_trusted_module_snapshot` invalidates importers only when it replaces a
  module (`session.rs:648`). Importers that failed because the module was missing
  are not dirty any more, and a later check ends in "reached unpublished
  dependency boundary". With `MissingInstalls = TRUE` TLC shows it
  (`ImportsPublished`).
- A cached interface of a module on an import cycle hides the cycle from
  `Checker::check` (`typecheck.rs:3042`); the host's loader rejects cycles.
- `allocate_value_locals` moves only the start of the range of a parameter that
  receives a call's result (`backend.rs:2203`). A parameter that is never read
  would get a range that ends before it starts; `lower_function` never produces
  such an edge between distant continuations.
- Spark. A job that is still running may join speculation that `#runScope` has
  just dropped because nobody had demanded it (`spark.ts:290`). The reason of the
  drop is then recorded as a failure and the scope fails, although its body
  returned (`Genuine` excuses it).
- Spark. The disposer of a handle that was not joined waits for the job's outcome
  only after its `close()` succeeded (`spark.ts:89`). When the clean-up fails, the
  scope may return before `#runJob` has recorded that failure (`Drained`).
- Requests that reuse an identifier, a second `didOpen` of an open document, and
  a startup timeout of the Deno adapter that fires after its boot was
  abandoned can confuse two jobs, timers or workers. This is from reading the code;
  they are outside the model.
- `returns_call_result` follows the first parameter that receives the result and
  ignores captures, so some tail calls are compiled as ordinary calls. Values are
  right either way.

### Fairness

Fairness is weak, but for the language server, and only where the code or its platform justifies it.

- Pool: event loops deliver events, a worker takes its messages, retirement and
  the steps of `close()` go on, and the dispatch loop runs to its end. A job
  that is required or cancelled ends (a cancelled one at a polling checkpoint).
  A speculative job that nobody demands may run forever, and `RequiredSettles`
  holds nevertheless.
- Messaging: registration with a source returns, a decided selection continues,
  and an aborted sleep settles, as it does with the standard clock of `io.ts`,
  which rejects it from its abort listener.
- Spark: settled promises are continued; jobs on this thread end; the body ends at
  least when its scope is cancelled; the pool serves a job that is required or
  cancelled, which is what `WorkerPool` guarantees (`RequiredSettles`,
  `AbortedSettles`), and no other.
- Scopes: settled promises are continued, and the disposers, closers,
  acquisitions and finalizers that a host supplies end. A disposer that awaits
  the `close()` of its own scope would wait for itself and is excluded by this
  assumption.
- Language server: the event loop drains its microtasks, a boot ends, well or
  badly (it has a timeout), a terminated worker exits, timers fire, and the
  compiler answers every job. The formatter may hang for ever; its requests have
  a deadline for that. `Fairness` states that none of the conditions these steps
  end holds for ever, `[]<>~Condition`. Strong fairness of these steps implies it,
  because they are enabled whenever the condition holds and the loop is quiet. The
  deadline is strong fairness of `Deadline` with
  its guard in the place of `ENABLED`.
- Session, memory and frames: none. Each entry of the host is a sequential call,
  and no property there says that a host calls again.

### What the code does that one might not expect

- `Retire` gives a speculative slot back without dispatching, so a queued
  speculative job may stay queued until the next event. `LANGUAGE.md:4807` allows
  a pool to leave speculative work queued; `RequiredNotStranded` shows that
  required work is never affected.
- A selection that took a message rejects if the clean-up of a losing timer
  fails, and the message is gone. The failure is reported; `Custody` counts the
  message as delivered.
- An acquisition that settles after `close()` was called and before it takes its
  snapshot of `#pending` is not awaited there. Nothing is left of it by then,
  because a value that arrives late is disposed before the acquisition settles
  (`NothingOutlives`); its failure reaches only its caller.

## Proofs

TLAPS proves these for every value of the constants, so for every number of
workers, jobs, programs, sources, messages, waits, partitions, handles, scopes,
items, modules, texts and requests:

| theorem | statement |
| --- | --- |
| `WorkerPoolProofs!TypeInvariant` | `Spec => []TypeOK`, which includes the bound of each program cache |
| `WorkerPoolProofs!BookkeepingInvariant` | `Spec => []Bookkeeping` |
| `WorkerPoolProofs!SpeculationInvariant` | `Spec => []SpeculationReserve` |
| `WorkerPoolProofs!CapacityInvariant` | `Spec => []RequiredNotStranded` |
| `WorkerPoolProofs!Refinement` | `Spec => ImplementsJobService` |
| `WorkerPoolProtocol!MessagesAccepted` | `Spec => []ProtocolHolds` |
| `WorkerPoolProtocol!SettledAfterWork` | `Spec => []NoWorkAfterSettling` |
| `WorkerPoolProtocol!JobsRunAtMostOnce` | `Spec => AtMostOnce`, an action property |
| `MessagingProofs!WaitsAlwaysAgree` | `Spec => []WaitsAgree` |
| `MessagingProofs!MessagesAlwaysKept` | `Spec => []MessagesKept` |
| `MessagingProofs!ServedInOrder` | `Spec => FirstComeFirstServed`, an action property |
| `MessagingProofs!Refinement` | `Spec => ImplementsDelivery` |
| `SparkProofs!SparkAlwaysSound` | `Spec => []SparkSound` |
| `SharedPartitionsProofs!LoansKept` | `Spec => []LoanKept` |
| `SharedPartitionsProofs!PartitionsAlwaysAgree` | `Spec => []PartitionsAgree` |
| `SharedPartitionsProofs!AccessIsExclusive` | `Spec => []ExclusiveAccess` |
| `SharedPartitionsProofs!NeverTorn` | `Spec => []NoTornRead` |
| `SharedPartitionsProofs!StaleHandlesStayStale` | `Spec => StaleForever`, an action property |
| `HostScopeProofs!ScopesAlwaysAgree` | `Spec => []ScopesAgree` |
| `HostScopeProofs!NothingOutlivesScopes` | `Spec => []NothingOutlives` |
| `HostScopeProofs!ReleasesReverseOrder` | `Spec => []ReverseOrder` |
| `HostScopeProofs!MasksHold` | `Spec => []MaskHolds` |
| `HostScopeProofs!FailuresAreReported` | `Spec => []FailuresReported` |
| `HostScopeProofs!FinalizersAreServed` | `Spec => []FinalizersServed` |
| `HostScopeProofs!NoFinalizerAfterTrap` | `Spec => NoGuestAfterTrap`, an action property |
| `SessionProofs!CachesAlwaysCurrent` | `~MissingInstalls => (Spec => []CachesCurrent)` |
| `SessionProofs!PreparationsAlwaysCurrent` | `~MissingInstalls => (Spec => []PreparationsCurrent)` |
| `SessionProofs!AnswersAlwaysCurrent` | `~MissingInstalls => (Spec => []AnswersCurrent)` |

All safety properties that the runs check of the worker pool, messages, Spark,
shared partitions, host scopes and the compiler session are among them, and so are
the refinements of `JobService` and `Delivery`.

### Worker pool

Assumed is what the constants of `WorkerPool` state: `SizeAssumption` and
`CacheAssumption` (both positive), `BoundAssumption` (natural bounds),
`CallbackAssumption` (every callback has a program) and `NoneAssumption` (the
null values are no numbers).

The inductive invariant `IInv` is `TypeOK /\ Bookkeeping`. `Bookkeeping`
has four parts: `QueuesAgree` (a job is in the queue of its priority exactly
while it waits, once), `SlotsAgree` (`worker.job` and `job.worker` name each
other), `IdleAgrees` (the idle queue is the set of workers without a job) and
`NumbersAgree` (identities are used in order and once, and a drained pool has no
pending job). No part is inductive alone. That a message finishes a
pending job needs `SlotsAgree`; that the job leaves no queue entry behind needs
`QueuesAgree`; that the freed worker may be pushed on the idle queue without
being there twice needs `IdleAgrees`; that a new worker or job is in none of
these needs `NumbersAgree`. Each action has one step in the proof and one below
it for each part that it can disturb. The lemmas about the intrusive queue are
in `QueueProofs`: pushing and unlinking change membership by exactly one entry
and keep entries distinct.

`SpeculationReserve` rests on the invariant and on how each action changes the
set `Speculating` by at most one element; its cardinality then follows from the
theorems about finite sets. `CapacityInvariant` shows that every action that
frees capacity or queues required work also leaves `dispatching` set, and that
the loop ends only when nothing more can be placed. The refinement needs one
further invariant, `Undisturbed`: the dispatch loop runs only in an open pool,
and a job that has not been submitted has no worker.

That no message is rejected is a statement about two parties and what is on its
way between them. Two layers over `IInv` carry it. `Conversations` says of each
worker that a run on its way is the only one and is of the worker's present job,
that nothing says yet that this job has begun, that responses answer the present
job with a start first and an end last, and that a cancellation names a job that
was aborted. It excepts a worker that left the pool through a rejected
`terminate()`, because such a worker may go on running while its job is settled;
this is the exception that `NoWorkAfterSettling` states. `Preparations` says
that the programs of a worker are those that the host has linked for it, less one
install and plus one uninstall that may still be on their way, and that both come
before the run they prepare. So the worker has the program of a run when it
receives it. `AtMostOnce` follows from `NotBegun`: a worker begins a job that has not
been reported as begun, and the job names that worker only.

### Messages

Assumed are `SourceAssumption` (channels, subscriptions and the timer are
different things), `CapacityAssumption` (a subscription holds at least one
message, as `src/events.ts:262` demands; a channel may hold none), `ArmAssumption`
(a list of arms is not empty), `BoundAssumption` and `ClosedAssumption` (the end of
a stream is no number).

The inductive invariant consists of `WaitsAgree` and `DetachesOnce`, which are
checked, and of

- `CallsAgree`: how far each kind of call comes, and that only a wait that is
  decided has got anything;
- `SinksAgree`: what the phase of a source says of its sink;
- `LinesAgree`: the messages of a source that are buffered, and then those that
  are blocked, are in the order of their calls, and nobody has got one of them;
- `TakenAgree`: what a wait has got was accepted, is nobody else's, and is older
  than what is still on its line;
- `AcceptedKept`: what was accepted is in the buffer or with a wait, unless its
  source was aborted or is a latest-only subscription.

That a message goes to one wait only needs `TakenAgree` and `LinesAgree` together:
a hand-over past the buffer keeps the order because `WaitsAgree` says that nothing
is buffered or blocked where a wait is registered (`NoMissedMeeting`).
`MessagesKept` follows from the last three.

A step is described in two ways that hide which of the actions it is.
`CallsMove` says how calls may go on. `LinesMove` says what happens to the lines
of messages: they are only cut down (`Shrinks`), or one message joins the buffer
(`Appends`), is blocked (`Blocks`), is taken by a new wait (`Takes`) or goes to the
first wait there (`Hands`). `NextIInv` shows that every step is of these kinds.
The other results are proved from the kinds alone: the three parts above are
kept; only `Hands` serves a registered wait, and it serves the first
(`ServedInOrder`); and the kinds map to `Lose`, `Offer`, `Take` and `Pass` of
`Delivery`, or to no step. The mapping gives each message a fate, and `FateIs`
shows that the four cases of it exclude each other.

### Spark

Assumed is `BoundAssumption` (there may be at least one job). The inductive
invariant adds to the parts of `SparkSound` how far jobs, callbacks, scopes and
handles have come together (`JobsAgree`), that an operation has the handle it works
on (`OpsAgree`, `JoinsAgree`), what `#runScope` has heard when it goes on
(`ScopeAgrees`), and where reasons come from (`ReasonsAgree`). The last one carries
`FailuresGenuine`. `Records` recognises an echo of the scope's cancellation by
comparing with `spark.reason`. So, before anything has failed, no job may be
cancelled for a reason that others share; `Mild` states that a single job's reason
is its own cancellation, its own end, or that its speculative result is unused.
`FailuresKept` then says that a job that ended badly is on record or that somebody
who joined it is about to learn of it.

Every action is shown to be a `Step`: `ScopeMoves`, `JobMoves`, `CausesMove` and
`ActorMoves` say what may happen to the scope, to a job, to the reasons and
results, and to an operation. `StepKeeps` shows once that a `Step` keeps the
invariant. `Drained` and `DemandKept`, the remaining parts of `SparkSound`, follow
from it.

### Compiler session

Assumed are finitely many modules (`PathsFinite`), the assumptions about texts
named above, and that no module waits for a snapshot of an import
(`~MissingInstalls`, the hypothesis of the theorems). The last one is needed: an
import that is installed under an importer that has been checked without it is
published, and the importer is not checked again.

The difficulty is that a boundary says nothing of the view it was made from: it
is a number, and a fingerprint over the numbers below. The invariant
`CachesSound` therefore speaks of a function `seal`, bound by an existential
quantifier, from each number given out so far to the view that was published with
it. Given the seals, every part speaks of one module and its imports:

- `BoundarySound`: the interface of a module that is not dirty is the seal of its
  boundary, and the fingerprint determines the seal (`Sealed`);
- `BindingSound`, `InterfaceSound`, `ProgramSound`: the values kept of the imports
  are the seals of the boundaries the imports have, and what is cached above is
  put together from these and from the module's text;
- `LinkSound`: a module that is not dirty was sealed over the boundaries its
  imports have now;
- `Unpublished`: a module without a boundary does not check, or an import of it
  has no boundary.

`SameSeal` is where the cache could go wrong: when a module is checked again and
its fingerprint has not changed, it keeps its boundary, and the importers keep
what they computed. Its new view must be the old seal. For a portable text
this is `PortableByValue`; for another it is that the fingerprint contains the
revision, which an edit renews (`renewed`).

An action treats modules in three ways. An edit or a publication leaves a module
and its imports as they were (`Same`) or makes it dirty and drops what was cached of
it (`Dropped`); an answer adds programs only (`Kept`). The closures that the code
computes (`invalidate_exact`, `invalidate_importers`) make sure that every module
is of one kind, and the lemmas on `ReachedBy` say so.

Freshness follows by induction over the graph below a module: `InterfaceFresh` and
`ProgramFresh` take a module with the smallest `Reach` among those that are cached
and not fresh (`FiniteMinimal`). `WalkAgrees` says that what `ensure_current` has
finished has nothing dirty below it, and that is what an answer relies on.
`PreparationsCurrent` needs besides that the artifacts of the session are those
the host retained (`ArtifactsHeld`) and that a preparation replaces what it compiled
and keeps the rest (`PendingAgrees`).

### Shared partitions

Assumed are `BoundAssumption` (natural bounds) and `CellAssumption` (`NoCell` is
no cell). Sets of allocations need not be finite.

The inductive invariant consists of `TypeOK`; `InBounds` (partitions lie within
an allocation that has been made); `HandlesAgree` (a handle is of no future
generation, and no two are the same); `WitnessesAgree` (an unconsumed witness
stands for a split whose halves tile the parent, no partition is a half of two
splits, and the halves of a consumed one are dead); `LoansAgree` (a kernel
reaches only what its call was lent); `LoanKept`, the checked property; `Owned`
(every cell of an allocation has exactly one leaf); and `DirtyAgrees` (what a
kernel wrote and did not return belongs to a call in progress, or the control
word is gone). `Owned` is what a split, a join and a claim have in common: each
exchanges leaves for leaves with the same cells. A join keeps it only because
of `WitnessesAgree`, since the witness and not the two handles says what the
parent was, and `WitnessesAgree` is kept only because a witness is consumed
once. `ExclusiveAccess` then follows from `Owned`, `HandlesAgree` and `LoanKept`:
two parties at one cell would have the same leaf. `NoTornRead` follows from
`DirtyAgrees` and `LoanKept`. `StaleForever` needs that a generation never goes
back and that a split or join leaves its partitions with a higher one.

### Host scopes

Assumed is `BoundAssumption`. The inductive invariant has seven parts over the
type invariant:

- `ScopesAgree`, the checked property: `#cleanups`, what `close()` awaits and what
  it has released agree with the items.
- `TreeAgrees`: parents come before their children, what is above a scope is
  above everything below it, a scope between two others is a child of the upper
  one, and the scope of the finalizer that a scope works for is above it. It
  turns "below a scope that closes" into "below one of its children", which is
  what `close()` loops over.
- `MarksAgree`: what closes is cancelled, and traps and ends are inherited.
- `ItemsAgree`: which kinds of items each state can have.
- `OrderAgrees`: what was registered before an item is above it, in front of it
  when both are in one list, and not yet ended by `close()` (`Spared`), unless the
  release of the item came late. It holds `ReverseOrder` with the sets `older` that
  still count. It is inductive because `close()` takes the last cleanup of a list,
  after the children are gone and after it has seen every release that is not late.
- `StagesAgree`: `ItemStage` says how far `close()` of its scope lets an item come,
  and that a release or failure which is in `#releases` although `close()` has
  looked for the last time (`Looked`) came late; `ScopeStage` says what `close()`
  waits for and which children it leaves, and `MaskAgrees` what is known of the
  scope of the one running finalizer. `ItemStage` and
  `ScopeStage` cannot be proved apart: a scope goes on to its finalizers only when what it
  waits for has ended, and what ends there depends on the stage.
- `RoomAgrees`: the model's bound leaves one scope for each finalizer that waits.
  It concerns the bound and not the code: without it a bounded model could reach
  a finalizer for which no scope is left.

`NextIInv` puts together one lemma for each part (`NextTree`, `NextMarks`,
`NextItems`, `NextOrder`, `NextLists`, `NextWaits`, `NextRoom`, `NextStages`), and each of
these has a step for each action. What an action does to a table of scopes or
to an item is stated once, in the lemmas named `...Fields` and in `ScopeSteps` and
`ItemSteps`. The properties follow: `NothingOutlives` and `FailuresReported` from
the stages, `MaskHolds` from `MaskAgrees`, and `FinalizersServed` from `OrderAgrees`
and `TreeAgrees` (a lease that was registered before the finalizer is in a scope above it
that is not closed, and has not been ended; a scope below the masked one has an
owner within the finalizer's scope, so `#checkLease` lets it pass).
`NoGuestAfterTrap` needs besides that only `close()` starts a finalizer, and looks
at the mark that `MarksAgree` spreads.

### What stays with TLC

- Every liveness property, `ScopeCloses` among them: the prover does not reason
  about fairness and `ENABLED`.
- `ManagedCode` and `LanguageServer`. The allocator releases a value in a loop over
  the queue of what it freed, and the coordinator's handlers fold over queues of
  tasks (`#flush`, `dropQueued`, `requestResync`), each step with all of the state.
  What such a loop computes is an induction over a sequence.
- `Continuations` computes least fixed points with RECURSIVE operators, so `Frames`
  and `Machine` are for TLC only.
- Induction over numbers and finite sets is done through least elements
  (`Least` in `MessagingProofs`, `FiniteMinimal` in `SessionProofs`), which need no
  theorem of induction. What a recursive definition over a sequence or a tree
  computes is out of reach.
- Where it was possible, such facts are stated so that they can be proved element
  by element. `above` in `HostScope` is
  such a statement: the set of all scopes above one, instead of a walk over
  parents.

## Not modelled

- Of Spark and of the language server, what the sections about their modules name.
- The development runtime and the residual and persistent caches.
- Type checking, ownership analysis, elaboration to Runtime HIR, evaluation and
  parsing, which are most of the compiler's 130 000 lines. They are sequential
  passes over program trees of unbounded shape; small trees would show little of
  them, and the repository keeps Lean developments about the core calculus in
  `formal/`. The map therefore covers a small share of the compiler: the session,
  the continuation graph, frames and native transitions, and the memory.
- Instruction selection, text search, codecs over Wasm memory, formatting, file
  watching and the command line.

## Plan

1. Proofs about `ManagedCode` and `LanguageServer`, with their loops stated
   as steps or by what they leave behind.
2. `Spark`: child scopes and the transfer of callbacks between scopes.
3. Language server: the inline hosts and the Deno adapter behind the same
   scheduler, and proofs of `NoIdleLane`, `OneJob` and `WatchdogArmed`.
4. Activation and retirement of development builds.
5. Pure algorithms as operators against a reference definition: integer
   arithmetic at the width of its type, operator precedence, the partition plan.
