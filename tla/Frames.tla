------------------------------- MODULE Frames -------------------------------
(***************************************************************************)
(* The code the compiler emits for a call (backend.rs and                  *)
(* backend/suspension.rs) and the host that polls it.  A resumable         *)
(* function keeps its values in a heap frame and runs one continuation per *)
(* step; any other function runs natively, on the Wasm stack, with values  *)
(* in locals that several of them share.  Every value in memory has a      *)
(* reference count, and the emitted code retains and releases by the plan  *)
(* of Continuations.                                                       *)
(*                                                                         *)
(* Memory limits are the bounds: what would allocate beyond them traps.    *)
(***************************************************************************)
EXTENDS Continuations

CONSTANTS
    Modules,    \* staged modules
    Objects,    \* values in memory
    Plain,      \* values that own no memory
    MaxFrames,  \* bound: frames in memory
    MaxDepth,   \* bound: activations on the Wasm stack
    MaxQuantum  \* bound: steps of one poll

\* The modules as compiled.
Programs == {Compile(module) : module \in Modules}

VARIABLES
    program,    \* the compiled module that runs
    root,       \* the function the host called, 0 before
    frames,     \* frames[i]: a frame in memory
    context,    \* what the host sees of a resumable call
    native,     \* activations on the Wasm stack, the running one last
    refs,       \* refs[o]: the reference count of o
    left,       \* steps the current poll may still take
    fault       \* why the instance stopped

vars == <<program, root, frames, context, native, refs, left, fault>>

Absent  == 0
NoFrame == [function |-> 0, state |-> 0, waiting |-> FALSE, parent |-> 0,
            into |-> 0, words |-> <<>>]
Functions == program.functions

\* STATUS: 0 ready, 1 requested, 2 done, 3 cancelled, 4 yielded, 5 released.
Fresh(counts) == {o \in Objects : counts[o] = 0}
Slot(continuation, v) == CHOOSE i \in DOMAIN Slots(continuation) : Slots(continuation)[i] = v

-----------------------------------------------------------------------------
(* The emitted sequences, on a store s of locals, counts and fault; map    *)
(* gives the local of each value.                                          *)

OwnLocals(f) == [v \in f.values |-> v]      \* a step: a local for each value
NoLocals(f)  == [x \in 0..Max({0} \cup f.values) |-> Absent]
Held(s, map, v) == s.locals[map[v]]

Failed(s, why) == IF s.fault = "none" THEN [s EXCEPT !.fault = why] ELSE s
Reads(s, f, map, values) ==
    IF \E v \in values \ f.plain : Held(s, map, v) \notin Objects \/ s.refs[Held(s, map, v)] = 0
    THEN Failed(s, "dangling") ELSE s

\* retain n[v] times each value
Retain(s, f, map, n) ==
    LET managed == DOMAIN n \ f.plain
        t == Reads(s, f, map, {v \in managed : n[v] > 0})
    IN  IF t.fault # "none" THEN t
        ELSE [t EXCEPT !.refs = [o \in Objects |-> @[o] +
                MapThenSumSet(LAMBDA v : IF Held(s, map, v) = o THEN n[v] ELSE 0, managed)]]

Release(s, f, map, values) ==
    LET managed == values \ f.plain
        t == Reads(s, f, map, managed)
        count == [o \in Objects |-> Cardinality({v \in managed : Held(s, map, v) = o})]
    IN  IF t.fault # "none" THEN t
        ELSE IF \E o \in Objects : count[o] > t.refs[o] THEN Failed(t, "dangling")
        ELSE [t EXCEPT !.refs = [o \in Objects |-> @[o] - count[o]]]

\* The roots a transition holds pass to its destinations: the first place a
\* value goes to takes its reference, further places retain it, and what
\* goes nowhere is released.
TransferRoots(s, f, map, roots, destinations) ==
    LET to == ToSet(destinations)
        more == [v \in to |-> Cardinality({i \in DOMAIN destinations : destinations[i] = v}) - 1]
    IN  IF ~(to \subseteq roots) THEN Failed(s, "assertion")
        ELSE Release(Retain(s, f, map, more), f, map, roots \ to)

\* An instruction makes a value, or shares its operand; p is what it makes
\* of a plain value.
Perform(s, f, map, instruction, p) ==
    LET t == Reads(s, f, map, ToSet(instruction.operands))
        plain == instruction.result \in f.plain
        free == Fresh(t.refs)
        made == IF instruction.kind = "share" THEN Held(s, map, instruction.operands[1])
                ELSE IF plain THEN p ELSE Min(free)
        local == map[instruction.result]
    IN  IF t.fault # "none" THEN t
        ELSE IF instruction.kind = "make" /\ ~plain /\ free = {} THEN Failed(t, "trap")
        ELSE [t EXCEPT !.locals[local] = made,
                       !.refs = IF plain THEN @ ELSE [@ EXCEPT ![made] = @ + 1]]

\* The body of continuation k up to its transition.
Execute(s, f, map, k, p) ==
    LET body == f.code[k].instructions
        Step(t, i) == Release(Perform(t, f, map, body[i], p), f, map, f.lifetimes[k].after[i])
    IN  FoldLeft(Step, Release(s, f, map, f.lifetimes[k].entry), [i \in DOMAIN body |-> i])

\* Which edge a condition selects.
Selected(transition, s, map) ==
    IF transition.kind = "branch" THEN 1
    ELSE IF Held(s, map, transition.uses[1]) = Max(Plain) THEN 1 ELSE Len(transition.edges)

\* save_edge: the inputs of edge's target go to their slots; a result that
\* is Absent is left for later.
SaveEdge(words, f, s, edge, result) ==
    LET next == f.code[edge.target]
        Value(i) == IF i > Len(next.parameters) THEN s.locals[Slots(next)[i]]
                    ELSE IF edge.arguments[i] = Result THEN result
                    ELSE s.locals[edge.arguments[i]]
    IN  [w \in DOMAIN words |->
            IF w \in DOMAIN Slots(next) /\ Value(w) # Absent THEN Value(w) ELSE words[w]]

\* store_value for the arguments of a call
SaveArguments(words, s, uses) ==
    [w \in DOMAIN words |-> IF w \in DOMAIN uses THEN s.locals[uses[w]] ELSE words[w]]

Fits(s, words, n) == IF n > Len(words) THEN Failed(s, "overflow") ELSE s

\* assign_block_arguments: a parallel copy.
Assign(s, f, map, edge) ==
    LET next == f.code[edge.target]
        copied == {i \in DOMAIN edge.arguments : edge.arguments[i] # Result}
        to == {map[next.parameters[i]] : i \in copied}
        From(x) == edge.arguments[CHOOSE i \in copied : map[next.parameters[i]] = x]
    IN  [s EXCEPT !.locals = [x \in DOMAIN @ |-> IF x \in to THEN @[map[From(x)]] ELSE @[x]]]

Activation(f, k, locals, step) ==
    [function |-> f, continuation |-> k, locals |-> locals, step |-> step, host |-> FALSE]

\* The callee of a native call, with its arguments in its first locals.
Callee(s, map, transition) ==
    LET f == Functions[transition.callee]
        uses == transition.uses
    IN  Activation(transition.callee, f.entry,
            [x \in DOMAIN NoLocals(f) |->
                IF x \in DOMAIN uses THEN Held(s, map, uses[x]) ELSE Absent], FALSE)

-----------------------------------------------------------------------------
Init ==
    /\ program \in Programs
    /\ root = 0
    /\ frames = [i \in 1..MaxFrames |-> NoFrame]
    /\ context = [frame |-> 0, status |-> 0, result |-> Absent, polling |-> FALSE]
    /\ native = <<>>
    /\ refs = [o \in Objects |-> 0]
    /\ left = 0
    /\ fault = "none"

Live == fault = "none" /\ root # 0

\* The host calls an export or a callback: what suspends, and every
\* callback, gets a frame; any other export runs at once.
Start(f, p) ==
    LET callee == Functions[f]
        parameters == callee.code[callee.entry].parameters
        managed == {i \in DOMAIN parameters : parameters[i] \notin callee.plain}
        Argument(i) == IF i \notin managed THEN p
                       ELSE Cardinality({j \in managed : j <= i})
    IN  /\ root = 0
        /\ f \in program.exports \cup program.callbacks
        /\ Cardinality(managed) <= Cardinality(Objects)
        /\ root' = f
        /\ refs' = [o \in Objects |-> IF o <= Cardinality(managed) THEN 1 ELSE 0]
        /\ IF callee.suspends \/ f \in program.callbacks
           THEN /\ frames' = [frames EXCEPT ![1] =
                     [function |-> f, state |-> callee.entry, waiting |-> FALSE,
                      parent |-> 0, into |-> 0,
                      words |-> [w \in 1..callee.capacity |->
                         IF w \in DOMAIN parameters THEN Argument(w) ELSE Absent]]]
                /\ context' = [context EXCEPT !.frame = 1]
                /\ native' = native
           ELSE /\ native' = <<Activation(f, callee.entry,
                     [x \in DOMAIN NoLocals(callee) |->
                         IF x \in DOMAIN parameters THEN Argument(x) ELSE Absent], FALSE)>>
                /\ context' = [context EXCEPT !.polling = TRUE]
                /\ frames' = frames
        /\ UNCHANGED <<program, left, fault>>

\* blot:poll
Poll(quantum) ==
    /\ Live /\ ~context.polling
    /\ context.status \in {0, 4}
    /\ context' = [context EXCEPT !.status = 0, !.polling = TRUE]
    /\ left' = quantum
    /\ UNCHANGED <<program, root, frames, native, refs, fault>>

Yield ==
    /\ Live /\ context.polling /\ context.frame # 0 /\ native = <<>>
    /\ left = 0
    /\ context' = [context EXCEPT !.status = 4, !.polling = FALSE]
    /\ UNCHANGED <<program, root, frames, native, refs, left, fault>>

\* blot:resume, once the host has written its answer
Resume ==
    /\ Live /\ ~context.polling
    /\ context.status = 1
    /\ context' = [context EXCEPT !.status = 0]
    /\ UNCHANGED <<program, root, frames, native, refs, left, fault>>

\* blot:cancel: frames and values stay until the scope is left
Cancel ==
    /\ Live /\ ~context.polling /\ context.frame # 0
    /\ context.status \in {0, 1, 4}
    /\ context' = [context EXCEPT !.status = 3]
    /\ UNCHANGED <<program, root, frames, native, refs, left, fault>>

\* blot:release and cabi_leave
Leave ==
    /\ Live /\ ~context.polling
    /\ context.status \in {2, 3}
    /\ context' = [context EXCEPT !.status = 5, !.frame = 0]
    /\ frames' = [i \in 1..MaxFrames |-> NoFrame]
    /\ refs' = [o \in Objects |-> 0]
    /\ UNCHANGED <<program, root, native, left, fault>>

-----------------------------------------------------------------------------
(* A step of the frame on top: one continuation, or the arrival of a       *)
(* result.                                                                 *)

Stepping == /\ Live /\ context.polling /\ context.frame # 0 /\ native = <<>>
            /\ left > 0

Top == frames[context.frame]
TopFunction == Functions[Top.function]
TopTransition == TopFunction.code[Top.state].transition
TopRoots == TopFunction.lifetimes[Top.state].roots
TopNext == TopTransition.edges[1]

Load ==
    LET here == TopFunction.code[Top.state]
    IN  [locals |-> [x \in DOMAIN NoLocals(TopFunction) |->
                        IF x \in Inputs(here) THEN Top.words[Slot(here, x)] ELSE Absent],
         refs |-> refs, fault |-> fault]

Loaded(p) == Execute(Load, TopFunction, OwnLocals(TopFunction), Top.state, p)
Transferred(s, destinations) ==
    TransferRoots(s, TopFunction, OwnLocals(TopFunction), TopRoots, destinations)

\* The step ends with store s and frame as the top frame.
Steps(s, frame) ==
    /\ frames' = [frames EXCEPT ![context.frame] = frame]
    /\ refs' = s.refs
    /\ fault' = s.fault
    /\ left' = left - 1
    /\ UNCHANGED <<program, root>>

StepGoes(s) ==
    LET edge == TopTransition.edges[Selected(TopTransition, s, OwnLocals(TopFunction))]
    IN  /\ TopTransition.kind \in {"branch", "select"}
        /\ Steps(Fits(Transferred(s, EdgeValues(TopFunction.code, edge)), Top.words,
                      Len(Slots(TopFunction.code[edge.target]))),
                 [Top EXCEPT !.words = SaveEdge(@, TopFunction, s, edge, Absent),
                             !.state = edge.target])
        /\ UNCHANGED <<context, native>>

\* A request: canonical copies of the arguments, then the edge, without the
\* result.
StepAsks(s) ==
    LET uses == TopTransition.uses
        area == LargestState(TopFunction.code)
        copied == [w \in DOMAIN Top.words |->
            IF w - area \in DOMAIN uses THEN s.locals[uses[w - area]] ELSE Top.words[w]]
        read == Reads(s, TopFunction, OwnLocals(TopFunction), ToSet(uses))
    IN  /\ TopTransition.kind = "ask"
        /\ Steps(Fits(Transferred(read, EdgeValues(TopFunction.code, TopNext)), Top.words,
                      TopFunction.resultOffset),
                 [Top EXCEPT !.words = SaveEdge(copied, TopFunction, s, TopNext, Absent),
                             !.waiting = TRUE])
        /\ context' = [context EXCEPT !.status = 1, !.polling = FALSE]
        /\ native' = native

\* Which calls get a frame.
NeedsFrame(f, k) ==
    LET callee == Functions[f.code[k].transition.callee]
    IN  /\ f.code[k].transition.kind = "call"
        /\ callee.framed
        /\ \/ callee.suspends
           \/ k \in f.tail
           \/ f.code[k].transition.callee \in program.polling

StepTails(s) ==
    LET callee == TopTransition.callee
    IN  /\ NeedsFrame(TopFunction, Top.state) /\ Top.state \in TopFunction.tail
        /\ Steps(Fits(Transferred(s, TopTransition.uses), Top.words, Len(TopTransition.uses)),
                 [Top EXCEPT !.function = callee, !.state = Functions[callee].entry,
                             !.words = SaveArguments(@, s, TopTransition.uses)])
        /\ UNCHANGED <<context, native>>

StepCalls(s) ==
    LET callee == TopTransition.callee
        free == {i \in 1..MaxFrames : frames[i] = NoFrame}
        t == Fits(Transferred(s, TopTransition.uses \o EdgeValues(TopFunction.code, TopNext)),
                  Top.words, TopFunction.resultOffset)
        child == Min(free)
    IN  /\ NeedsFrame(TopFunction, Top.state) /\ Top.state \notin TopFunction.tail
        /\ IF free = {}
           THEN /\ fault' = "trap"
                /\ UNCHANGED <<program, root, frames, context, native, refs, left>>
           ELSE /\ frames' = [frames EXCEPT
                     ![context.frame].words = SaveEdge(@, TopFunction, s, TopNext, Absent),
                     ![context.frame].waiting = TRUE,
                     ![child] = [function |-> callee, state |-> Functions[callee].entry,
                                 waiting |-> FALSE, parent |-> context.frame,
                                 into |-> TopFunction.resultOffset,
                                 words |-> SaveArguments(
                                    [w \in 1..Functions[callee].capacity |-> Absent],
                                    s, TopTransition.uses)]]
                /\ context' = [context EXCEPT !.frame = child]
                /\ refs' = t.refs
                /\ fault' = t.fault
                /\ left' = left - 1
                /\ UNCHANGED <<program, root, native>>

\* A call without a frame: the callee runs on the Wasm stack, above this step.
StepRunsNative(s) ==
    LET t == Transferred(s, EdgeValues(TopFunction.code, TopNext) \o TopTransition.uses)
        step == Activation(Top.function, Top.state, s.locals, TRUE)
    IN  /\ TopTransition.kind = "call" /\ ~NeedsFrame(TopFunction, Top.state)
        /\ Steps(Fits(t, Top.words, Len(Slots(TopFunction.code[TopNext.target]))),
                 [Top EXCEPT !.words = SaveEdge(@, TopFunction, s, TopNext, Absent),
                             !.state = TopNext.target])
        /\ native' = <<step, Callee(s, OwnLocals(TopFunction), TopTransition)>>
        /\ context' = context

StepCallsHost(s) ==
    LET read == Reads(s, TopFunction, OwnLocals(TopFunction), ToSet(TopTransition.uses))
    IN  /\ TopTransition.kind = "host"
        /\ Steps(read, Top)
        /\ native' = <<[Activation(Top.function, Top.state, s.locals, TRUE) EXCEPT !.host = TRUE]>>
        /\ context' = context

\* A return without a parent copies the result out; otherwise the parent
\* takes it over.
StepReturns(s) ==
    LET v == TopTransition.uses[1]
        value == s.locals[v]
        last == Release(s, TopFunction, OwnLocals(TopFunction), {v})
        done == IF Top.function \in program.roots THEN last ELSE Failed(s, "unreachable")
    IN  /\ TopTransition.kind = "return"
        /\ IF Top.parent = 0
           THEN /\ Steps(done, NoFrame)
                /\ context' = [context EXCEPT !.status = 2, !.result = value,
                                              !.polling = FALSE, !.frame = 0]
           ELSE /\ frames' = [frames EXCEPT ![context.frame] = NoFrame,
                                            ![Top.parent].words =
                     [w \in DOMAIN @ |-> IF w = Top.into THEN value ELSE @[w]]]
                /\ refs' = s.refs
                /\ fault' = Fits(s, frames[Top.parent].words, Top.into).fault
                /\ left' = left - 1
                /\ context' = [context EXCEPT !.frame = Top.parent]
                /\ UNCHANGED <<program, root>>
        /\ native' = native

Step ==
    /\ Stepping /\ ~Top.waiting
    /\ TopTransition.kind # "trap"
    /\ \E p \in Plain :
         LET s == Loaded(p)
         IN  \/ StepGoes(s)  \/ StepAsks(s)       \/ StepTails(s)     \/ StepCalls(s)
             \/ StepRunsNative(s) \/ StepCallsHost(s) \/ StepReturns(s)

\* The completion of a call: its result is installed, once.
Installed(value) ==
    LET next == TopFunction.code[TopNext.target]
        i == CHOOSE i \in DOMAIN TopNext.arguments : TopNext.arguments[i] = Result
    IN  [Top EXCEPT !.words[i] = value, !.state = TopNext.target, !.waiting = FALSE]

ResultPlain(f, k) ==
    LET edge == f.code[k].transition.edges[1]
    IN  f.code[edge.target].parameters[CHOOSE i \in DOMAIN edge.arguments :
            edge.arguments[i] = Result] \in f.plain

\* A value that comes from the host is made anew; p is a plain one.
Answer(s, plain, p) ==
    IF plain THEN [value |-> p, s |-> s]
    ELSE IF Fresh(s.refs) = {} THEN [value |-> Absent, s |-> Failed(s, "trap")]
    ELSE [value |-> Min(Fresh(s.refs)),
          s |-> [s EXCEPT !.refs[Min(Fresh(s.refs))] = 1]]

InstallAnswer(p) ==
    /\ Stepping /\ Top.waiting
    /\ TopTransition.kind = "ask"
    /\ LET a == Answer([refs |-> refs, fault |-> fault],
                       ResultPlain(TopFunction, Top.state), p)
       IN  Steps(a.s, Installed(a.value))
    /\ UNCHANGED <<context, native>>

InstallResult ==
    /\ Stepping /\ Top.waiting
    /\ TopTransition.kind = "call"
    /\ Steps([refs |-> refs, fault |-> fault], Installed(Top.words[TopFunction.resultOffset]))
    /\ UNCHANGED <<context, native>>

-----------------------------------------------------------------------------
(* Native code.                                                            *)

Running == Last(native)
RunFunction == Functions[Running.function]
RunTransition == RunFunction.code[Running.continuation].transition
RunRoots == RunFunction.lifetimes[Running.continuation].roots
Store(a) == [locals |-> a.locals, refs |-> refs, fault |-> fault]
LocalsOf(a) == IF a.step THEN OwnLocals(Functions[a.function])
               ELSE Functions[a.function].locals

Natively == Live /\ native # <<>> /\ ~Running.host

\* The activations become stack, the store s.
Continues(s, stack) ==
    /\ native' = stack
    /\ refs' = s.refs
    /\ fault' = IF Len(stack) > MaxDepth THEN Failed(s, "trap").fault ELSE s.fault
    /\ UNCHANGED <<program, root, left>>

At(a, k, s) == [a EXCEPT !.continuation = k, !.locals = s.locals, !.host = FALSE]

NativeGoes(s) ==
    LET map == RunFunction.locals
        edge == RunTransition.edges[Selected(RunTransition, s, map)]
        t == TransferRoots(s, RunFunction, map, RunRoots, EdgeValues(RunFunction.code, edge))
    IN  /\ RunTransition.kind \in {"branch", "select"}
        /\ Continues(t, Append(Front(native),
               At(Running, edge.target, Assign(t, RunFunction, map, edge))))
        /\ UNCHANGED <<frames, context>>

\* return_call
NativeTails(s) ==
    LET map == RunFunction.locals
    IN  /\ RunTransition.kind = "call" /\ Running.continuation \in RunFunction.tail
        /\ Continues(TransferRoots(s, RunFunction, map, RunRoots, RunTransition.uses),
                     Append(Front(native), Callee(s, map, RunTransition)))
        /\ UNCHANGED <<frames, context>>

NativeCalls(s) ==
    LET map == RunFunction.locals
        t == TransferRoots(s, RunFunction, map, RunRoots,
                EdgeValues(RunFunction.code, RunTransition.edges[1]) \o RunTransition.uses)
    IN  /\ RunTransition.kind = "call" /\ Running.continuation \notin RunFunction.tail
        /\ Continues(t, Front(native) \o <<At(Running, Running.continuation, t),
                                           Callee(s, map, RunTransition)>>)
        /\ UNCHANGED <<frames, context>>

\* An operation that suspends cannot be answered here.
NativeCallsHost(s) ==
    LET read == Reads(s, RunFunction, RunFunction.locals, ToSet(RunTransition.uses))
        t == IF RunTransition.kind = "ask" THEN Failed(read, "suspended") ELSE read
    IN  /\ RunTransition.kind \in {"host", "ask"}
        /\ Continues(t, Append(Front(native),
               [At(Running, Running.continuation, t) EXCEPT !.host = TRUE]))
        /\ UNCHANGED <<frames, context>>

\* The result of a call reaches activation a: a step saves the edge with it,
\* native code has it in the local of the parameter before it copies.
Delivered(a, s, value, below) ==
    LET f == Functions[a.function]
        edge == f.code[a.continuation].transition.edges[1]
        i == CHOOSE i \in DOMAIN edge.arguments : edge.arguments[i] = Result
        local == LocalsOf(a)[f.code[edge.target].parameters[i]]
        t == [s EXCEPT !.locals[local] = value]
    IN  IF a.step
        THEN /\ Continues(s, <<>>)
             /\ frames' = [frames EXCEPT ![context.frame].words =
                              SaveEdge(@, f, s, edge, value),
                           ![context.frame].state = edge.target]
             /\ context' = context
        ELSE /\ Continues(s, Append(below, At(a, edge.target, Assign(t, f, LocalsOf(a), edge))))
             /\ UNCHANGED <<frames, context>>

NativeReturns(s) ==
    LET v == RunTransition.uses[1]
        value == Held(s, RunFunction.locals, v)
        below == Front(native)
    IN  /\ RunTransition.kind = "return"
        /\ IF below = <<>>
           THEN /\ Continues(Release(s, RunFunction, RunFunction.locals, {v}), <<>>)
                /\ context' = [context EXCEPT !.status = 2, !.result = value, !.polling = FALSE]
                /\ frames' = frames
           ELSE Delivered(Last(below), [s EXCEPT !.locals = Last(below).locals], value,
                          Front(below))

Native ==
    /\ Natively /\ RunTransition.kind # "trap"
    /\ \E p \in Plain :
         LET s == Execute(Store(Running), RunFunction, RunFunction.locals,
                          Running.continuation, p)
         IN  \/ NativeGoes(s) \/ NativeTails(s) \/ NativeCalls(s)
             \/ NativeCallsHost(s) \/ NativeReturns(s)

\* The host answers at once: the result is there before the roots of the
\* call are handed on.
HostAnswers(p) ==
    LET f == RunFunction
        map == LocalsOf(Running)
        edge == RunTransition.edges[1]
        i == CHOOSE i \in DOMAIN edge.arguments : edge.arguments[i] = Result
        local == IF Running.step THEN 0 ELSE map[f.code[edge.target].parameters[i]]
        a == Answer(Store(Running), ResultPlain(f, Running.continuation), p)
        t == TransferRoots([a.s EXCEPT !.locals[local] = a.value], f, map, RunRoots,
                           EdgeValues(f.code, edge))
    IN  /\ Live /\ native # <<>> /\ Running.host
        /\ Delivered(Running, t, a.value, Front(native))

\* An instruction, or the program itself, traps.
Traps ==
    LET at == IF native # <<>> THEN RunFunction.code[Running.continuation]
              ELSE TopFunction.code[Top.state]
    IN  /\ Natively \/ (Stepping /\ ~Top.waiting)
        /\ at.transition.kind = "trap" \/ at.instructions # <<>>
        /\ fault' = "trap"
        /\ UNCHANGED <<program, root, frames, context, native, refs, left>>

Ended ==
    /\ fault # "none" \/ context.status = 5
    /\ UNCHANGED vars

Next ==
    \/ \E f \in 1..Len(Functions), p \in Plain : Start(f, p)
    \/ \E quantum \in 1..MaxQuantum : Poll(quantum)
    \/ Yield \/ Resume \/ Cancel \/ Leave
    \/ Step \/ InstallResult
    \/ \E p \in Plain : InstallAnswer(p) \/ HostAnswers(p)
    \/ Native \/ Traps \/ Ended

Spec == Init /\ [][Next]_vars

-----------------------------------------------------------------------------
(* The call as Machine sees it.                                            *)

\* What a frame will run with: the inputs of its next continuation, without
\* the result it waits for.
FrameState(i) ==
    LET frame == frames[i]
        f == Functions[frame.function]
        edge == f.code[frame.state].transition.edges[1]
        k == IF frame.waiting THEN edge.target ELSE frame.state
        Awaited(v) == /\ frame.waiting
                      /\ \E j \in DOMAIN edge.arguments :
                            /\ edge.arguments[j] = Result
                            /\ f.code[k].parameters[j] = v
    IN  [kind |-> IF frame.waiting THEN "waiting" ELSE "ready",
         function |-> frame.function, continuation |-> k,
         values |-> [v \in Inputs(f.code[k]) |->
            IF Awaited(v) THEN Absent ELSE frame.words[Slot(f.code[k], v)]]]

\* The same of an activation that waits for a call ...
ActivationWaits(a) ==
    LET f == Functions[a.function]
        edge == f.code[a.continuation].transition.edges[1]
        next == f.code[edge.target]
        Of(v) == IF v \notin ToSet(next.parameters) THEN a.locals[LocalsOf(a)[v]]
                 ELSE LET i == CHOOSE i \in DOMAIN next.parameters : next.parameters[i] = v
                      IN  IF edge.arguments[i] = Result THEN Absent
                          ELSE a.locals[LocalsOf(a)[edge.arguments[i]]]
    IN  [kind |-> "waiting", function |-> a.function, continuation |-> edge.target,
         values |-> [v \in Inputs(next) |-> Of(v)]]
\* ... and of one that is about to run.
ActivationRuns(a) ==
    LET f == Functions[a.function]
    IN  [kind |-> "ready", function |-> a.function, continuation |-> a.continuation,
         values |-> [v \in Inputs(f.code[a.continuation]) |-> a.locals[f.locals[v]]]]

RECURSIVE Ancestors(_)
Ancestors(i) == IF i = 0 \/ frames[i].parent = 0 THEN <<>>
                ELSE Append(Ancestors(frames[i].parent), frames[i].parent)

Finished == fault # "none" \/ context.status \in {2, 3, 5}

MachineState ==
    IF fault # "none" \/ context.status = 3 THEN [kind |-> "trapped"]
    ELSE IF root = 0 THEN [kind |-> "idle"]
    ELSE IF context.status \in {2, 5}
         THEN IF context.result = Absent THEN [kind |-> "trapped"]
              ELSE [kind |-> "returned", value |-> context.result]
    ELSE IF native # <<>>
         THEN IF Running.host THEN ActivationWaits(Running) ELSE ActivationRuns(Running)
    ELSE IF Top.waiting /\ TopTransition.kind = "call" \* the child has returned
         THEN LET waits == FrameState(context.frame)
              IN  [waits EXCEPT !.kind = "ready", !.values = [v \in DOMAIN @ |->
                     IF @[v] = Absent THEN Top.words[TopFunction.resultOffset] ELSE @[v]]]
    ELSE FrameState(context.frame)

MachineCallers ==
    IF Finished THEN <<>>
    ELSE LET chain == Ancestors(context.frame)
             below == IF native = <<>> THEN <<>> ELSE Front(native)
         IN  [i \in DOMAIN chain |-> FrameState(chain[i])]
             \o [i \in DOMAIN below |-> ActivationWaits(below[i])]

MachineRequest ==
    IF Finished \/ root = 0 THEN <<>>
    ELSE IF native # <<>>
         THEN IF ~Running.host THEN <<>>
              ELSE [i \in DOMAIN RunTransition.uses |->
                      Running.locals[LocalsOf(Running)[RunTransition.uses[i]]]]
    ELSE IF Top.waiting /\ TopTransition.kind = "ask"
         THEN [i \in DOMAIN TopTransition.uses |->
                  Top.words[LargestState(TopFunction.code) + i]]
    ELSE <<>>

M == INSTANCE Machine WITH state <- MachineState, callers <- MachineCallers,
                           request <- MachineRequest

\* The emitted code does what the interpreter of the graph does: every value
\* reaches the right place through frames, slots and shared locals, whatever
\* calls are tail calls, native or resumable and wherever the call suspends.
ImplementsMachine == M!Spec

-----------------------------------------------------------------------------
(* Properties.                                                             *)

TypeOK ==
    /\ root \in 0..Len(Functions)
    /\ context.frame \in 0..MaxFrames
    /\ context.status \in 0..5
    /\ left \in 0..MaxQuantum
    /\ refs \in [Objects -> Nat]
    /\ \A i \in 1..MaxFrames : frames[i].parent \in 0..MaxFrames
    /\ fault \in {"none", "trap", "dangling", "overflow", "assertion", "unreachable",
                  "suspended"}

\* The places that hold a reference to o: the values of the running
\* continuation and of everything that waits for a result.  While the host
\* answers at once, the caller still holds all its roots.
HoldersIn(at, o) ==
    Cardinality({v \in DOMAIN at.values \ Functions[at.function].plain : at.values[v] = o})
RootsHolding(a, o) ==
    LET f == Functions[a.function]
    IN  Cardinality({v \in f.lifetimes[a.continuation].roots \ f.plain :
                        a.locals[LocalsOf(a)[v]] = o})
Holders(o) ==
    (IF native # <<>> /\ Running.host THEN RootsHolding(Running, o)
     ELSE HoldersIn(MachineState, o))
    + MapThenSumSet(LAMBDA i : HoldersIn(MachineCallers[i], o), DOMAIN MachineCallers)

\* Every reference count is exactly the number of live holders, so nothing is
\* freed while some continuation still needs it, and a call that returns has
\* given back every value and every frame (SUSPENSION.md: "Each continuation
\* input owns a reference to every reachable private root").
RootsExact ==
    /\ Live /\ context.status \in {0, 1, 4} => \A o \in Objects : refs[o] = Holders(o)
    /\ Live /\ context.status = 2 => \A o \in Objects : refs[o] = 0
    /\ Live /\ context.status # 3 =>
          {i \in 1..MaxFrames : frames[i] # NoFrame}
             = ToSet(Ancestors(context.frame)) \cup ({context.frame} \ {0})

\* Only the program's own traps and exhausted memory stop a call: the code
\* never touches a freed value, writes beyond a frame, or reaches a place it
\* was emitted as unreachable.
NoFault == fault \in {"none", "trap"}

\* Between any two steps of a call its frames, counts and locals are in order
\* (step, poll and release in suspension.rs, the native code of backend.rs).
CallInOrder == TypeOK /\ RootsExact /\ NoFault

\* A callback is polled at every call: none of its functions ever runs
\* natively, so a worker can cancel it at any call (suspension.rs: "polling
\* every call for timely cancellation").
Polled == root \in program.callbacks => \A i \in DOMAIN native : native[i].step
=============================================================================
