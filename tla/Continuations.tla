--------------------------- MODULE Continuations ---------------------------
(***************************************************************************)
(* What the compiler makes of a staged module before it emits code: the    *)
(* continuation graph (continuation.rs), the last use of every value       *)
(* (backend/lifetimes.rs), the frames of resumable functions               *)
(* (backend/suspension.rs) and the Wasm locals of the others (backend.rs). *)
(*                                                                         *)
(* A staged module is a record of its functions, exports, callbacks and    *)
(* resumable roots.  A function has blocks of parameters, operations and a *)
(* terminator; its values are numbers, and plain is the set of those that  *)
(* own no memory.  Every value takes one lane of one type, the case in     *)
(* which values compete for locals and slots the most.  Types, spans and   *)
(* the payload of an operation are left out: an operation makes a value,   *)
(* shares its operand, calls a function, or calls the host (or another     *)
(* unit), which answers at once ("host") or suspends the call ("ask").     *)
(***************************************************************************)
EXTENDS Integers, SequencesExt

Result == 0     \* Argument::Result: the value a call will return

Operation(kind, result, operands, callee) ==
    [kind |-> kind, result |-> result, operands |-> operands, callee |-> callee]
Terminator(kind, uses, edges) == [kind |-> kind, uses |-> uses, edges |-> edges]
Edge(target, arguments) == [target |-> target, arguments |-> arguments]

\* x itself, evaluated once where it is used many times.
Strict(x) == CHOOSE y \in {x} : TRUE

\* The elements of S in a strict order.
Ordered(S, Before(_, _)) ==
    [i \in 1..Cardinality(S) |->
        CHOOSE x \in S : Cardinality({y \in S : Before(y, x)}) = i - 1]

-----------------------------------------------------------------------------
(* Graph::lower: blocks become continuations, cut at every call.           *)

IsCall(operation) == operation.kind \in {"call", "host", "ask"}

\* The continuation in which block b begins.
EntryOf(function, b) ==
    b + FoldSeq(LAMBDA block, n : n + Len(SelectSeq(block.operations, IsCall)), 0,
                SubSeq(function.blocks, 1, b - 1))

LowerBlock(function, b) ==
    LET block == function.blocks[b]
        first == EntryOf(function, b)
        Lower(s, operation) ==
            IF ~IsCall(operation)
            THEN [s EXCEPT !.instructions = Append(@, operation)]
            ELSE [done |-> Append(s.done,
                     [parameters |-> s.parameters, instructions |-> s.instructions,
                      transition |->
                        [kind |-> operation.kind, callee |-> operation.callee,
                         uses |-> operation.operands,
                         edges |-> <<Edge(first + Len(s.done) + 1, <<Result>>)>>]]),
                  parameters |-> <<operation.result>>, instructions |-> <<>>]
        last == FoldLeft(Lower, [done |-> <<>>, parameters |-> block.parameters,
                                 instructions |-> <<>>], block.operations)
        end == block.terminator
    IN  Append(last.done,
            [parameters |-> last.parameters, instructions |-> last.instructions,
             transition |->
                [kind |-> end.kind, callee |-> 0, uses |-> end.uses,
                 edges |-> [i \in DOMAIN end.edges |->
                    Edge(EntryOf(function, end.edges[i].target),
                         end.edges[i].arguments)]]])

LowerFunction(function) ==
    FlattenSeq([b \in DOMAIN function.blocks |-> LowerBlock(function, b)])

\* The values an edge carries; those an edge needs are these and what its
\* target captures.
Values(edge) == ToSet(edge.arguments) \ {Result}

\* What must be there when continuation k begins, given what its successors
\* need.  An argument is needed even where its parameter is dead.
Needed(code, live, k) ==
    LET transition == code[k].transition
        after == ToSet(transition.uses)
            \cup UNION {Values(edge) \cup
                        (live[edge.target] \ ToSet(code[edge.target].parameters)) :
                        edge \in ToSet(transition.edges)}
        Before(instruction, needed) ==
            (needed \ {instruction.result}) \cup ToSet(instruction.operands)
    IN  FoldRight(Before, code[k].instructions, after)

\* The least solution, by rounds; the code updates in place, which reaches
\* the same solution sooner.
RECURSIVE LiveFrom(_, _)
LiveFrom(code, live) ==
    LET next == Strict([k \in DOMAIN code |-> Needed(code, live, k)])
    IN  IF next = live THEN live ELSE LiveFrom(code, next)

LiveInputs(code) == LiveFrom(code, [k \in DOMAIN code |-> {}])

FillCaptures(code) ==
    LET live == LiveInputs(code)
    IN  [k \in DOMAIN code |->
            [parameters |-> code[k].parameters,
             captures |-> Ordered(live[k] \ ToSet(code[k].parameters), <),
             instructions |-> code[k].instructions,
             transition |-> code[k].transition]]

Inputs(continuation) == ToSet(continuation.parameters) \cup ToSet(continuation.captures)
Definitions(code) ==
    UNION {ToSet(code[k].parameters) \cup
           {code[k].instructions[i].result : i \in DOMAIN code[k].instructions} :
           k \in DOMAIN code}

\* Graph::validate: nothing is free at the entry, an edge has an argument for
\* every parameter of its target, and what a continuation reads or must hand
\* to a successor has been provided to it.
Valid(code, entry) ==
    /\ code[entry].captures = <<>>
    /\ \A k \in DOMAIN code :
         LET here == code[k]
             Before(i) == Inputs(here) \cup {here.instructions[j].result : j \in 1..i-1}
             all == Before(Len(here.instructions) + 1)
         IN  /\ \A i \in DOMAIN here.instructions :
                    ToSet(here.instructions[i].operands) \subseteq Before(i)
             /\ ToSet(here.transition.uses) \subseteq all
             /\ \A edge \in ToSet(here.transition.edges) :
                    /\ Len(edge.arguments) = Len(code[edge.target].parameters)
                    /\ Values(edge) \subseteq all
                    /\ ToSet(code[edge.target].captures) \subseteq all

RECURSIVE CloseReachable(_, _)
CloseReachable(reached, relation) ==
    LET next == reached \cup {pair[2] : pair \in {p \in relation : p[1] \in reached}}
    IN  IF next = reached THEN reached ELSE CloseReachable(next, relation)

\* Function::returns_call_result: whoever is called here returns for us.
RECURSIVE CarriesResult(_, _, _, _)
CarriesResult(code, edge, carried, visited) ==
    LET next == code[edge.target]
        found == {i \in DOMAIN edge.arguments : edge.arguments[i] = carried}
    IN  /\ edge.target \notin visited
        /\ next.instructions = <<>>
        /\ found # {}
        /\ LET parameter == next.parameters[Min(found)]
           IN  CASE next.transition.kind = "return" ->
                        next.transition.uses = <<parameter>>
                 [] next.transition.kind = "branch" ->
                        CarriesResult(code, next.transition.edges[1], parameter,
                                      visited \cup {edge.target})
                 [] OTHER -> FALSE

ReturnsCallResult(code, edge) == CarriesResult(code, edge, Result, {})

-----------------------------------------------------------------------------
(* ContinuationLifetimes::new: where each value is released.               *)

\* The values an edge hands to its target, once per place they go to.
EdgeValues(code, edge) ==
    SelectSeq(edge.arguments, LAMBDA v : v # Result) \o code[edge.target].captures

TransitionRoots(code, k) ==
    ToSet(code[k].transition.uses)
    \cup UNION {ToSet(EdgeValues(code, edge)) : edge \in ToSet(code[k].transition.edges)}

\* entry: released on arrival; after[i]: released after instruction i.
Lifetimes(code, k) ==
    LET here == code[k]
        Back(instruction, s) ==
            LET operands == ToSet(instruction.operands)
                unused == {instruction.result} \ s.live
            IN  [live |-> (s.live \ {instruction.result}) \cup operands,
                 after |-> <<(operands \ s.live) \cup unused>> \o s.after]
        first == FoldRight(Back, here.instructions,
                           [live |-> TransitionRoots(code, k), after |-> <<>>])
    IN  [entry |-> Inputs(here) \ first.live, after |-> first.after,
         roots |-> TransitionRoots(code, k)]

-----------------------------------------------------------------------------
(* allocate_value_locals: values whose ranges do not meet share a local.   *)

BlockStart(code, k) == (k - 1) + FoldSeq(LAMBDA c, n : n + Len(c.instructions), 0,
                                         SubSeq(code, 1, k - 1))
BlockEnd(code, k) == BlockStart(code, k) + Len(code[k].instructions) + 1

Operands(transition) ==
    ToSet(transition.uses) \cup UNION {Values(edge) : edge \in ToSet(transition.edges)}

\* The positions at which value v is made, read or handed over ...
Touches(code, v) ==
    UNION {LET here == code[k]
           IN  {BlockStart(code, k) + i :
                   i \in {i \in DOMAIN here.instructions :
                          v \in {here.instructions[i].result}
                                \cup ToSet(here.instructions[i].operands)}}
               \cup {BlockEnd(code, k) : x \in {v} \cap Operands(here.transition)}
           : k \in DOMAIN code}
\* ... or received: an input is there from the start of its continuation, and
\* the result of a call before the copies of the edge that follows it.
RangeStart(code, v) ==
    Min(Touches(code, v)
        \cup {BlockStart(code, k) : k \in {k \in DOMAIN code : v \in Inputs(code[k])}}
        \cup {BlockEnd(code, k) : k \in {k \in DOMAIN code :
                \E edge \in ToSet(code[k].transition.edges) : \E i \in DOMAIN edge.arguments :
                    edge.arguments[i] = Result /\ code[edge.target].parameters[i] = v}})
\* ... and kept up to an edge whose target captures it.
RangeEnd(code, v) ==
    Max(Touches(code, v)
        \cup {BlockStart(code, k) : k \in {k \in DOMAIN code : v \in ToSet(code[k].parameters)}}
        \cup {BlockEnd(code, k) : k \in {k \in DOMAIN code :
                \E edge \in ToSet(code[k].transition.edges) :
                    v \in ToSet(code[edge.target].captures)}})

\* Mutant: a local is free where the range of its value ends.
ExpiredAt(end, start) == end <= start

\* A local is free again when the range of its value ends before this one.
Expired(end, start) == end < start

\* The parameters of the entry are the function's own locals, 1..n; the other
\* values are coloured in the order of their ranges.
AllocateLocals(code, entry) ==
    LET own == code[entry].parameters
        Earlier(v, w) == \/ RangeStart(code, v) < RangeStart(code, w)
                         \/ RangeStart(code, v) = RangeStart(code, w) /\ v < w
        order == Ordered(Definitions(code) \ ToSet(own), Earlier)
        Colour(s, v) ==
            LET gone == {a \in s.active : Expired(a.end, RangeStart(code, v))}
                free == s.free \cup {a.local : a \in gone}
                local == IF free = {} THEN s.next ELSE Min(free)
            IN  [of |-> [x \in DOMAIN s.of \cup {v} |-> IF x = v THEN local ELSE s.of[x]],
                 active |-> (s.active \ gone)
                            \cup {[end |-> RangeEnd(code, v), local |-> local]},
                 free |-> free \ {local},
                 next |-> IF free = {} THEN s.next + 1 ELSE s.next]
    IN  FoldLeft(Colour,
            [of |-> [v \in ToSet(own) |-> CHOOSE i \in DOMAIN own : own[i] = v],
             active |-> {}, free |-> {}, next |-> Len(own) + 1], order).of

-----------------------------------------------------------------------------
(* Frames: every input of the current continuation has a slot; behind the  *)
(* slots are the arguments of a request and the result of a call.          *)

Slots(continuation) == continuation.parameters \o continuation.captures

LargestState(code) == Max({Len(Slots(code[k])) : k \in DOMAIN code})
ArgumentArea(code) ==
    Max({0} \cup {Max({1, Len(code[k].transition.uses)}) :
                  k \in {k \in DOMAIN code : code[k].transition.kind = "ask"}})
ResultOffset(code) == LargestState(code) + ArgumentArea(code) + 1
ResultArea(code, framed) ==
    IF \E k \in DOMAIN code : \/ code[k].transition.kind = "ask"
                              \/ /\ code[k].transition.kind = "call"
                                 /\ code[k].transition.callee \in framed
    THEN 1 ELSE 0
OwnCapacity(code, framed) ==
    LargestState(code) + ArgumentArea(code) + ResultArea(code, framed)

\* Mutant: a frame has room for the function it was made for.
CapacityOwn(code, framed, tails, f) == OwnCapacity(code[f], framed)

\* A frame is reused by whoever is reached through tail calls: it must hold
\* the largest of them.
Capacity(code, framed, tails, f) ==
    Max({OwnCapacity(code[g], framed) : g \in CloseReachable({f}, tails)})

CallsOf(code) ==
    {<<f, code[f][k].transition.callee>> : <<f, k>> \in
        {fk \in UNION {{f} \X DOMAIN code[f] : f \in DOMAIN code} :
            code[fk[1]][fk[2]].transition.kind = "call"}}

\* Functions that may be the last in a frame without a parent: those that are
\* started from outside, and the tail calls they end in.
RootFunctions(module, tails) ==
    CloseReachable(module.callbacks \cup module.exports, tails)
\* Mutant: only the callbacks themselves are polled.
PollingCallbacks(module, calls) == module.callbacks

\* Functions that must be polled at every call.
PollingFunctions(module, calls) == CloseReachable(module.callbacks, calls)

Compile(module) ==
    LET functions == module.functions
        code   == Strict([f \in DOMAIN functions |->
                            FillCaptures(Strict(LowerFunction(functions[f])))])
        entry  == Strict([f \in DOMAIN functions |->
                            EntryOf(functions[f], functions[f].entry)])
        calls  == CallsOf(code)
        asking == {f \in DOMAIN code :
                     \E k \in DOMAIN code[f] : code[f][k].transition.kind = "ask"}
        suspending == CloseReachable(module.resumable \cup asking,
                                     {<<c[2], c[1]>> : c \in calls})
        framed == CloseReachable(suspending \cup module.callbacks, calls)
        IsTail(f, k) == /\ code[f][k].transition.kind = "call"
                        /\ ReturnsCallResult(code[f], code[f][k].transition.edges[1])
        tails  == {c \in calls : /\ {c[1], c[2]} \subseteq framed
                                 /\ \E k \in DOMAIN code[c[1]] :
                                        /\ IsTail(c[1], k)
                                        /\ code[c[1]][k].transition.callee = c[2]}
    IN  [exports |-> module.exports, callbacks |-> module.callbacks,
         valid |-> \A f \in DOMAIN code : Valid(code[f], entry[f]),
         roots |-> RootFunctions(module, tails),
         polling |-> PollingFunctions(module, calls),
         functions |-> [f \in DOMAIN code |->
            [entry |-> entry[f], code |-> code[f], plain |-> functions[f].plain,
             values |-> Definitions(code[f]),
             suspends |-> f \in suspending, framed |-> f \in framed,
             tail |-> {k \in DOMAIN code[f] : IsTail(f, k)},
             lifetimes |-> [k \in DOMAIN code[f] |-> Lifetimes(code[f], k)],
             locals |-> AllocateLocals(code[f], entry[f]),
             resultOffset |-> ResultOffset(code[f]),
             capacity |-> Capacity(code, framed, tails, f)]]]
=============================================================================
