------------------------------ MODULE Machine ------------------------------
(***************************************************************************)
(* What a compiled call is supposed to do: the interpreter of the          *)
(* continuation graph (continuation_interpreter.rs), which the compiler's  *)
(* own tests run beside the generated code.  It keeps every value by name, *)
(* never drops one, and stacks a destination for every call.               *)
(*                                                                         *)
(* Two liberties: an instruction that makes a value may make any value,    *)
(* and a destination that would only hand its result on need not be        *)
(* stacked (a tail call).                                                  *)
(***************************************************************************)
EXTENDS Continuations

CONSTANTS
    Programs,   \* the compiled modules
    Objects,    \* values in memory
    Plain       \* values that own no memory

VARIABLES
    program,    \* the compiled module that runs
    state,      \* State: what runs, waits or has ended
    callers,    \* the destinations that wait for a result, the last on top
    request     \* the arguments of the request that waits for the host

vars == <<program, state, callers, request>>

Pending == 0    \* a value of a destination that the result will provide

Idle    == [kind |-> "idle"]
Trapped == [kind |-> "trapped"]
Returned(value) == [kind |-> "returned", value |-> value]

FunctionOf(at) == program.functions[at.function]
ContinuationOf(at) == FunctionOf(at).code[at.continuation]
TransitionOf(at) == ContinuationOf(at).transition

\* Where edge leads from at, with what it takes along.
Destination(at, values, edge) ==
    LET next == FunctionOf(at).code[edge.target]
        Of(v) == IF v \notin ToSet(next.parameters) THEN values[v]
                 ELSE LET i == CHOOSE i \in DOMAIN next.parameters : next.parameters[i] = v
                      IN  IF edge.arguments[i] = Result THEN Pending
                          ELSE values[edge.arguments[i]]
    IN  [kind |-> "waiting", function |-> at.function, continuation |-> edge.target,
         values |-> [v \in Inputs(next) |-> Of(v)]]

Arrive(destination, result) ==
    [destination EXCEPT !.kind = "ready",
        !.values = [v \in DOMAIN @ |-> IF @[v] = Pending THEN result ELSE @[v]]]

\* From this destination the result only travels on until it is returned.
RECURSIVE HandsOn(_, _)
HandsOn(at, visited) ==
    LET transition == TransitionOf(at)
    IN  /\ at.continuation \notin visited
        /\ ContinuationOf(at).instructions = <<>>
        /\ \/ /\ transition.kind = "return"
              /\ at.values[transition.uses[1]] = Pending
           \/ /\ transition.kind = "branch"
              /\ HandsOn(Destination(at, at.values, transition.edges[1]),
                         visited \cup {at.continuation})

\* The values after the instructions: what was there and one for each result.
Executions(at) ==
    LET instructions == ContinuationOf(at).instructions
        results == {instructions[i].result : i \in DOMAIN instructions}
        known == DOMAIN at.values
        plain == FunctionOf(at).plain
        All(m) == [v \in known \cup results |-> IF v \in results THEN m[v] ELSE at.values[v]]
    IN  {All(m) : m \in {m \in [results -> Objects \cup Plain] :
            \A i \in DOMAIN instructions :
                LET made == instructions[i]
                IN  /\ m[made.result] \in IF made.result \in plain THEN Plain ELSE Objects
                    /\ made.kind = "share" => m[made.result] = All(m)[made.operands[1]]}}

Enter(f, arguments) ==
    LET entry == program.functions[f].code[program.functions[f].entry]
    IN  [kind |-> "ready", function |-> f,
         continuation |-> program.functions[f].entry,
         values |-> [v \in ToSet(entry.parameters) |->
            arguments[CHOOSE i \in DOMAIN entry.parameters : entry.parameters[i] = v]]]

Arguments(values, uses) == [i \in DOMAIN uses |-> values[uses[i]]]

-----------------------------------------------------------------------------
Init ==
    /\ program \in Programs
    /\ state = Idle
    /\ callers = <<>>
    /\ request = <<>>

New ==
    /\ state = Idle
    /\ \E f \in program.exports \cup program.callbacks :
         LET entry == program.functions[f].code[program.functions[f].entry]
         IN  \E arguments \in [DOMAIN entry.parameters -> Objects \cup Plain] :
                state' = Enter(f, arguments)
    /\ UNCHANGED <<program, callers, request>>

\* Which edge a condition selects.
Selected(transition, values) ==
    IF transition.kind = "branch" THEN 1
    ELSE IF values[transition.uses[1]] = Max(Plain) THEN 1 ELSE Len(transition.edges)

Goes(values) ==
    /\ TransitionOf(state).kind \in {"branch", "select"}
    /\ state' = Arrive(Destination(state, values,
                    TransitionOf(state).edges[Selected(TransitionOf(state), values)]), Pending)
    /\ UNCHANGED <<callers, request>>

Calls(values) ==
    LET call == TransitionOf(state)
        next == Destination(state, values, call.edges[1])
    IN  /\ call.kind = "call"
        /\ state' = Enter(call.callee, Arguments(values, call.uses))
        /\ \/ callers' = Append(callers, next)
           \/ HandsOn(next, {}) /\ callers' = callers
        /\ request' = request

Requests(values) ==
    LET call == TransitionOf(state)
    IN  /\ call.kind \in {"host", "ask"}
        /\ state' = Destination(state, values, call.edges[1])
        /\ request' = Arguments(values, call.uses)
        /\ callers' = callers

Returns(values) ==
    /\ TransitionOf(state).kind = "return"
    /\ LET value == values[TransitionOf(state).uses[1]]
       IN  IF callers = <<>>
           THEN state' = Returned(value) /\ callers' = callers
           ELSE state' = Arrive(Last(callers), value) /\ callers' = Front(callers)
    /\ request' = request

Poll ==
    /\ state.kind = "ready"
    /\ \E values \in Executions(state) :
           Goes(values) \/ Calls(values) \/ Requests(values) \/ Returns(values)
    /\ program' = program

Resume ==
    /\ state.kind = "waiting"
    /\ \E value \in Objects \cup Plain : state' = Arrive(state, value)
    /\ request' = <<>>
    /\ UNCHANGED <<program, callers>>

\* An instruction or a Trap fails, or the call is cancelled.
Trap ==
    /\ state.kind # "trapped"
    /\ state' = Trapped
    /\ callers' = <<>>
    /\ request' = <<>>
    /\ program' = program

Next == New \/ Poll \/ Resume \/ Trap

Spec == Init /\ [][Next]_vars
=============================================================================
