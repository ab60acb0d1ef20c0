------------------------------ MODULE MCFrames ------------------------------
(***************************************************************************)
(* Staged modules to compile and run: each family varies what the compiler *)
(* has to get right (which value goes where, what is dead, what is held    *)
(* twice) around one shape of control.                                     *)
(***************************************************************************)
EXTENDS Frames

Block(parameters, operations, terminator) ==
    [parameters |-> parameters, operations |-> operations, terminator |-> terminator]
Function(plain, blocks) == [plain |-> plain, entry |-> 1, blocks |-> blocks]
Exported(functions) ==
    [functions |-> functions, exports |-> {1}, callbacks |-> {}, resumable |-> {}]
Callback(functions) ==
    [functions |-> functions, exports |-> {}, callbacks |-> {1}, resumable |-> {}]

Make(r, operands) == Operation("make", r, operands, 0)
Share(r, v) == Operation("share", r, <<v>>, 0)
Call(r, f, uses) == Operation("call", r, uses, f)
Tell(r, uses) == Operation("host", r, uses, 0)
Ask(r, uses) == Operation("ask", r, uses, 0)
Go(b, arguments) == Terminator("branch", <<>>, <<Edge(b, arguments)>>)
If(v, yes, no) == Terminator("select", <<v>>, <<yes, no>>)
Return(v) == Terminator("return", <<v>>, <<>>)
Abort == Terminator("trap", <<>>, <<>>)

\* Functions of two parameters that others call: one runs natively, one
\* suspends, one calls the host; the second calls a third function.
Pure    == Function({}, <<Block(<<1, 2>>, <<Make(3, <<1>>)>>, Return(3))>>)
Asking  == Function({}, <<Block(<<1, 2>>, <<Make(3, <<2>>), Ask(4, <<1, 3>>)>>, Return(4))>>)
Telling == Function({}, <<Block(<<1, 2>>, <<Tell(3, <<1, 1>>), Share(4, 2)>>, Return(4))>>)
Calling == Function({}, <<Block(<<1, 2>>, <<Call(3, 3, <<2, 1>>), Make(4, <<3, 1>>)>>, Return(4))>>)

\* A call, an edge with any arguments, and any value returned.
Once(operation, arguments, v) ==
    Function({}, <<Block(<<1, 2>>, <<operation>>, Go(2, arguments)),
                   Block(<<4, 5>>, <<>>, Return(v))>>)
Straight ==
    {Exported(<<Once(operation, arguments, v), g>>) :
        operation \in {Call(3, 2, <<1, 2>>), Call(3, 2, <<2, 2>>),
                       Tell(3, <<1>>), Ask(3, <<2, 2>>)},
        arguments \in {<<i, j>> : i, j \in 1..3}, v \in 1..5,
        g \in {Pure, Asking, Telling}}

\* A loop around a call or an instruction, with any values carried round it.
Around(operation, round, out) ==
    Function({5}, <<Block(<<1, 2>>, <<>>, Go(2, <<2, 1>>)),
                    Block(<<3, 4>>, <<Make(5, <<>>), operation>>,
                          If(5, Edge(2, round), Edge(3, <<out>>))),
                    Block(<<7>>, <<>>, Return(7))>>)
Loops ==
    {Exported(<<Around(operation, <<i, j>>, out), Asking>>) :
        operation \in {Make(6, <<3, 4>>), Share(6, 4), Call(6, 2, <<4, 3>>),
                       Tell(6, <<3>>), Ask(6, <<4>>)},
        i, j \in {3, 4, 6}, out \in {4, 6}}

\* Tail calls of functions with larger frames, back and forth, through a
\* join that drops a value.
Even(inner) == Function({3},
    <<Block(<<1, 2>>, <<Make(3, <<>>)>>, If(3, Edge(2, <<>>), Edge(3, <<>>))),
      Block(<<>>, <<Call(4, 2, <<2, 1>>)>>, Go(4, <<4, 1>>)),
      Block(<<>>, <<inner>>, Return(1)),
      Block(<<6, 7>>, <<>>, Return(6))>>)
Odd == Function({4},
    <<Block(<<1, 2>>, <<Make(3, <<1>>), Make(4, <<>>)>>, Go(2, <<3, 3, 1>>)),
      Block(<<5, 6, 7>>, <<Make(8, <<5>>)>>, If(4, Edge(3, <<>>), Edge(4, <<>>))),
      Block(<<>>, <<Call(9, 1, <<8, 2>>)>>, Return(9)),
      Block(<<>>, <<>>, Abort)>>)
Tails ==
    {make[x] : x \in {1, 2}, make \in {<<Exported(<<Even(inner), Odd>>),
                                         Callback(<<Even(inner), Odd>>)>> :
        inner \in {Ask(5, <<1>>), Tell(5, <<1>>), Make(5, <<1, 2>>)}}}

\* Calls of calls, each holding values the next one also has.
Outer(v) == Function({}, <<Block(<<1, 2>>, <<Call(3, 2, <<1, 2>>), Make(4, <<3, v>>)>>, Return(4))>>)
Nested ==
    {Exported(<<Outer(v), Calling, g>>) : v \in 1..3, g \in {Pure, Asking, Telling}}
    \cup {Callback(<<Outer(v), Calling, g>>) : v \in 1..2, g \in {Pure, Asking, Telling}}
    \* a suspending caller of native functions
    \cup {Exported(<<Function({}, <<Block(<<1, 2>>, <<Ask(3, <<1>>), Call(4, 2, <<3, 2>>),
                                                      Tell(5, <<4, 2>>)>>, Return(v))>>),
                     Calling, g>>) : v \in 1..5, g \in {Pure, Telling}}

\* Recursion that is not in tail position runs out of memory at some depth.
Deep(operation) == Function({3},
    <<Block(<<1, 2>>, <<Make(3, <<>>), operation>>, If(3, Edge(2, <<>>), Edge(3, <<4>>))),
      Block(<<>>, <<Call(5, 1, <<2, 4>>), Make(6, <<5, 1>>)>>, Return(6)),
      Block(<<7>>, <<>>, Return(7))>>)
Recursive == {Exported(<<Deep(Make(4, <<1>>))>>), Exported(<<Deep(Ask(4, <<1>>))>>),
              Callback(<<Deep(Tell(4, <<1>>))>>)}

MCModules == {p \in Straight \cup Loops \cup Tails \cup Nested \cup Recursive : Compile(p).valid}
MCObjects == 1..7
MCPlain == {-2, -1}
=============================================================================
