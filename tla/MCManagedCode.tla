--------------------------- MODULE MCManagedCode ---------------------------
(***************************************************************************)
(* Instances of ManagedCode for TLC.                                       *)
(***************************************************************************)
EXTENDS ManagedCode

\* A function with a text, stores, a store of stores, a box, and builders, and
\* one with what two calls need to disturb each other.
TwoFunctions == {"rich", "plain"}
TwoLocalsOf  == [rich |-> {"a", "s", "u", "n", "p", "q", "x"}, plain |-> {"a", "s"}]
RichTypes    == [a |-> "text", s |-> "store", u |-> "store", n |-> "nested",
                 p |-> "scratch", q |-> "scratch", x |-> "box"]

\* The states that are explored: one call of the rich function, for which the
\* host writes nothing, or two calls of the plain one with shorter values.
OneCall ==
    /\ calls[1].function = "rich"
    /\ calls[1].stage = "entered" => memory.liveAllocations = 0
    /\ memory.nextToken = 1
TwoCalls ==
    /\ \A t \in Tokens : calls[t].function # "rich"
    /\ memory.heap <= 4
    /\ work <= 2
    /\ \A b \in Blocks : memory.refs[b] <= 2 /\ memory.count[b] <= 1
Bounded == OneCall \/ TwoCalls
=============================================================================
