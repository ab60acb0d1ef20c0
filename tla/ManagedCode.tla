---------------------------- MODULE ManagedCode ----------------------------
(***************************************************************************)
(* Compiled code on the allocator: what backend.rs, managed.rs and         *)
(* canonical.rs emit around every operation that makes, shares or drops a  *)
(* value in memory, for several invocations that take turns in one         *)
(* instance.  An invocation has a scope, named by its token, and locals: a *)
(* local is absent or holds the owner of its value, 0 for a value that     *)
(* owns no memory (a static text, an empty store).                         *)
(*                                                                         *)
(* One step of an invocation is one poll: it selects the scope, runs one   *)
(* instruction, claims the result and releases the operands whose last use *)
(* it was.  Which uses are last is decided in Continuations; here every    *)
(* choice is explored.                                                     *)
(***************************************************************************)
EXTENDS Allocator

CONSTANTS
    Functions,      \* the exported functions
    LocalsOf,       \* LocalsOf[f]: the values of compiled function f
    TypeOf,         \* TypeOf[v]: the type of local v
    MaxLength,      \* bound: elements of a store
    MaxTemporaries, \* bound: blocks the host writes for one call
    MaxWork,        \* bound: instructions and transitions, all calls together
    None            \* an absent local

VARIABLES
    memory,         \* the instance's memory
    calls,          \* calls[t]: the invocation with token t
    work            \* instructions and transitions so far

vars == <<memory, calls, work>>

Tokens == 1..MaxToken
Types  == {"text", "store", "nested", "scratch", "box"}
Stages == {"none", "entered", "running", "asked", "returned", "cancelled",
           "finished", "abandoned", "trapped", "left"}

Element == [store |-> "text", scratch |-> "text", nested |-> "store",
            box |-> "store", text |-> "none"]
LayoutOf(type) == IF type = "box" THEN "indirect" ELSE "elements"

Locals == UNION {LocalsOf[f] : f \in Functions}
Absent == [v \in Locals |-> None]
NoCall == [stage |-> "none", function |-> None, locals |-> Absent, context |-> 0, cause |-> "none"]

Held(t) == {v \in Locals : calls[t].locals[v] # None}
\* The locals t's function has not given a value yet.
Free(t) == IF calls[t].function = None THEN {}
           ELSE LocalsOf[calls[t].function] \ Held(t)
Owner(t, v) == calls[t].locals[v]
Count(m, b) == IF b = 0 THEN 0 ELSE m.count[b]

-----------------------------------------------------------------------------
(* What the emitted sequences share.                                       *)

\* A call into the instance by t ends: as after says, or in a trap, which
\* leaves the memory as it is.
Ends(t, m, after) ==
    /\ memory' = [m EXCEPT !.trap = "none"]
    /\ calls' = [calls EXCEPT ![t] =
          IF Trapped(m)
          THEN [@ EXCEPT !.stage = "trapped", !.locals = Absent, !.cause = m.trap]
          ELSE after]

\* release_roots.
ReleaseAll(m, locals, vs) ==
    FoldSet(LAMBDA v, acc : Then(acc, LAMBDA n : Release(n, locals[v])),
            m, {v \in vs : locals[v] # None})
Without(locals, vs) == [v \in Locals |-> IF v \in vs THEN None ELSE locals[v]]

\* retain_range and release_range over elements.
RetainAll(m, elements) ==
    FoldLeft(LAMBDA acc, c : Then(acc, LAMBDA n : Retain(n, c)), m, elements)
ReleaseRange(m, elements) ==
    FoldLeft(LAMBDA acc, c : Then(acc, LAMBDA n : Release(n, c)), m, elements)

Store(m, b, elements) ==
    IF b = 0 THEN m ELSE [m EXCEPT !.payload[b] = elements]

\* The end of emit_instruction and its drops: the layout, the claim of the
\* result d, and the release of what was used for the last time.  locals are
\* the locals the releases read.
Defines(t, m, locals, d, b, count, drops) ==
    LET defined == [locals EXCEPT ![d] = b]
    IN  Ends(t,
             Then(m, LAMBDA built :
             Then(IF TypeOf[d] = "text" THEN built
                  ELSE SetLayout(built, b, LayoutOf(TypeOf[d]), count), LAMBDA laid :
             Then(Claim(laid, b), LAMBDA claimed :
                  ReleaseAll(claimed, defined, drops)))),
             [calls[t] EXCEPT !.locals = Without(defined, drops)])

\* A poll of t that runs its next instruction or transition.
Works(t) ==
    /\ calls[t].stage = "running"
    /\ work < MaxWork
    /\ work' = work + 1

\* An instruction of t that defines d from operands, after select_context.
Instruction(t, d, operands, drops) ==
    /\ Works(t)
    /\ operands \subseteq Held(t)
    /\ d \notin Held(t)
    /\ drops \subseteq operands \cup {d}

\* Mutant: the poll runs in whatever scope is current.
SelectedBefore(t) == IF memory.current = 0 THEN Select(memory, t) ELSE memory
Selected(t) == Select(memory, t)

\* How many references to b the values of t's scope hold.
References(t, b) ==
    Cardinality({v \in Held(t) : Owner(t, v) = b}) +
    Cardinality({<<p, i>> \in Blocks \X (1..MaxLength) :
        /\ IsOwner(memory, p) /\ memory.kind[p] # "bytes"
        /\ i <= memory.count[p] /\ memory.payload[p][i] = b})

\* The ownership checker's promise for an operand that is reused in place:
\* this is its last use and nothing else refers to it.
Unique(t, v) == Owner(t, v) # 0 => References(t, Owner(t, v)) = 1

-----------------------------------------------------------------------------
(* The boundary with the host.                                             *)

\* canonical.rs lower: a private copy, each block claimed at once.
LowerText(m) ==
    Then(Alloc(m, 0, 0, 1), LAMBDA grown : Claim(grown, AllocOwner(m, 0, 1)))
LowerElement(m, b) ==
    Then(LowerText(m), LAMBDA n :
         [n EXCEPT !.payload[b] = Append(@, AllocOwner(m, 0, 1))])
LowerStore(m, n) ==
    LET b == AllocOwner(m, 0, n)
        filled[k \in 0..n] ==
            IF k = 0 THEN Then(Alloc(m, 0, 0, n), LAMBDA empty : Claim(empty, b))
            ELSE Then(filled[k - 1], LAMBDA before : LowerElement(before, b))
    IN  Then(filled[n], LAMBDA full : SetLayout(full, b, "elements", n))
LowerOwner(m, type, n) == AllocOwner(m, 0, IF type = "text" THEN 1 ELSE n)
Lower(m, type, n) == IF type = "text" THEN LowerText(m) ELSE LowerStore(m, n)

\* canonical.rs upper: a public copy of one block and of its elements, every
\* block of it a temporary.
Canonical(m, size) ==
    Then(Alloc(m, 0, 0, size), LAMBDA grown :
         IF size = 0 THEN grown ELSE Temporary(grown, AllocOwner(m, 0, size)))
Upper(m, type, b) ==
    IF type = "text" THEN Canonical(m, 1)
    ELSE FoldLeft(LAMBDA acc, c : Then(acc, LAMBDA n : Canonical(n, 1)),
                  Canonical(m, Count(m, b)), [i \in 1..Count(m, b) |-> i])

\* cabi_enter, for a call of f.
EnterCall(t, f) ==
    /\ t = EnterToken(memory)
    /\ t <= MaxToken
    /\ Cardinality({s \in Scopes : memory.token[s] # 0}) < MaxScopes
    /\ memory' = Enter(memory)
    /\ calls' = [calls EXCEPT ![t].stage = "entered",
                                ![t].function = f]
    /\ UNCHANGED work

\* cabi_realloc, for the arguments of a call and the answer of an operation.
HostWrite(t) ==
    /\ UNCHANGED work
    /\ calls[t].stage \in {"entered", "asked"}
    /\ Cardinality({b \in Blocks : /\ "TEMPORARY" \in memory.flags[b]
                                   /\ memory.token[memory.scope[b]] = t})
          < MaxTemporaries
    /\ Ends(t, Realloc(memory, t, 1), calls[t])

\* start (suspension.rs): the context, then the private arguments.
Start(t, p, n) ==
    /\ UNCHANGED work
    /\ calls[t].stage = "entered"
    /\ TypeOf[p] = "text" => n = 1
    /\ TypeOf[p] \in {"text", "store"}
    /\ LET opened == Alloc(Selected(t), 0, 0, 1)
       IN  Ends(t,
                Then(opened, LAMBDA m :
                Then(Lower(m, TypeOf[p], n), LAMBDA lowered :
                     ClearTemporaries(lowered, t))),
                [calls[t] EXCEPT !.stage = "running",
                   !.context = AllocOwner(Selected(t), 0, 1),
                   !.locals[p] = LowerOwner(opened, TypeOf[p], n)])

\* A suspending operation: public copies of the arguments stay with the host,
\* and the roots that nothing needs after the answer retire.
Ask(t, v, drops) ==
    /\ Works(t)
    /\ v \in Held(t)
    /\ TypeOf[v] \in {"text", "store"}
    /\ drops \subseteq {v}
    /\ Ends(t,
            Then(Upper(Selected(t), TypeOf[v], Owner(t, v)), LAMBDA public :
                 ReleaseAll(public, calls[t].locals, drops)),
            [calls[t] EXCEPT !.stage = "asked", !.locals = Without(@, drops)])

\* blot:resume, and the poll that lowers the answer.
Resume(t, d, n) ==
    /\ UNCHANGED work
    /\ calls[t].stage = "asked"
    /\ d \notin Held(t)
    /\ TypeOf[d] = "text" => n = 1
    /\ TypeOf[d] \in {"text", "store"}
    /\ Ends(t,
            Then(Lower(Selected(t), TypeOf[d], n), LAMBDA lowered :
                 ClearTemporaries(lowered, t)),
            [calls[t] EXCEPT !.stage = "running",
               !.locals[d] = LowerOwner(Selected(t), TypeOf[d], n)])

\* Return of the only root left: the public result outlives the private one.
Return(t, v) ==
    /\ UNCHANGED work
    /\ calls[t].stage = "running"
    /\ Held(t) = {v}
    /\ TypeOf[v] \in {"text", "store"}
    /\ Ends(t,
            Then(Upper(Selected(t), TypeOf[v], Owner(t, v)), LAMBDA public :
                 Release(public, Owner(t, v))),
            [calls[t] EXCEPT !.stage = "returned", !.locals = Absent])

\* A Trap transition.
TrapCall(t) ==
    /\ UNCHANGED work
    /\ calls[t].stage = "running"
    /\ Ends(t, Trap(Selected(t), "program"), calls[t])

\* blot:cancel: the roots are never released one by one.
Cancel(t) ==
    /\ UNCHANGED work
    /\ calls[t].stage \in {"running", "asked", "trapped"}
    /\ calls[t].context # 0
    /\ Ends(t, Selected(t),
            [calls[t] EXCEPT !.stage = "cancelled", !.locals = Absent])

\* blot:release.
Finish(t) ==
    /\ UNCHANGED work
    /\ calls[t].stage \in {"returned", "cancelled"}
    /\ Ends(t,
            Then(ClearTemporaries(Selected(t), t), LAMBDA cleared :
                 Release(cleared, calls[t].context)),
            [calls[t] EXCEPT !.context = 0,
               !.stage = IF @ = "returned" THEN "finished" ELSE "abandoned"])

\* cabi_leave.
LeaveCall(t) ==
    /\ UNCHANGED work
    /\ calls[t].stage \in {"entered", "finished", "abandoned", "trapped"}
    /\ Ends(t, Leave(memory, t), [NoCall EXCEPT !.stage = "left",
                                                !.cause = calls[t].cause])

-----------------------------------------------------------------------------
(* Instructions (emit_instruction).                                        *)

\* text.append.
TextAppend(t, d, drops) ==
    /\ TypeOf[d] = "text"
    /\ Instruction(t, d, {}, drops)
    /\ LET m == Selected(t)
       IN  Defines(t, Alloc(m, 0, 0, 1), calls[t].locals, d,
                   AllocOwner(m, 0, 1), 1, drops)

\* A constant text, or store.empty: no owner.
Constant(t, d, drops) ==
    /\ TypeOf[d] \in {"text", "store"}
    /\ Instruction(t, d, {}, drops)
    /\ Defines(t, Selected(t), calls[t].locals, d, 0, 0, drops)

\* store.literal, store.new and indirect.make: each element is retained, then
\* stored; the layout comes last.
Build(t, d, operands, drops) ==
    /\ \A v \in Range(operands) : TypeOf[v] = Element[TypeOf[d]]
    /\ TypeOf[d] \notin {"text", "scratch"}
    /\ TypeOf[d] = "box" => Len(operands) = 1
    /\ Instruction(t, d, Range(operands), drops)
    /\ LET m == Selected(t)
           size == Len(operands)
           b == AllocOwner(m, 0, size)
           elements == [i \in 1..size |-> Owner(t, operands[i])]
       IN  Defines(t,
                   Then(Alloc(m, 0, 0, size), LAMBDA grown :
                   Then(RetainAll(grown, elements), LAMBDA kept :
                        Store(kept, b, elements))),
                   calls[t].locals, d, b, size, drops)

\* store.read and indirect.read: the element gains a root.
Read(t, d, v, i, drops) ==
    /\ Instruction(t, d, {v}, drops)
    /\ TypeOf[d] = Element[TypeOf[v]]
    /\ TypeOf[v] # "scratch"
    /\ i <= Count(memory, Owner(t, v))
    /\ Defines(t, Selected(t), calls[t].locals, d,
               memory.payload[Owner(t, v)][i],
               Count(memory, memory.payload[Owner(t, v)][i]), drops)

\* seal.wrap, callback.make, resource.borrow: the same owner again.
Share(t, d, v, drops) ==
    /\ Instruction(t, d, {v}, drops)
    /\ TypeOf[d] = TypeOf[v]
    /\ TypeOf[v] # "scratch"
    /\ Defines(t, Selected(t), calls[t].locals, d, Owner(t, v),
               Count(memory, Owner(t, v)), drops)

\* store.write.  A persistent write copies the store and shares its elements;
\* an owned one writes in place.  The new element is retained, the old one
\* released.
Write(t, d, v, i, x, owned, drops) ==
    /\ TypeOf[v] \in {"store", "nested"}
    /\ TypeOf[d] = TypeOf[v]
    /\ TypeOf[x] = Element[TypeOf[v]]
    /\ Instruction(t, d, {v, x}, drops)
    /\ i <= Count(memory, Owner(t, v))
    /\ owned => v \in drops /\ Unique(t, v)
    /\ LET m == Selected(t)
           old == Owner(t, v)
           size == Count(m, old)
           from == IF owned THEN old ELSE 0
           b == AllocOwner(m, from, size)
           elements == m.payload[old]
       IN  Defines(t,
                   Then(Alloc(m, from, size, size), LAMBDA grown :
                   Then(IF owned THEN grown
                        ELSE RetainAll(Store(grown, b, elements), elements), LAMBDA copied :
                   Then(Retain(copied, Owner(t, x)), LAMBDA kept :
                   Then(Release(kept, elements[i]), LAMBDA freed :
                        Store(freed, b, [elements EXCEPT ![i] = Owner(t, x)]))))),
                   calls[t].locals, d, b, size, drops)

\* Mutant: the consumed local still names the retired block.
GrowKeeping(t, d, v, x, owned, drops) ==
    /\ TypeOf[v] \in {"store", "nested"}
    /\ TypeOf[d] = TypeOf[v]
    /\ TypeOf[x] = Element[TypeOf[v]]
    /\ Instruction(t, d, {v, x}, drops)
    /\ Count(memory, Owner(t, v)) < MaxLength
    /\ owned => v \in drops /\ Unique(t, v)
    /\ LET m == Selected(t)
           old == Owner(t, v)
           length == Count(m, old)
           from == IF owned THEN old ELSE 0
           b == AllocOwner(m, from, length + 1)
           elements == IF old = 0 THEN << >> ELSE m.payload[old]
       IN  Defines(t,
                   Then(Alloc(m, from, length, length + 1), LAMBDA grown :
                   Then(IF owned THEN grown
                        ELSE RetainAll(Store(grown, b, elements), elements), LAMBDA copied :
                   Then(Retain(copied, Owner(t, x)), LAMBDA kept :
                        Store(kept, b, Append(elements, Owner(t, x)))))),
                   calls[t].locals, d, b, length + 1, drops)

\* store.grow.  An owned store is resized, which may move it; the consumed
\* local must then not release the retired block.
Grow(t, d, v, x, owned, drops) ==
    /\ TypeOf[v] \in {"store", "nested"}
    /\ TypeOf[d] = TypeOf[v]
    /\ TypeOf[x] = Element[TypeOf[v]]
    /\ Instruction(t, d, {v, x}, drops)
    /\ Count(memory, Owner(t, v)) < MaxLength
    /\ owned => v \in drops /\ Unique(t, v)
    /\ LET m == Selected(t)
           old == Owner(t, v)
           length == Count(m, old)
           from == IF owned THEN old ELSE 0
           b == AllocOwner(m, from, length + 1)
           elements == IF old = 0 THEN << >> ELSE m.payload[old]
       IN  Defines(t,
                   Then(Alloc(m, from, length, length + 1), LAMBDA grown :
                   Then(IF owned THEN grown
                        ELSE RetainAll(Store(grown, b, elements), elements), LAMBDA copied :
                   Then(Retain(copied, Owner(t, x)), LAMBDA kept :
                        Store(kept, b, Append(elements, Owner(t, x)))))),
                   IF owned /\ b # old THEN [calls[t].locals EXCEPT ![v] = 0]
                                       ELSE calls[t].locals,
                   d, b, length + 1, drops)

\* scratch.with-capacity.
ScratchNew(t, d, n, drops) ==
    /\ TypeOf[d] = "scratch"
    /\ Instruction(t, d, {}, drops)
    /\ LET m == Selected(t)
       IN  Defines(t, Alloc(m, 0, 0, n), calls[t].locals, d,
                   AllocOwner(m, 0, n), 0, drops)

\* scratch.push: in place while the capacity lasts, else resized to twice it.
Push(t, d, v, x, drops) ==
    /\ TypeOf[v] = "scratch"
    /\ TypeOf[d] = "scratch"
    /\ TypeOf[x] = "text"
    /\ Instruction(t, d, {v, x}, drops)
    /\ v \in drops
    /\ Count(memory, Owner(t, v)) < MaxLength
    /\ LET m == Selected(t)
           old == Owner(t, v)
           length == Count(m, old)
           capacity == IF old = 0 THEN 0 ELSE m.bytes[old]
           more == Max({1, 2 * capacity})
           fits == length < capacity
           b == IF fits THEN old ELSE AllocOwner(m, old, more)
           elements == IF old = 0 THEN << >> ELSE m.payload[old]
       IN  Defines(t,
                   Then(m, LAMBDA selected :
                   Then(IF fits THEN selected
                        ELSE Alloc(selected, old, capacity, more), LAMBDA grown :
                   Then(Retain(grown, Owner(t, x)), LAMBDA kept :
                        Store(kept, b, Append(elements, Owner(t, x)))))),
                   IF b # old THEN [calls[t].locals EXCEPT ![v] = 0]
                              ELSE calls[t].locals,
                   d, b, length + 1, drops)

\* scratch.finish.
FinishScratch(t, d, v, drops) ==
    /\ TypeOf[v] = "scratch"
    /\ TypeOf[d] = "store"
    /\ Instruction(t, d, {v}, drops)
    /\ v \in drops
    /\ Defines(t, Selected(t), calls[t].locals, d, Owner(t, v),
               Count(memory, Owner(t, v)), drops)

\* scratch.recycle: the elements go, the block stays.
RecycleStore(t, d, v, drops) ==
    /\ TypeOf[v] = "store"
    /\ TypeOf[d] = "scratch"
    /\ Instruction(t, d, {v}, drops)
    /\ v \in drops
    /\ Unique(t, v)
    /\ LET m == Selected(t)
           old == Owner(t, v)
           length == Count(m, old)
           b == AllocOwner(m, old, length)
           elements == IF b = 0 THEN << >> ELSE m.payload[old]
       IN  Defines(t,
                   Then(Alloc(m, old, length, length), LAMBDA kept :
                   Then(ReleaseRange(kept, elements), LAMBDA freed :
                        Store(freed, b, << >>))),
                   IF b # old THEN [calls[t].locals EXCEPT ![v] = 0]
                              ELSE calls[t].locals,
                   d, b, 0, drops)

\* transfer_roots along an edge: w is a parameter that receives v, keeps are
\* the captures.  A root goes to its first destination, is retained for every
\* other, and is released when it has none.
Jump(t, w, v, keeps) ==
    /\ Works(t)
    /\ v \in Held(t)
    /\ w \notin Held(t)
    /\ TypeOf[w] = TypeOf[v]
    /\ TypeOf[v] = "scratch" => v \notin keeps
    /\ keeps \subseteq Held(t)
    /\ Ends(t,
            Then(Selected(t), LAMBDA m :
            Then(IF v \in keeps THEN Retain(m, Owner(t, v)) ELSE m, LAMBDA shared :
                 ReleaseAll(shared, calls[t].locals, Held(t) \ (keeps \cup {v})))),
            [calls[t] EXCEPT !.locals =
               [Without(@, Held(t) \ keeps) EXCEPT ![w] = Owner(t, v)]])

-----------------------------------------------------------------------------
Init ==
    /\ memory = EmptyMemory
    /\ calls = [t \in Tokens |-> NoCall]
    /\ work = 0

Lengths == 0..MaxLength

\* What an invocation that runs may do next: define d, from values it holds.
Instructions(t, d) ==
    \/ \E drops \in SUBSET {d} :
          \/ TextAppend(t, d, drops)
          \/ Constant(t, d, drops)
          \/ \E n \in Lengths : ScratchNew(t, d, n, drops)
    \/ \E n \in Lengths : \E operands \in [1..n -> Held(t)] :
          \E drops \in SUBSET (Range(operands) \cup {d}) :
             Build(t, d, operands, drops)
    \/ \E v \in Held(t) :
          \/ \E keeps \in SUBSET Held(t) : Jump(t, d, v, keeps)
          \/ \E drops \in SUBSET {d, v} :
                \/ Share(t, d, v, drops)
                \/ FinishScratch(t, d, v, drops)
                \/ RecycleStore(t, d, v, drops)
                \/ \E i \in 1..MaxLength : Read(t, d, v, i, drops)
          \/ \E x \in Held(t) : \E drops \in SUBSET {d, v, x} :
                \/ Push(t, d, v, x, drops)
                \/ \E owned \in BOOLEAN :
                      \/ Grow(t, d, v, x, owned, drops)
                      \/ \E i \in 1..MaxLength :
                            Write(t, d, v, i, x, owned, drops)

Next ==
    \E t \in Tokens :
        \/ \E f \in Functions : EnterCall(t, f)
        \/ HostWrite(t)
        \/ TrapCall(t)
        \/ Cancel(t)
        \/ Finish(t)
        \/ LeaveCall(t)
        \/ \E v \in Held(t) :
              \/ Return(t, v)
              \/ \E drops \in SUBSET {v} : Ask(t, v, drops)
        \/ \E d \in Free(t) :
              \/ \E n \in Lengths : Start(t, d, n) \/ Resume(t, d, n)
              \/ calls[t].stage = "running" /\ work < MaxWork /\ Instructions(t, d)

Spec == Init /\ [][Next]_vars

-----------------------------------------------------------------------------
(* Properties.                                                             *)

Live(b) == memory.class[b] # 0 /\ "FREE" \notin memory.flags[b]
TokenOf(b) == IF memory.scope[b] = 0 THEN 0 ELSE memory.token[memory.scope[b]]
Elements(b) ==
    IF memory.kind[b] = "bytes" THEN << >>
    ELSE SubSeq(memory.payload[b], 1, memory.count[b])

\* The list that starts at first, cut off where it cannot be a list any more.
Listed(first, link) ==
    LET path[n \in 0..MaxBlocks] ==
            IF n = 0 THEN SelectSeq(<<first>>, LAMBDA b : b # 0)
            ELSE LET before == path[n - 1]
                 IN  IF before = << >> \/ link[Last(before)] = 0 THEN before
                     ELSE Append(before, link[Last(before)])
    IN  path[MaxBlocks]
ListsExactly(first, link, blocks) ==
    LET path == Listed(first, link)
    IN  Range(path) = blocks /\ Len(path) = Cardinality(blocks)
BackLinked(first, link, back) ==
    LET path == Listed(first, link)
    IN  \A i \in DOMAIN path : back[path[i]] = IF i = 1 THEN 0 ELSE path[i - 1]

\* Calls of invocations that did not end early hold their references.
Orderly(t) == calls[t].stage \in {"entered", "running", "asked", "returned", "finished"}

\* Every word is in its range, and no call leaves the drop queue or a trap
\* behind.
TypeOK ==
    /\ memory.class \in [Blocks -> 0..ClassCount]
    /\ memory.refs \in [Blocks -> 0..MaxReferences]
    /\ memory.kind \in [Blocks -> {"bytes", "elements", "indirect"}]
    /\ memory.scope \in [Blocks -> 0..MaxScopes]
    /\ memory.flags \in [Blocks -> SUBSET Flag]
    /\ \A f \in {memory.prev, memory.next, memory.auxPrev, memory.auxNext} :
          f \in [Blocks -> Pointer]
    /\ memory.trap = "none" /\ memory.pending = 0 /\ ~memory.dropping
    /\ \A t \in Tokens :
          /\ calls[t].stage \in Stages
          /\ calls[t].locals \in [Locals -> Pointer \cup {None}]
          /\ calls[t].context \in Pointer

\* The links agree with the headers although three lists share the auxiliary
\* ones: a scope lists exactly its blocks, and its temporaries; a class lists
\* exactly its free blocks (take, recycle, temporary, remove_temporary,
\* unlink and leave relink them).
ListsAgree ==
    /\ \A s \in Scopes : memory.token[s] # 0 =>
          /\ ListsExactly(memory.allocations[s], memory.next,
                {b \in Blocks : Live(b) /\ memory.scope[b] = s})
          /\ BackLinked(memory.allocations[s], memory.next, memory.prev)
          /\ ListsExactly(memory.temporaries[s], memory.auxNext,
                {b \in Blocks : /\ Live(b) /\ memory.scope[b] = s
                                /\ "TEMPORARY" \in memory.flags[b]})
          /\ BackLinked(memory.temporaries[s], memory.auxNext, memory.auxPrev)
    /\ \A c \in Classes :
          ListsExactly(memory.freeLists[c], memory.auxNext,
             {b \in Blocks : memory.class[b] = c /\ ~Live(b)})

\* The statistics the host reads are the state of the heap (live_bytes,
\* live_allocations, live_scopes).
StatisticsAgree ==
    /\ memory.liveAllocations = Cardinality({b \in Blocks : Live(b)})
    /\ memory.liveElements =
          Cardinality({<<b, e>> \in Blocks \X (1..Holds(ClassCount)) :
                          Live(b) /\ e <= Holds(memory.class[b])})
    /\ memory.liveScopes = Cardinality({s \in Scopes : memory.token[s] # 0})

\* A block's count is the number of its holders: the locals that hold it, the
\* elements of live blocks that point to it, the temporaries and the context.
\* So a block goes with its last holder, neither earlier nor later (claim,
\* retain, release, transfer_roots and every instruction's drops).
ReferencesExact ==
    \A b \in Blocks : Live(b) /\ TokenOf(b) # 0 =>
        LET t == TokenOf(b)
        IN  Orderly(t) =>
              /\ memory.refs[b] > 0
              /\ memory.refs[b] =
                    References(t, b)
                    + (IF "TEMPORARY" \in memory.flags[b] THEN 1 ELSE 0)
                    + (IF calls[t].context = b THEN 1 ELSE 0)

\* What an invocation can reach is live and in its own scope, so leaving a
\* scope frees nothing that another one uses ("children belong to this same
\* scope").
ReachesLive ==
    /\ \A t \in Tokens : \A v \in Held(t) : Owner(t, v) # 0 =>
          Live(Owner(t, v)) /\ TokenOf(Owner(t, v)) = t
    /\ \A b \in Blocks : Live(b) /\ TokenOf(b) # 0 /\ Orderly(TokenOf(b)) =>
          \A c \in Range(Elements(b)) : c # 0 =>
              Live(c) /\ memory.scope[c] = memory.scope[b]

\* Emitted code never trips the allocator's checks: an invocation traps when
\* memory or a counter runs out, or where the program says so (require_owner,
\* select and alloc's tests of scope, sharing and length).
NoMisuse ==
    \A t \in Tokens : calls[t].cause \in {"none", "memory", "references", "program"}

\* The heap between two entries from the host: headers, lists, statistics and
\* counts agree with each other and with what the calls hold (allocation.rs
\* and managed.rs, as backend.rs uses them).
HeapConsistent ==
    TypeOK /\ ListsAgree /\ StatisticsAgree /\ ReferencesExact /\ ReachesLive

\* A call that ran in one scope, or left it, changes nothing that another
\* scope owns (select before every poll; leave walks one scope's list).
Isolation ==
    [][\A b \in Blocks :
          LET s == memory.scope[b]
          IN  (/\ Live(b) /\ TokenOf(b) # 0
               /\ memory'.current # s
               /\ memory'.token[s] = memory.token[s])
              => /\ memory'.refs[b] = memory.refs[b]
                 /\ memory'.flags[b] = memory.flags[b]
                 /\ memory'.scope[b] = s
                 /\ memory'.kind[b] = memory.kind[b]
                 /\ memory'.count[b] = memory.count[b]
                 /\ memory'.payload[b] = memory.payload[b]]_vars
=============================================================================
