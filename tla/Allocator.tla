----------------------------- MODULE Allocator -----------------------------
(***************************************************************************)
(* The reference-counting allocator the backend puts into every artifact   *)
(* (compiler/src/backend/allocation.rs).  A memory is a record of the      *)
(* words the code keeps: the header of every block, the scope records, the *)
(* globals.  A function of the allocator is an operator from the memory    *)
(* before to the memory after; the pointer it returns is an operator of    *)
(* its own.  A pointer is a block number, 0 the null pointer.              *)
(*                                                                         *)
(* Blocks carry one element per 16 bytes, so class c holds 2^(c-1) of      *)
(* them.  The payload of a block is the sequence of the pointers stored in *)
(* its initialized elements.  An `unreachable' stops the call with the     *)
(* memory as it is and leaves its cause in the field trap.                 *)
(***************************************************************************)
EXTENDS Naturals, Sequences, FiniteSets, SequencesExt

CONSTANTS
    MaxBlocks,      \* memory.grow fails beyond this many blocks
    MaxScopes,      \* bound: scope records
    ClassCount,     \* size classes
    MaxReferences,  \* the last reference count before it wraps
    MaxToken        \* the last token before the counter wraps

ASSUME AllocatorBounds ==
    {MaxBlocks, MaxScopes, ClassCount, MaxReferences, MaxToken} \subseteq Nat \ {0}

Blocks  == 1..MaxBlocks
Pointer == 0..MaxBlocks
Scopes  == 1..MaxScopes
Classes == 1..ClassCount
Flag    == {"FRESH", "TEMPORARY", "FREE", "QUEUED"}

Holds(class) == 2^(class - 1)

\* The memory of a new instance.
EmptyMemory ==
    [heap |-> 0, class |-> [b \in Blocks |-> 0],
     bytes |-> [b \in Blocks |-> 0], refs |-> [b \in Blocks |-> 0],
     kind |-> [b \in Blocks |-> "bytes"], count |-> [b \in Blocks |-> 0],
     scope |-> [b \in Blocks |-> 0], flags |-> [b \in Blocks |-> {}],
     prev |-> [b \in Blocks |-> 0], next |-> [b \in Blocks |-> 0],
     auxPrev |-> [b \in Blocks |-> 0], auxNext |-> [b \in Blocks |-> 0],
     payload |-> [b \in Blocks |-> << >>],
     token |-> [s \in Scopes |-> 0],
     scopePrev |-> [s \in Scopes |-> 0], scopeNext |-> [s \in Scopes |-> 0],
     allocations |-> [s \in Scopes |-> 0],
     temporaries |-> [s \in Scopes |-> 0],
     scopes |-> 0, current |-> 0, active |-> 0, freeScopes |-> 0,
     nextToken |-> 0, liveElements |-> 0, liveAllocations |-> 0,
     liveScopes |-> 0, pending |-> 0, dropping |-> FALSE,
     freeLists |-> [c \in Classes |-> 0], trap |-> "none"]

Trap(m, cause) == [m EXCEPT !.trap = cause]
Trapped(m) == m.trap # "none"

\* The rest of a call, from the memory so far: a trap cuts it off.
Then(m, Rest(_)) == IF Trapped(m) THEN m ELSE Rest(m)

\* Writing one field of a block or of a scope, which address 0 ignores.
Put(f, at, value) == IF at = 0 THEN f ELSE [f EXCEPT ![at] = value]

-----------------------------------------------------------------------------
(* Blocks.                                                                 *)

\* require_owner.
IsOwner(m, b) ==
    /\ b # 0
    /\ m.flags[b] \cap {"FREE", "QUEUED"} = {}
    /\ m.refs[b] > 0

\* take: the smallest class that fits, from its free list or a new block.
Fitting(size) == {c \in Classes : size <= Holds(c)}
ClassOf(size) == CHOOSE c \in Fitting(size) : \A d \in Fitting(size) : c <= d
TakeOwner(m, size) ==
    IF m.freeLists[ClassOf(size)] # 0 THEN m.freeLists[ClassOf(size)]
                                      ELSE m.heap + 1
Take(m, size) ==
    LET c == ClassOf(size)
        b == TakeOwner(m, size)
    IN  IF Fitting(size) = {} THEN Trap(m, "size")
        ELSE IF m.freeLists[c] # 0
        THEN [m EXCEPT !.freeLists[c] = m.auxNext[b], !.flags[b] = {}]
        ELSE IF m.heap = MaxBlocks THEN Trap(m, "memory")
        ELSE [m EXCEPT !.heap = b, !.class[b] = c]

\* recycle: onto the free list of the block's class.  The words left in the
\* block are not kept: alloc writes every one of them before it is read.
Recycle(m, b) ==
    [m EXCEPT !.flags[b] = {"FREE"},
              !.auxNext[b] = m.freeLists[m.class[b]],
              !.freeLists[m.class[b]] = b,
              !.bytes[b] = 0, !.refs[b] = 0, !.kind[b] = "bytes",
              !.count[b] = 0, !.scope[b] = 0, !.prev[b] = 0, !.next[b] = 0,
              !.auxPrev[b] = 0, !.payload[b] = << >>]

\* temporary: the block joins its scope's temporaries, once.
Temporary(m, b) ==
    LET s == m.scope[b]
        first == m.temporaries[s]
    IN  IF "TEMPORARY" \in m.flags[b] THEN m
        ELSE [m EXCEPT !.auxNext[b] = first,
                       !.auxPrev = Put([m.auxPrev EXCEPT ![b] = 0], first, b),
                       !.temporaries[s] = b,
                       !.flags[b] = (@ \ {"FRESH"}) \cup {"TEMPORARY"}]

RemoveTemporary(m, b) ==
    LET before == m.auxPrev[b]
        after  == m.auxNext[b]
    IN  IF "TEMPORARY" \notin m.flags[b] THEN m
        ELSE [m EXCEPT
                !.temporaries = IF before = 0 THEN Put(@, m.scope[b], after) ELSE @,
                !.auxNext = [Put(@, before, after) EXCEPT ![b] = 0],
                !.auxPrev = [Put(@, after, before) EXCEPT ![b] = 0],
                !.flags[b] = @ \ {"TEMPORARY"}]

\* Mutant: the back link stays.
UnlinkForward(m, b) ==
    LET before == m.prev[b]
        after  == m.next[b]
    IN  [m EXCEPT
           !.allocations = IF before = 0 THEN Put(@, m.scope[b], after) ELSE @,
           !.next = Put(@, before, after),
           !.liveElements = @ - Holds(m.class[b]),
           !.liveAllocations = @ - 1]

\* unlink: out of the scope's allocations, and out of the statistics.
Unlink(m, b) ==
    LET before == m.prev[b]
        after  == m.next[b]
    IN  [m EXCEPT
           !.allocations = IF before = 0 THEN Put(@, m.scope[b], after) ELSE @,
           !.next = Put(@, before, after),
           !.prev = Put(@, after, before),
           !.liveElements = @ - Holds(m.class[b]),
           !.liveAllocations = @ - 1]

\* retain.
Retain(m, b) ==
    IF b = 0 THEN m
    ELSE IF ~IsOwner(m, b) THEN Trap(m, "owner")
    ELSE IF m.refs[b] = MaxReferences THEN Trap(m, "references")
    ELSE [m EXCEPT !.refs[b] = @ + 1]

\* release, up to the loop: the last reference queues the block.
Decrement(m, b) ==
    IF b = 0 THEN m
    ELSE IF ~IsOwner(m, b) THEN Trap(m, "owner")
    ELSE IF m.refs[b] > 1 THEN [m EXCEPT !.refs[b] = @ - 1]
    ELSE [RemoveTemporary([m EXCEPT !.refs[b] = 0], b) EXCEPT
            !.flags[b] = {"QUEUED"}, !.auxNext[b] = m.pending, !.pending = b]

\* drop_children and drop_elements (managed.rs): one release per initialized
\* element, each of which finds `dropping' set and only queues.
DropChildren(m, b) ==
    IF m.kind[b] = "bytes" THEN m
    ELSE FoldLeft(LAMBDA acc, child : Then(acc, LAMBDA n : Decrement(n, child)),
                  m, SubSeq(m.payload[b], 1, m.count[b]))

\* One turn of release's loop.
DropOne(m) ==
    LET b == m.pending
    IN  IF b = 0 THEN m
        ELSE Then(DropChildren([m EXCEPT !.pending = m.auxNext[b]], b),
                  LAMBDA orphaned : Recycle(Unlink(orphaned, b), b))

\* The loop: a block is queued once, so it ends within MaxBlocks turns.
Drain(m) ==
    LET after[n \in 0..MaxBlocks] ==
            IF n = 0 THEN [m EXCEPT !.dropping = TRUE]
            ELSE Then(after[n - 1], DropOne)
    IN  Then(after[MaxBlocks], LAMBDA drained : [drained EXCEPT !.dropping = FALSE])

Release(m, b) ==
    Then(Decrement(m, b), LAMBDA first :
         IF first.pending = m.pending \/ first.dropping THEN first ELSE Drain(first))

\* set_layout.
SetLayout(m, b, kind, count) ==
    IF b = 0 THEN m
    ELSE IF ~IsOwner(m, b) THEN Trap(m, "owner")
    ELSE [m EXCEPT !.kind[b] = kind, !.count[b] = count]

\* claim: the first root takes the fresh reference, every other adds one.
Claim(m, b) ==
    IF b = 0 THEN m
    ELSE IF ~IsOwner(m, b) THEN Trap(m, "owner")
    ELSE IF "FRESH" \in m.flags[b] THEN [m EXCEPT !.flags[b] = @ \ {"FRESH"}]
    ELSE Retain(m, b)

-----------------------------------------------------------------------------
(* alloc: allocates, or resizes old, in the current scope.                 *)

\* A new block at the head of the scope's allocations.
Allocate(m, size) ==
    LET b == TakeOwner(m, size)
        s == m.current
        first == m.allocations[s]
    IN  Then(Take(m, size), LAMBDA taken :
          [taken EXCEPT
             !.bytes[b] = size, !.refs[b] = 1, !.kind[b] = "bytes",
             !.count[b] = 0, !.scope[b] = s, !.flags[b] = {"FRESH"},
             !.prev = Put([@ EXCEPT ![b] = 0], first, b),
             !.next[b] = first, !.auxPrev[b] = 0, !.auxNext[b] = 0,
             !.allocations[s] = b,
             !.liveElements = @ + Holds(taken.class[b]),
             !.liveAllocations = @ + 1])

AllocOwner(m, old, size) ==
    IF size = 0 THEN 0
    ELSE IF old # 0 /\ size <= Holds(m.class[old]) THEN old
    ELSE TakeOwner(m, size)

\* What a resize moves into the new block: the payload, the layout, and with
\* them every reference the elements hold.
Moved(m, old, length, size, b) ==
    Then(Allocate(m, size), LAMBDA grown :
         Release([grown EXCEPT
                    !.payload[b] = SubSeq(m.payload[old], 1,
                       Min({Len(m.payload[old]), length, size})),
                    !.kind[b] = m.kind[old], !.count[b] = m.count[old],
                    !.kind[old] = "bytes"], old))

Alloc(m, old, length, size) ==
    IF m.current = 0 THEN Trap(m, "scope")
    ELSE IF old # 0 /\ ~IsOwner(m, old) THEN Trap(m, "owner")
    ELSE IF old # 0 /\ m.scope[old] # m.current THEN Trap(m, "scope")
    ELSE IF old # 0 /\ m.refs[old] # 1 THEN Trap(m, "shared")
    ELSE IF old # 0 /\ length > Holds(m.class[old]) THEN Trap(m, "length")
    ELSE IF size = 0 THEN (IF old = 0 THEN m ELSE Release(m, old))
    ELSE IF old = 0 THEN Allocate(m, size)
    ELSE IF size <= Holds(m.class[old]) THEN [m EXCEPT !.bytes[old] = size]
    ELSE Moved(m, old, length, size, AllocOwner(m, old, size))

-----------------------------------------------------------------------------
(* Scopes.                                                                 *)

\* The scope records from first on, along scopeNext.
ScopesFrom(m, first) ==
    LET reached[n \in 0..MaxScopes] ==
            IF n = 0 THEN {first} \ {0}
            ELSE LET before == reached[n - 1]
                 IN  before \cup ({m.scopeNext[s] : s \in before} \ {0})
    IN  reached[MaxScopes]

ScopeOf(m, token) ==
    {s \in ScopesFrom(m, m.active) : m.token[s] = token /\ token # 0}

\* select.
Select(m, token) ==
    IF ScopeOf(m, token) = {} THEN Trap(m, "token")
    ELSE [m EXCEPT !.current = CHOOSE s \in ScopeOf(m, token) : TRUE]

\* enter.
EnterToken(m) == m.nextToken + 1
Enter(m) ==
    LET s == IF m.freeScopes # 0 THEN m.freeScopes ELSE m.scopes + 1
    IN  IF m.nextToken = MaxToken THEN Trap(m, "token")
        ELSE IF s > MaxScopes THEN Trap([m EXCEPT !.nextToken = @ + 1], "memory")
        ELSE [m EXCEPT
                !.nextToken = @ + 1,
                !.freeScopes = IF @ # 0 THEN m.scopeNext[s] ELSE 0,
                !.scopes = IF m.freeScopes # 0 THEN @ ELSE s,
                !.token[s] = m.nextToken + 1,
                !.scopeNext[s] = m.active,
                !.scopePrev = Put([@ EXCEPT ![s] = 0], m.active, s),
                !.allocations[s] = 0, !.temporaries[s] = 0,
                !.active = s, !.current = s, !.liveScopes = @ + 1]

\* leave: every allocation of the scope s goes, without destructors; then the
\* scope's record.
FreeFirst(m, s) ==
    LET b == m.allocations[s]
    IN  IF b = 0 THEN m ELSE Recycle(Unlink(m, b), b)
Emptied(m, s) ==
    LET emptied[n \in 0..MaxBlocks] ==
            IF n = 0 THEN m ELSE FreeFirst(emptied[n - 1], s)
    IN  emptied[MaxBlocks]
Closed(m, s) ==
    LET before == m.scopePrev[s]
        after  == m.scopeNext[s]
    IN  [m EXCEPT
           !.active = IF before = 0 THEN after ELSE @,
           !.scopeNext = [Put(@, before, after) EXCEPT ![s] = m.freeScopes],
           !.scopePrev = Put(@, after, before),
           !.token[s] = 0, !.freeScopes = s, !.current = 0,
           !.liveScopes = @ - 1, !.pending = 0, !.dropping = FALSE]
Leave(m, token) ==
    Then(Select(m, token), LAMBDA selected :
         Closed(Emptied(selected, selected.current), selected.current))

\* clear_temporaries.
ClearFirst(m) ==
    LET b == m.temporaries[m.current]
    IN  IF b = 0 THEN m ELSE Release(RemoveTemporary(m, b), b)
ClearTemporaries(m, token) ==
    LET cleared[n \in 0..MaxBlocks] ==
            IF n = 0 THEN Select(m, token) ELSE Then(cleared[n - 1], ClearFirst)
    IN  cleared[MaxBlocks]

\* realloc, the host's way in (it never passes a block to resize).
Realloc(m, token, size) ==
    Then(Then(Select(m, token), LAMBDA selected : Alloc(selected, 0, 0, size)),
         LAMBDA grown :
            IF size = 0 THEN grown ELSE Temporary(grown, AllocOwner(m, 0, size)))
=============================================================================
