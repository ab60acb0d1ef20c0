----------------------------- MODULE HostScope -----------------------------
(***************************************************************************)
(* src/resources.ts: the tree of host scopes.  A scope owns leases, guest  *)
(* finalizers, closers, pending acquisitions and child scopes, and close() *)
(* ends them all, one kind after the other.                                *)
(*                                                                         *)
(* Everything runs on one JavaScript thread: what happens between two      *)
(* awaits is one step.  What the scope calls and awaits (disposers,        *)
(* closers, acquisitions, guest finalizers) belongs to others, and ends in *)
(* steps of its own, while any task may go on using any open scope.        *)
(*                                                                         *)
(* Scopes and items are numbered as they are made.  An item is a lease, a  *)
(* finalizer or a closer.                                                  *)
(***************************************************************************)
EXTENDS Integers, FiniteSets, Queue

CONSTANTS
  MaxScopes,  \* bound: scopes ever made
  MaxItems,   \* bound: leases, finalizers and closers ever made
  Uses        \* the operations that the tasks of an instance use

ASSUME BoundAssumption == MaxScopes \in Nat \ {0} /\ MaxItems \in Nat
ASSUME UsesAssumption ==
  Uses \subseteq {"grant", "onExit", "own", "acquire", "cancel", "trap",
                    "fail"}

ScopeIds == 1..MaxScopes
ItemIds  == 1..MaxItems

Root    == 1
NoScope == 0
NoItem  == 0

VARIABLES
  scopes,    \* scopes made so far
  scope,     \* HostScope objects
  items,     \* items made so far
  item,      \* leases, finalizers and closers, and what became of them
  cleanups,  \* the list that ends in #lastCleanup, oldest first
  releases,  \* #releases
  waits,     \* what the current Promise.all of close() waits for
  current    \* the cleanup that close() waits for

vars == <<scopes, scope, items, item, cleanups, releases, waits, current>>
closeVars == <<waits, current>>

(***************************************************************************)
(* `stage` is #phase and what close() awaits.  "releases" is an await of   *)
(* drainReleases that has still to look at #releases, "drained" the same   *)
(* await when drainReleases has returned and close() has not yet gone on,  *)
(* and "finalizing" an await of a cleanup.  #phase is "draining" up to the *)
(* first cleanup and "finalizing" from there on; nothing reads the         *)
(* difference while no cleanup runs.  `above` are the proper ancestors,    *)
(* `owner` is #cleanupOwner, `guest` is #guestFinalizers, and `failed`     *)
(* whether `failures` is not empty.                                        *)
(***************************************************************************)
Stage == {"unused", "open", "scheduled", "closers", "children", "pending",
          "releases", "drained", "finalizing", "closed"}

Scope == [parent : ScopeIds \union {NoScope}, above : SUBSET ScopeIds,
          owner : ScopeIds \union {NoScope}, stage : Stage,
          aborted : BOOLEAN, guest : BOOLEAN, failed : BOOLEAN]

(***************************************************************************)
(* A lease is "requested", "creating" and perhaps "discarding" while it is *)
(* an acquisition in #pending, then "live", then "releasing".  A finalizer *)
(* is "registered", "running", then "closing" its masked scope.  A closer  *)
(* is "owned", then "running".  `older` remembers the cleanups that were   *)
(* registered before, here and in the scopes above, `exit` that it was     *)
(* close() that ended the item, and `late` that the release of a lease     *)
(* began when the last drainReleases of its scope had returned.            *)
(***************************************************************************)
Item == [kind : {"none", "lease", "finalizer", "closer"},
         scope : ScopeIds \union {NoScope},
         state : {"none", "requested", "creating", "discarding", "live",
                  "releasing", "registered", "running", "closing", "owned",
                  "over"},
         aborted : BOOLEAN, failed : BOOLEAN, exit : BOOLEAN, late : BOOLEAN,
         older : SUBSET ItemIds, mask : ScopeIds \union {NoScope}]

\* Types; a list holds at most the items there are.
TypeOK ==
  /\ scopes \in ScopeIds /\ scope \in [ScopeIds -> Scope]
  /\ items \in 0..MaxItems /\ item \in [ItemIds -> Item]
  /\ cleanups \in [ScopeIds -> Seq(ItemIds)]
  /\ releases \in [ScopeIds -> SUBSET ItemIds]
  /\ waits \in [ScopeIds -> SUBSET (ScopeIds \union ItemIds)]
  /\ current \in [ScopeIds -> ItemIds \union {NoItem}]

NewScopeRecord(p, owner) ==
  [parent |-> p, owner |-> owner, stage |-> "open",
   above |-> IF p = NoScope THEN {} ELSE scope[p].above \union {p},
   aborted |-> FALSE, guest |-> TRUE, failed |-> FALSE]

NoScopeRecord == [parent |-> NoScope, owner |-> NoScope, stage |-> "unused",
                  above |-> {}, aborted |-> FALSE, guest |-> TRUE,
                  failed |-> FALSE]

NoItemRecord == [kind |-> "none", scope |-> NoScope, state |-> "none",
                 aborted |-> FALSE, failed |-> FALSE, exit |-> FALSE,
                 late |-> FALSE, older |-> {}, mask |-> NoScope]

Init ==
  /\ scopes = 1
  /\ scope = [s \in ScopeIds |->
                IF s = Root THEN [NoScopeRecord EXCEPT !.stage = "open"]
                ELSE NoScopeRecord]
  /\ items = 0 /\ item = [i \in ItemIds |-> NoItemRecord]
  /\ cleanups = [s \in ScopeIds |-> <<>>]
  /\ releases = [s \in ScopeIds |-> {}]
  /\ waits = [s \in ScopeIds |-> {}]
  /\ current = [s \in ScopeIds |-> NoItem]

-----------------------------------------------------------------------------
(* The tree *)

\* s.isWithin(a)
IsWithin(s, a) == a = s \/ a \in scope[s].above

Chain(s) == scope[s].above \union {s}

\* s was made by onExit, for a finalizer of its parent.
Masked(s) == scope[s].parent # NoScope /\ scope[s].owner = scope[s].parent

\* assertOpen returns.
AssertOpen(s) == scope[s].stage = "open" /\ ~scope[s].aborted

\* #children
Children(s) ==
  {c \in ScopeIds : scope[c].parent = s /\ scope[c].stage # "closed"}

\* Mutant: cancellation does not stop at the scope of a running finalizer.
ReachedAll(s) == {d \in ScopeIds : IsWithin(d, s)}

(***************************************************************************)
(* cancel visits s and its descendants, except masked scopes and what is   *)
(* below them.                                                             *)
(***************************************************************************)
Reached(s) ==
  {d \in ScopeIds :
     /\ IsWithin(d, s)
     /\ \A x \in Chain(d) : Masked(x) => ~(s \in scope[x].above)}

\* The scopes S are cancelled.
Abort(table, S) ==
  [d \in ScopeIds |-> IF d \in UNION {Reached(s) : s \in S}
                      THEN [table[d] EXCEPT !.aborted = TRUE] ELSE table[d]]

\* Mutant: close() takes a cancelled scope for one that is closing already.
BeginCloseCancelled(S) ==
  LET fresh == {d \in S : ~scope[d].aborted}
  IN  Abort([d \in ScopeIds |-> IF d \in fresh
                                THEN [scope[d] EXCEPT !.stage = "scheduled"]
                                ELSE scope[d]], fresh)

\* close() of the scopes S, up to its first await.
BeginClose(S) ==
  Abort([d \in ScopeIds |-> IF d \in S
                            THEN [scope[d] EXCEPT !.stage = "scheduled"]
                            ELSE scope[d]], S)

(***************************************************************************)
(* The bound on scopes keeps one for every registered finalizer, so that   *)
(* it never stands in the way of close().                                  *)
(***************************************************************************)
RoomForScope ==
  scopes + Cardinality({i \in ItemIds : item[i].state = "registered"})
    < MaxScopes

NewScope(p) ==
  /\ AssertOpen(p) /\ RoomForScope
  /\ scopes' = scopes + 1
  /\ scope' = [scope EXCEPT ![scopes + 1] =
                 NewScopeRecord(p, scope[p].owner)]
  /\ UNCHANGED <<items, item, cleanups, releases, closeVars>>

Cancel(s) ==
  /\ "cancel" \in Uses
  /\ scope[s].stage # "unused" /\ ~Masked(s) /\ ~scope[s].aborted
  /\ scope' = Abort(scope, {s})
  /\ UNCHANGED <<scopes, items, item, cleanups, releases, closeVars>>

\* Mutant: only the scope itself forgets its finalizers.
ReclaimedShallow(s) ==
  [d \in ScopeIds |-> [Abort(scope, {s})[d] EXCEPT !.guest = @ /\ d # s]]

\* reclaimAfterTrap: no finalizer of s or below runs any more.
Reclaimed(s) ==
  [d \in ScopeIds |->
     IF IsWithin(d, s)
     THEN [scope[d] EXCEPT !.guest = FALSE, !.aborted = TRUE] ELSE scope[d]]

Trap(s) ==
  /\ "trap" \in Uses
  /\ scope[s].stage \notin {"unused", "closed"} /\ ~Masked(s)
  /\ scope[s].guest
  /\ scope' = Reclaimed(s)
  /\ UNCHANGED <<scopes, items, item, cleanups, releases, closeVars>>

-----------------------------------------------------------------------------
(* Items *)

NewItem == items + 1

\* One more item of scope s, in its first state.
Make(s, kind, state) ==
  [NoItemRecord EXCEPT !.kind = kind, !.scope = s, !.state = state]

\* What is registered in s or above it.
Registered(s) ==
  {i \in ItemIds : \E x \in Chain(s) : Linked(cleanups[x], i)}

\* #appendCleanup for item i of scope s, whose record becomes r.
AppendCleanup(i, s, r) ==
  /\ item' = [item EXCEPT ![i] = [r EXCEPT !.older = Registered(s)]]
  /\ cleanups' = [cleanups EXCEPT ![s] = Push(@, i)]

\* A task adds an item to s.
Admit(s, use) ==
  /\ use \in Uses /\ AssertOpen(s)
  /\ items < MaxItems /\ items' = NewItem

Grant(s) ==
  /\ Admit(s, "grant")
  /\ AppendCleanup(NewItem, s, Make(s, "lease", "live"))
  /\ UNCHANGED <<scopes, scope, releases, closeVars>>

OnExit(s) ==
  /\ Admit(s, "onExit") /\ RoomForScope
  /\ AppendCleanup(NewItem, s, Make(s, "finalizer", "registered"))
  /\ UNCHANGED <<scopes, scope, releases, closeVars>>

Own(s) ==
  /\ Admit(s, "own")
  /\ item' = [item EXCEPT ![NewItem] = Make(s, "closer", "owned")]
  /\ UNCHANGED <<scopes, scope, cleanups, releases, closeVars>>

\* Item i has come to its end; only its failure is still of interest.
Ended(i, fails) ==
  [item EXCEPT ![i].state = "over", ![i].failed = fails, ![i].older = {},
               ![i].mask = NoScope, ![i].aborted = FALSE]

\* The function that own returned: the closer is forgotten.
Disown(i) ==
  /\ item[i].state = "owned"
  /\ item' = Ended(i, FALSE)
  /\ UNCHANGED <<scopes, scope, items, cleanups, releases, closeVars>>

\* Mutant: the cleanup of a released lease stays in the list.
UnlinkedNot(i) == cleanups

Unlinked(i) == [cleanups EXCEPT ![item[i].scope] = Unlink(@, i)]

(***************************************************************************)
(* releaseResource: authority and registration are gone before the         *)
(* disposer is called.                                                     *)
(***************************************************************************)
ReleaseResource(i, byExit) ==
  /\ item' = [item EXCEPT
                ![i].state = "releasing", ![i].exit = byExit,
                ![i].late = ~byExit /\ scope[item[i].scope].stage = "drained"]
  /\ cleanups' = Unlinked(i)
  /\ releases' = [releases EXCEPT ![item[i].scope] = @ \union {i}]

\* family.release, which looks only at the state of the lease.
Release(i) ==
  /\ item[i].kind = "lease" /\ item[i].state = "live"
  /\ ReleaseResource(i, FALSE)
  /\ UNCHANGED <<scopes, scope, items, closeVars>>

(***************************************************************************)
(* A disposer settles.  While the scope is open its entry in #releases     *)
(* goes with it and a failure is only the caller's; afterwards close() has *)
(* to collect both.                                                        *)
(***************************************************************************)
Disposed(i, fails) ==
  LET s == item[i].scope
      open == scope[s].stage = "open"
  IN  /\ item[i].state = "releasing"
      /\ item' = Ended(i, fails /\ ~open)
      /\ releases' = IF open THEN [releases EXCEPT ![s] = @ \ {i}]
                     ELSE releases
      /\ UNCHANGED <<scopes, scope, items, cleanups, closeVars>>

-----------------------------------------------------------------------------
(* Acquisitions *)

InProgress(i) ==
  item[i].kind = "lease"
    /\ item[i].state \in {"requested", "creating", "discarding"}

\* The acquisition's own controller.
Aborted(i) == item[i].aborted \/ scope[item[i].scope].aborted

Acquire(s) ==
  /\ Admit(s, "acquire")
  /\ item' = [item EXCEPT ![NewItem] = Make(s, "lease", "requested")]
  /\ UNCHANGED <<scopes, scope, cleanups, releases, closeVars>>

AbortAcquire(i) ==
  /\ InProgress(i) /\ ~Aborted(i)
  /\ item' = [item EXCEPT ![i].aborted = TRUE]
  /\ UNCHANGED <<scopes, scope, items, cleanups, releases, closeVars>>

Creates(i) ==
  /\ item[i].state = "requested"
  /\ item' = IF Aborted(i) THEN Ended(i, FALSE)
             ELSE [item EXCEPT ![i].state = "creating"]
  /\ UNCHANGED <<scopes, scope, items, cleanups, releases, closeVars>>

\* The value comes too late to be granted.
Late(i) == Aborted(i)

(***************************************************************************)
(* create returns.  A value that comes late, or that cannot be registered, *)
(* is disposed by the acquisition itself.                                  *)
(***************************************************************************)
Created(i, registers) ==
  LET s == item[i].scope
  IN  /\ item[i].state = "creating"
      /\ IF registers /\ ~Late(i)
         THEN AppendCleanup(i, s, [item[i] EXCEPT !.state = "live"])
         ELSE /\ item' = [item EXCEPT ![i].state = "discarding"]
              /\ UNCHANGED cleanups
      /\ UNCHANGED <<scopes, scope, items, releases, closeVars>>

\* create rejects, or the value that came late has been disposed.
AcquireFails(i) ==
  /\ item[i].state \in {"creating", "discarding"}
  /\ item' = Ended(i, FALSE)
  /\ UNCHANGED <<scopes, scope, items, cleanups, releases, closeVars>>

-----------------------------------------------------------------------------
(* close() *)

Close(s) ==
  /\ scope[s].stage = "open" /\ ~Masked(s)
  /\ scope' = BeginClose({s})
  /\ UNCHANGED <<scopes, items, item, cleanups, releases, closeVars>>

Over(i) == item[i].state = "over"

Failures(I) == \E i \in I : item[i].failed

\* s goes on to a stage, knowing more failures or not.
Enter(table, s, stage, fails) ==
  [table EXCEPT ![s].stage = stage, ![s].failed = @ \/ fails]

RunClosers(s) ==
  LET closers == {i \in ItemIds : item[i].scope = s /\ item[i].state = "owned"}
  IN  /\ scope[s].stage = "scheduled"
      /\ scope' = Enter(scope, s, "closers", FALSE)
      /\ item' = [i \in ItemIds |->
                    IF i \in closers THEN [item[i] EXCEPT !.state = "running"]
                    ELSE item[i]]
      /\ waits' = [waits EXCEPT ![s] = closers]
      /\ UNCHANGED <<scopes, items, cleanups, releases, current>>

CloserEnds(i, fails) ==
  /\ item[i].kind = "closer" /\ item[i].state = "running"
  /\ item' = Ended(i, fails)
  /\ UNCHANGED <<scopes, scope, items, cleanups, releases, closeVars>>

\* Mutant: children that are closing already are not waited for.
AwaitedOpen(s) == {c \in Children(s) : scope[c].stage = "open"}

\* The children whose close() is awaited.
Awaited(s) == Children(s)

CloseChildren(s) ==
  /\ scope[s].stage = "closers" /\ \A i \in waits[s] : Over(i)
  /\ scope' = Enter(BeginClose({c \in Children(s) : scope[c].stage = "open"}),
                    s, "children", Failures(waits[s]))
  /\ waits' = [waits EXCEPT ![s] = Awaited(s)]
  /\ UNCHANGED <<scopes, items, item, cleanups, releases, current>>

\* #pending
Acquisitions(s) == {i \in ItemIds : item[i].scope = s /\ InProgress(i)}

AwaitPending(s) ==
  /\ scope[s].stage = "children"
  /\ \A c \in waits[s] : scope[c].stage = "closed"
  /\ scope' = Enter(scope, s, "pending", \E c \in waits[s] : scope[c].failed)
  /\ waits' = [waits EXCEPT ![s] = Acquisitions(s)]
  /\ UNCHANGED <<scopes, items, item, cleanups, releases, current>>

\* The failures of acquisitions are their callers' too; they are left out.
AwaitReleases(s) ==
  /\ scope[s].stage = "pending" /\ \A i \in waits[s] : ~InProgress(i)
  /\ scope' = Enter(scope, s, "releases", FALSE)
  /\ waits' = [waits EXCEPT ![s] = {}]
  /\ UNCHANGED <<scopes, items, item, cleanups, releases, current>>

\* Nothing is being released.
Drained(s) == \A i \in releases[s] : Over(i)

\* Mutant: the failures that drainReleases has met are lost.
CollectedNot(s) == FALSE

Collected(s) == Failures(releases[s])

(***************************************************************************)
(* drainReleases finds #releases empty and returns.  close() goes on in a  *)
(* microtask of its own, and does not look again.                          *)
(***************************************************************************)
Drains(s) ==
  /\ scope[s].stage = "releases" /\ Drained(s)
  /\ scope' = Enter(scope, s, "drained", Collected(s))
  /\ releases' = [releases EXCEPT ![s] = {}]
  /\ UNCHANGED <<scopes, items, item, cleanups, closeVars>>

\* Mutant: the oldest cleanup first.
LastCleanupFirst(s) == cleanups[s][1]

LastCleanup(s) == cleanups[s][Len(cleanups[s])]

\* The loop of close() takes the last cleanup, i.
Finalizes(s, i) ==
  /\ scope[s].stage = "drained" /\ cleanups[s] # <<>>
  /\ i = LastCleanup(s)
  /\ current' = [current EXCEPT ![s] = i]

FinalizeLease(s) ==
  \E i \in ItemIds :
    /\ Finalizes(s, i) /\ item[i].kind = "lease"
    /\ ReleaseResource(i, TRUE)
    /\ scope' = Enter(scope, s, "finalizing", FALSE)
    /\ UNCHANGED <<scopes, items, waits>>

\* A guest finalizer starts in a masked scope of its own.
FinalizeGuest(s) ==
  \E i \in ItemIds :
    /\ Finalizes(s, i) /\ item[i].kind = "finalizer" /\ scope[s].guest
    /\ scopes' = scopes + 1
    /\ scope' = [Enter(scope, s, "finalizing", FALSE) EXCEPT
                   ![scopes + 1] = NewScopeRecord(s, s)]
    /\ item' = [item EXCEPT ![i].state = "running", ![i].exit = TRUE,
                            ![i].mask = scopes + 1]
    /\ cleanups' = Unlinked(i)
    /\ UNCHANGED <<items, releases, waits>>

\* After a trap finalizers are dropped.
SkipGuest(s) ==
  \E i \in ItemIds :
    /\ Finalizes(s, i) /\ item[i].kind = "finalizer" /\ ~scope[s].guest
    /\ item' = [Ended(i, FALSE) EXCEPT ![i].exit = TRUE]
    /\ cleanups' = Unlinked(i)
    /\ scope' = Enter(scope, s, "finalizing", FALSE)
    /\ UNCHANGED <<scopes, items, releases, waits>>

\* The finalizer returns or throws; either way its scope is closed.
FinalizerEnds(i, fails) ==
  /\ item[i].kind = "finalizer" /\ item[i].state = "running"
  /\ item' = [item EXCEPT ![i].state = "closing", ![i].failed = fails]
  /\ scope' = BeginClose({item[i].mask})
  /\ UNCHANGED <<scopes, items, cleanups, releases, closeVars>>

MaskCloses(i) ==
  /\ item[i].state = "closing" /\ scope[item[i].mask].stage = "closed"
  /\ item' = Ended(i, item[i].failed \/ scope[item[i].mask].failed)
  /\ UNCHANGED <<scopes, scope, items, cleanups, releases, closeVars>>

\* The cleanup that the loop awaits is over, and drainReleases is called.
Finalized(s) ==
  /\ scope[s].stage = "finalizing" /\ Over(current[s])
  /\ scope' = Enter(scope, s, "releases", item[current[s]].failed)
  /\ releases' = [releases EXCEPT ![s] = @ \ {current[s]}]
  /\ current' = [current EXCEPT ![s] = NoItem]
  /\ UNCHANGED <<scopes, items, item, cleanups, waits>>

\* No cleanup is left.  What is in #releases by now stays there.
Closed(s) ==
  /\ scope[s].stage = "drained" /\ cleanups[s] = <<>>
  /\ scope' = Enter(scope, s, "closed", FALSE)
  /\ UNCHANGED <<scopes, items, item, cleanups, releases, closeVars>>

-----------------------------------------------------------------------------
\* The steps of close() itself.
Closing(s) ==
  \/ RunClosers(s) \/ CloseChildren(s) \/ AwaitPending(s) \/ AwaitReleases(s)
  \/ Drains(s) \/ FinalizeLease(s) \/ FinalizeGuest(s) \/ SkipGuest(s)
  \/ Finalized(s) \/ Closed(s)

\* Whether what a host supplies may fail.
Fails == {FALSE} \union {"fail" \in Uses}

\* What the scope has called comes to its end.
Ending(i) ==
  \/ Creates(i) \/ AcquireFails(i) \/ MaskCloses(i)
  \/ \E fails \in Fails :
       Disposed(i, fails) \/ CloserEnds(i, fails) \/ FinalizerEnds(i, fails)

Next ==
  \/ \E s \in ScopeIds :
       \/ NewScope(s) \/ Cancel(s) \/ Trap(s) \/ Close(s)
       \/ Grant(s) \/ OnExit(s) \/ Own(s) \/ Acquire(s)
       \/ Closing(s)
  \/ \E i \in ItemIds :
       \/ Disown(i) \/ Release(i) \/ AbortAcquire(i)
       \/ \E registers \in BOOLEAN : Created(i, registers)
       \/ Ending(i)

Spec == Init /\ [][Next]_vars

(***************************************************************************)
(* Promises that have settled are continued; the disposers, closers,       *)
(* acquisitions and finalizers that a host supplies end.                   *)
(***************************************************************************)
Fairness ==
  /\ \A s \in ScopeIds : WF_vars(Closing(s))
  /\ \A i \in ItemIds : WF_vars(Ending(i))

FairSpec == Spec /\ Fairness

-----------------------------------------------------------------------------
(* Properties *)

(***************************************************************************)
(* The cleanup list holds exactly the live leases and the registered       *)
(* finalizers of its scope, each once, so releaseResource never throws     *)
(* "resource lease is absent from its owning scope", which close() would   *)
(* not survive; a release in progress is in #releases of its scope.        *)
(***************************************************************************)
ListsAgree ==
  \A s \in ScopeIds :
    /\ Distinct(cleanups[s])
    /\ \A i \in ItemIds :
         /\ Linked(cleanups[s], i) <=>
              item[i].scope = s /\ item[i].state \in {"live", "registered"}
         /\ item[i].scope = s /\ item[i].state = "releasing"
              => i \in releases[s]

(***************************************************************************)
(* Scopes and items are well formed and the lists of a scope agree with    *)
(* them (#appendCleanup, #removeCleanup, releaseResource).                 *)
(***************************************************************************)
ScopesAgree == TypeOK /\ ListsAgree

(***************************************************************************)
(* close() has not seen the release of i, which began after drainReleases  *)
(* looked at #releases for the last time.                                  *)
(***************************************************************************)
Slipped(i) == item[i].late /\ i \in releases[item[i].scope]

(***************************************************************************)
(* "Scope exit stops admission, cancels and drains descendants"            *)
(* (LANGUAGE.md), and only then revokes: in a scope whose close() has      *)
(* reached its releases no acquisition or closer is under way and no child *)
(* is left but the scope of the finalizer that runs; in a closed scope     *)
(* nothing is left but a disposal that slipped.                            *)
(***************************************************************************)
Unfinished(s) == {i \in ItemIds : item[i].scope = s /\ ~Over(i)}

NothingOutlives ==
  \A s \in ScopeIds :
    /\ scope[s].stage \in {"releases", "drained", "finalizing"} =>
         /\ \A c \in Children(s) : Masked(c)
         /\ \A i \in Unfinished(s) :
              item[i].kind # "closer" /\ ~InProgress(i)
    /\ scope[s].stage = "closed" =>
         Children(s) = {} /\ \A i \in Unfinished(s) : Slipped(i)

(***************************************************************************)
(* "then runs releases in reverse acquisition order" (LANGUAGE.md): when   *)
(* close() ends an item, whatever was registered after it, in its scope or *)
(* below, is over, the asynchronous part of its disposal included, unless  *)
(* it slipped.                                                             *)
(***************************************************************************)
ReverseOrder ==
  \A i, k \in ItemIds :
    (item[i].exit /\ i \in item[k].older) => Over(k) \/ Slipped(k)

(***************************************************************************)
(* The same without the exception, as LANGUAGE.md has it.  The code lets a *)
(* release slip between the last look of drainReleases and the next        *)
(* cleanup (close in resources.ts).                                        *)
(***************************************************************************)
ReleasesReversed ==
  \A i, k \in ItemIds : (item[i].exit /\ i \in item[k].older) => Over(k)

(***************************************************************************)
(* "Releases may suspend and run without the cancelled operation signal"   *)
(* (LANGUAGE.md): the masked scope of a running finalizer is not cancelled *)
(* by anything that happens to the scopes above it, short of a trap.       *)
(***************************************************************************)
MaskHolds ==
  \A i \in ItemIds :
    item[i].kind = "finalizer" /\ item[i].state = "running"
      => scope[item[i].mask].stage = "open"
           /\ (scope[item[i].mask].aborted => ~scope[item[i].mask].guest)

\* Mutant: a lease is dead once its scope is cancelled.
CheckLeaseAborted(s, i) ==
  item[i].state = "live" /\ ~scope[item[i].scope].aborted
    /\ IsWithin(s, item[i].scope)

\* #checkLease: scope s may use lease i.
CheckLease(s, i) ==
  LET owner == item[i].scope
      cleanup == /\ scope[s].owner # NoScope
                 /\ IsWithin(scope[s].owner, owner)
                 /\ scope[owner].stage # "closed"
  IN  /\ item[i].state = "live"
      /\ scope[owner].aborted => cleanup
      /\ IsWithin(s, owner)

(***************************************************************************)
(* A running finalizer, and every open scope below its own, can use all    *)
(* the leases that were there when it was registered and that nobody has   *)
(* released by hand, although every one of those scopes is cancelled.      *)
(***************************************************************************)
FinalizersServed ==
  \A i, l \in ItemIds :
    (/\ item[i].kind = "finalizer" /\ item[i].state = "running"
     /\ l \in item[i].older /\ item[l].kind = "lease"
     /\ item[l].exit \/ item[l].state = "live")
    => \A s \in ScopeIds :
         IsWithin(s, item[i].mask) /\ AssertOpen(s) => CheckLease(s, l)

(***************************************************************************)
(* "This host cleanup does not execute arbitrary Blot finalizers after a   *)
(* trap" (LANGUAGE.md): a scope inside one that was reclaimed after a trap *)
(* never starts a finalizer, also when it or the finalizer is younger.     *)
(***************************************************************************)
NoGuestAfterTrap ==
  [][\A i \in ItemIds :
       item[i].state = "registered" /\ item'[i].state = "running"
         => \A s \in Chain(item[i].scope) : scope[s].guest]_vars

(***************************************************************************)
(* "Cleanup continues after failures and reports them" (LANGUAGE.md): the  *)
(* promise of close() rejects if a closer or a finalizer has failed, or a  *)
(* disposer that had not settled when close() was called and did not slip. *)
(***************************************************************************)
FailuresReported ==
  \A s \in ScopeIds : scope[s].stage = "closed" =>
    \A i \in ItemIds : item[i].scope = s /\ item[i].failed =>
      scope[s].failed \/ Slipped(i)

(***************************************************************************)
(* Every close() ends, whoever else closes, cancels, releases or traps     *)
(* meanwhile above, below or in the scope itself.  Scopes are finitely     *)
(* many and never open again, so it is enough that time and again none is  *)
(* closing.                                                                *)
(***************************************************************************)
ScopeCloses ==
  []<>(\A s \in ScopeIds : scope[s].stage \in {"unused", "open", "closed"})
=============================================================================
