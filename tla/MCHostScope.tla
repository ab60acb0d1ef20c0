---------------------------- MODULE MCHostScope ----------------------------
(***************************************************************************)
(* HostScope for model checking.  One run explores trees of several        *)
(* shapes: a shape, chosen at the start, bounds the scopes and the items   *)
(* that tasks make and names the operations that they use.  It limits only *)
(* what tasks ask for, never a step of close() or of what close() awaits.  *)
(***************************************************************************)
EXTENDS HostScope

VARIABLE shape

\* Everything in a scope and its child; finalizers in a deep tree that is
\* cancelled or traps; three cleanups in a scope and its child.
Shapes ==
  {[scopes |-> 2, items |-> 2, uses |-> Uses],
   [scopes |-> 4, items |-> 2, uses |-> {"onExit", "cancel", "trap"}],
   [scopes |-> 2, items |-> 3, uses |-> {"grant", "onExit"}]}

Keep == UNCHANGED shape

\* A finalizer will need a scope.
RoomInShape ==
  scopes + Cardinality({i \in ItemIds : item[i].state = "registered"})
    < shape.scopes

MayCancel == "cancel" \in shape.uses /\ Keep
MayTrap == "trap" \in shape.uses /\ Keep
MayAdd(use) == use \in shape.uses /\ items < shape.items /\ Keep

ShapedInit == Init /\ shape \in Shapes

TaskStep(s) ==
  \/ NewScope(s) /\ RoomInShape /\ Keep
  \/ Cancel(s) /\ MayCancel
  \/ Trap(s) /\ MayTrap
  \/ Close(s) /\ Keep
  \/ Grant(s) /\ MayAdd("grant")
  \/ OnExit(s) /\ MayAdd("onExit") /\ RoomInShape
  \/ Own(s) /\ MayAdd("own")
  \/ Acquire(s) /\ MayAdd("acquire")

ClosingStep(s) ==
  \/ RunClosers(s) /\ Keep
  \/ CloseChildren(s) /\ Keep
  \/ AwaitPending(s) /\ Keep
  \/ AwaitReleases(s) /\ Keep
  \/ Drains(s) /\ Keep
  \/ FinalizeLease(s) /\ Keep
  \/ FinalizeGuest(s) /\ Keep
  \/ SkipGuest(s) /\ Keep
  \/ Finalized(s) /\ Keep
  \/ Closed(s) /\ Keep

ItemStep(i) ==
  \/ Disown(i) /\ Keep
  \/ Release(i) /\ Keep
  \/ AbortAcquire(i) /\ Keep
  \/ \E registers \in BOOLEAN : Created(i, registers) /\ Keep
  \/ Creates(i) /\ Keep
  \/ AcquireFails(i) /\ Keep
  \/ MaskCloses(i) /\ Keep
  \/ \E fails \in Fails : Disposed(i, fails) /\ Keep
  \/ \E fails \in Fails : CloserEnds(i, fails) /\ Keep
  \/ \E fails \in Fails : FinalizerEnds(i, fails) /\ Keep

ShapedNext ==
  \/ \E s \in ScopeIds : TaskStep(s) \/ ClosingStep(s)
  \/ \E i \in ItemIds : ItemStep(i)

ShapedSpec == ShapedInit /\ [][ShapedNext]_<<vars, shape>> /\ Fairness
=============================================================================
