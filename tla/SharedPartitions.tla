-------------------------- MODULE SharedPartitions --------------------------
(***************************************************************************)
(* src/shared.ts: shared numeric storage that host handles split, rejoin   *)
(* and lend to worker kernels, and src/shared_memory.ts, the view a kernel *)
(* has of what it was lent.                                                *)
(*                                                                         *)
(* Split and join await nothing and are one step each.  Shared.run is two: *)
(* it claims its partitions and submits a required job, and it continues   *)
(* once that job has settled and its scope has drained.  In between the    *)
(* kernel runs in a worker, in parallel with the host.  What the pool does *)
(* with the job is the business of WorkerPool: it settles a job only when  *)
(* no worker executes it any more.                                         *)
(***************************************************************************)
EXTENDS Integers, Sequences, FiniteSets

CONSTANTS
  Allocations,    \* buffers that the program may allocate
  Size,           \* the numbers in each
  MaxPartitions,  \* bound: partitions ever made
  MaxHandles,     \* bound: partition handles ever granted
  MaxLoans,       \* bound: calls of Shared.run that claim
  NoCell

ASSUME BoundAssumption ==
  Size \in Nat /\ MaxPartitions \in Nat /\ MaxHandles \in Nat /\ MaxLoans \in Nat
ASSUME CellAssumption == NoCell \notin Allocations \X Nat

VARIABLES
  scope,       \* of each allocation: none before it, open, closing
  control,     \* wire.control still holds the generation of the allocation
  partitions,  \* Partition objects, in the order of their creation
  handles,     \* partition resources, in the order they were granted
  witnesses,   \* Rejoin objects
  loans,       \* SharedLoan objects, with the job of each
  dirty        \* written by a kernel that has not returned

vars == <<scope, control, partitions, handles, witnesses, loans, dirty>>

Cells == Allocations \X (0..(Size - 1))

PartitionIds == 1..Len(partitions)
HandleIds    == 1..Len(handles)
LoanIds      == 1..Len(loans)
WitnessIds   == 1..Len(witnesses)

\* phase.kind, with the witness of a split or the loan of a run in `by`
Partition == [allocation : Allocations, start : 0..Size, length : 0..Size,
              generation : Nat \ {0}, by : Nat,
              phase : {"idle", "split", "running", "joined"}]

Handle == [partition : Nat \ {0}, generation : Nat \ {0}]

Rejoin == [parent : Nat, left : Nat, right : Nat, consumed : BOOLEAN]

\* `access` is the cell of a read or write between its check and its effect.
Loan == [partitions : SUBSET (1..MaxPartitions), admitted : BOOLEAN,
         job : {"queued", "running", "value", "error", "over"},
         access : Cells \union {NoCell}]

TypeOK ==
  /\ scope \in [Allocations -> {"none", "open", "closing"}]
  /\ control \in [Allocations -> BOOLEAN]
  /\ partitions \in Seq(Partition) /\ Len(partitions) <= MaxPartitions
  /\ handles \in Seq(Handle) /\ Len(handles) <= MaxHandles
  /\ witnesses \in Seq(Rejoin)
  /\ loans \in Seq(Loan) /\ Len(loans) <= MaxLoans
  /\ dirty \subseteq Cells

Init ==
  /\ scope = [a \in Allocations |-> "none"]
  /\ control = [a \in Allocations |-> FALSE]
  /\ partitions = <<>> /\ handles = <<>> /\ witnesses = <<>> /\ loans = <<>>
  /\ dirty = {}

-----------------------------------------------------------------------------
(* Handles *)

\* The cells of partition p.
CellsOf(p) ==
  {<<partitions[p].allocation, k>> :
     k \in partitions[p].start..(partitions[p].start + partitions[p].length - 1)}

\* sharedView
Valid(p) == control[partitions[p].allocation]

Idle(p) == partitions[p].phase = "idle"

\* Mutant: the phase of the partition is not looked at.
UsableAnyPhase(h) ==
  LET p == handles[h].partition
  IN  Valid(p) /\ handles[h].generation = partitions[p].generation

\* #partition returns: the handle is current and its partition idle.
Usable(h) ==
  LET p == handles[h].partition
  IN  Valid(p) /\ handles[h].generation = partitions[p].generation /\ Idle(p)

\* #grant, for the partition p with its generation
HandleOf(p, generation) == [partition |-> p, generation |-> generation]

\* The scope that owns partition p still grants.
Open(p) == scope[partitions[p].allocation] = "open"

Whole(a) == [allocation |-> a, start |-> 0, length |-> Size, generation |-> 1,
             by |-> 0, phase |-> "idle"]

Allocate(a) ==
  /\ scope[a] = "none"
  /\ Len(partitions) < MaxPartitions /\ Len(handles) < MaxHandles
  /\ scope' = [scope EXCEPT ![a] = "open"]
  /\ control' = [control EXCEPT ![a] = TRUE]
  /\ partitions' = Append(partitions, Whole(a))
  /\ handles' = Append(handles, HandleOf(Len(partitions) + 1, 1))
  /\ UNCHANGED <<witnesses, loans, dirty>>

\* The part of p from `start` on, as a new partition.
Piece(p, start, length) ==
  [partitions[p] EXCEPT !.start = start, !.length = length, !.generation = 1]

\* Mutant: the boundary is not compared with the length.
WithinAny(p, boundary) == TRUE

Within(p, boundary) == boundary <= partitions[p].length

Split(h, boundary) ==
  LET p     == handles[h].partition
      left  == Len(partitions) + 1
      right == Len(partitions) + 2
      w     == Len(witnesses) + 1
      start == partitions[p].start
  IN  /\ Usable(h) /\ Open(p)
      /\ Within(p, boundary)
      /\ right <= MaxPartitions /\ Len(handles) + 2 <= MaxHandles
      /\ partitions' =
           [partitions EXCEPT ![p].phase = "split", ![p].by = w]
             \o <<Piece(p, start, boundary),
                  Piece(p, start + boundary, partitions[p].length - boundary)>>
      /\ handles' = handles \o <<HandleOf(left, 1), HandleOf(right, 1)>>
      /\ witnesses' = Append(witnesses, [parent |-> p, left |-> left,
                                         right |-> right, consumed |-> FALSE])
      /\ UNCHANGED <<scope, control, loans, dirty>>

\* Mutant: the children are not looked at.
JoinableUnchecked(w) ==
  LET r == witnesses[w]
  IN  /\ Valid(r.parent)
      /\ ~r.consumed
      /\ partitions[r.parent].phase = "split" /\ partitions[r.parent].by = w

\* None of the three conditions under which join throws.
Joinable(w) ==
  LET r == witnesses[w]
  IN  /\ Valid(r.parent)
      /\ ~r.consumed
      /\ partitions[r.parent].phase = "split" /\ partitions[r.parent].by = w
      /\ Idle(r.left) /\ Idle(r.right)

\* Mutant: the parent keeps its generation.
RejoinedSame(w) ==
  LET r == witnesses[w]
  IN  [partitions EXCEPT ![r.left].phase = "joined", ![r.right].phase = "joined",
                         ![r.parent].phase = "idle"]

\* The parent is whole again under the next generation.
Rejoined(w) ==
  LET r == witnesses[w]
  IN  [partitions EXCEPT ![r.left].phase = "joined", ![r.right].phase = "joined",
                         ![r.parent].phase = "idle",
                         ![r.parent].generation = @ + 1]

\* When the scope is closing the last step of join, the grant, throws.
Join(w) ==
  LET p == witnesses[w].parent
  IN  /\ Joinable(w)
      /\ Len(handles) < MaxHandles
      /\ witnesses' = [witnesses EXCEPT ![w].consumed = TRUE]
      /\ partitions' = Rejoined(w)
      /\ handles' = IF Open(p)
                    THEN Append(handles,
                                HandleOf(p, partitions[p].generation + 1))
                    ELSE handles
      /\ UNCHANGED <<scope, control, loans, dirty>>

-----------------------------------------------------------------------------
(* Shared.run *)

\* The partitions of the handles H.
Lent(H) == {handles[h].partition : h \in H}

Run(H) ==
  /\ Len(loans) < MaxLoans
  /\ \A h \in H : Usable(h) /\ Open(handles[h].partition)
  /\ loans' = Append(loans, [partitions |-> Lent(H), admitted |-> FALSE,
                             job |-> "queued", access |-> NoCell])
  /\ partitions' =
       [p \in PartitionIds |->
          IF p \in Lent(H)
          THEN [partitions[p] EXCEPT !.phase = "running", !.by = Len(loans) + 1]
          ELSE partitions[p]]
  /\ UNCHANGED <<scope, control, handles, witnesses, dirty>>

\* The pool places the job and tells the loan.
Admit(r) ==
  /\ loans[r].job = "queued"
  /\ loans' = [loans EXCEPT ![r].job = "running", ![r].admitted = TRUE]
  /\ UNCHANGED <<scope, control, partitions, handles, witnesses, dirty>>

\* The job fails in the queue: cancelled, or no worker could take it.
NeverRuns(r) ==
  /\ loans[r].job = "queued"
  /\ loans' = [loans EXCEPT ![r].job = "error"]
  /\ UNCHANGED <<scope, control, partitions, handles, witnesses, dirty>>

\* A kernel's access looks at the control word ...
Checks(r, cell) ==
  /\ loans[r].job = "running" /\ loans[r].access = NoCell
  /\ \E p \in loans[r].partitions : cell \in CellsOf(p) /\ Valid(p)
  /\ loans' = [loans EXCEPT ![r].access = cell]
  /\ UNCHANGED <<scope, control, partitions, handles, witnesses, dirty>>

\* ... and then touches the buffer.
Writes(r) ==
  /\ loans[r].job = "running" /\ loans[r].access # NoCell
  /\ dirty' = dirty \union {loans[r].access}
  /\ loans' = [loans EXCEPT ![r].access = NoCell]
  /\ UNCHANGED <<scope, control, partitions, handles, witnesses>>

\* The kernel returns, or it throws, is cancelled or loses its worker.
Stops(r, outcome) ==
  /\ loans[r].job = "running"
  /\ outcome = "value" => loans[r].access = NoCell
  /\ loans' = [loans EXCEPT ![r].job = outcome, ![r].access = NoCell]
  /\ UNCHANGED <<scope, control, partitions, handles, witnesses, dirty>>

LentCells(r) == UNION {CellsOf(p) : p \in loans[r].partitions}

\* Mutant: only a kernel that failed spoils what it was lent.
SpoiltByError(r, failed) ==
  IF loans[r].job = "error" /\ loans[r].admitted
  THEN {partitions[p].allocation : p \in loans[r].partitions}
  ELSE {}

\* The allocations that a call which failed takes with it.
Spoilt(r, failed) ==
  IF failed /\ loans[r].admitted
  THEN {partitions[p].allocation : p \in loans[r].partitions}
  ELSE {}

(***************************************************************************)
(* The call continues after the job has settled and its scope has drained. *)
(* It fails if the job did, if the kernel's result is not private, or if   *)
(* the cleanup fails.                                                      *)
(***************************************************************************)
Returns(r, failed) ==
  /\ loans[r].job \in {"value", "error"}
  /\ loans[r].job = "error" => failed
  /\ control' = [a \in Allocations |-> control[a] /\ a \notin Spoilt(r, failed)]
  /\ partitions' =
       [p \in PartitionIds |->
          IF p \in loans[r].partitions
          THEN [partitions[p] EXCEPT !.phase = "idle"] ELSE partitions[p]]
  /\ loans' = [loans EXCEPT ![r].job = "over"]
  /\ dirty' = IF failed THEN dirty ELSE dirty \ LentCells(r)
  /\ UNCHANGED <<scope, handles, witnesses>>

-----------------------------------------------------------------------------
(* The owning scope *)

\* close() cancels the scope at once: nothing more is granted ...
CloseScope(a) ==
  /\ scope[a] = "open"
  /\ scope' = [scope EXCEPT ![a] = "closing"]
  /\ UNCHANGED <<control, partitions, handles, witnesses, loans, dirty>>

\* ... and runs the closer of the allocation later.
Invalidate(a) ==
  /\ scope[a] = "closing" /\ control[a]
  /\ control' = [control EXCEPT ![a] = FALSE]
  /\ UNCHANGED <<scope, partitions, handles, witnesses, loans, dirty>>

-----------------------------------------------------------------------------
Next ==
  \/ \E a \in Allocations : Allocate(a) \/ CloseScope(a) \/ Invalidate(a)
  \/ \E h \in HandleIds, boundary \in 0..Size : Split(h, boundary)
  \/ \E w \in WitnessIds : Join(w)
  \/ \E H \in SUBSET HandleIds : H # {} /\ Run(H)
  \/ \E r \in LoanIds :
       \/ Admit(r) \/ NeverRuns(r) \/ Writes(r)
       \/ \E cell \in Cells : Checks(r, cell)
       \/ \E outcome \in {"value", "error"} : Stops(r, outcome)
       \/ \E failed \in BOOLEAN : Returns(r, failed)

Spec == Init /\ [][Next]_vars

-----------------------------------------------------------------------------
(* Properties *)

\* The partitions through which somebody may reach their cells.
Leaves == {p \in PartitionIds : partitions[p].phase \in {"idle", "running"}}

(***************************************************************************)
(* Splitting and rejoining (shared.ts, split and join) neither duplicates  *)
(* nor loses authority: every cell of an allocation belongs to exactly one *)
(* partition that is idle or lent.                                         *)
(***************************************************************************)
Tiling ==
  \A cell \in Cells : scope[cell[1]] # "none" =>
    Cardinality({p \in Leaves : cell \in CellsOf(p)}) = 1

(***************************************************************************)
(* Partitions, handles, witnesses and loans stay within their allocation   *)
(* and divide it up (split, join and the claim of run).                    *)
(***************************************************************************)
PartitionsAgree == TypeOK /\ Tiling

(***************************************************************************)
(* "Host lease generations and phase checks reject aliased, stale,         *)
(* duplicate, or overlapping access" (LANGUAGE.md): of the handles that    *)
(* #partition accepts and the kernels that run, at most one reaches a cell.*)
(***************************************************************************)
ExclusiveAccess ==
  \A cell \in Cells : control[cell[1]] =>
    Cardinality({h \in HandleIds :
                   Usable(h) /\ cell \in CellsOf(handles[h].partition)})
      + Cardinality({r \in LoanIds :
                       loans[r].job = "running" /\ cell \in LentCells(r)}) <= 1

(***************************************************************************)
(* "After dispatch, failure, cancellation, or worker loss invalidates the  *)
(* entire affected partition allocation; it can never be snapshotted or    *)
(* rejoined successfully" (LANGUAGE.md): no handle that snapshot accepts   *)
(* shows a number left by a kernel that did not return.                    *)
(***************************************************************************)
NoTornRead ==
  \A h \in HandleIds :
    Usable(h) => dirty \intersect CellsOf(handles[h].partition) = {}

(***************************************************************************)
(* Run never throws "shared partition lost its running loan": while a call *)
(* is in progress nobody else changes the phase of what it has claimed.    *)
(***************************************************************************)
LoanKept ==
  \A r \in LoanIds : loans[r].job # "over" =>
    \A p \in loans[r].partitions :
      partitions[p].phase = "running" /\ partitions[p].by = r

(***************************************************************************)
(* "old parent and child handles stay invalid" (LANGUAGE.md): a handle     *)
(* whose partition was split or joined never works again, through whatever *)
(* joins follow.                                                           *)
(***************************************************************************)
Dead(h) ==
  LET p == handles[h].partition
  IN  \/ partitions[p].phase \in {"split", "joined"}
      \/ handles[h].generation # partitions[p].generation

StaleForever == [][\A h \in HandleIds : Dead(h) => Dead(h)']_vars
=============================================================================
