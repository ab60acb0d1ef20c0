----------------------- MODULE SharedPartitionsProofs -----------------------
(***************************************************************************)
(* Proofs about SharedPartitions for every set of allocations, every size  *)
(* and every number of partitions, handles and calls.                      *)
(***************************************************************************)
EXTENDS SharedPartitions, SequenceTheorems, FiniteSetTheorems, TLAPS

\* Partitions lie within their allocation, which has been made.
InBounds ==
  \A p \in PartitionIds :
    /\ partitions[p].start + partitions[p].length <= Size
    /\ scope[partitions[p].allocation] # "none"

\* A handle names a partition, no generation of the future, and no other
\* handle names the same generation.
HandlesAgree ==
  \A h \in HandleIds :
    /\ handles[h].partition \in PartitionIds
    /\ handles[h].generation <= partitions[handles[h].partition].generation
    /\ \A g \in HandleIds : handles[g] = handles[h] => g = h

\* `left` and `right` divide up partition p.
Halves(p, left, right) ==
  /\ left \in PartitionIds /\ right \in PartitionIds /\ p < left /\ left < right
  /\ partitions[left].allocation = partitions[p].allocation
  /\ partitions[right].allocation = partitions[p].allocation
  /\ partitions[left].start = partitions[p].start
  /\ partitions[right].start = partitions[left].start + partitions[left].length
  /\ partitions[p].length = partitions[left].length + partitions[right].length

\* No partition is a child of two splits.
Apart(v, w) ==
  /\ witnesses[v].left # witnesses[w].left
  /\ witnesses[v].left # witnesses[w].right
  /\ witnesses[v].right # witnesses[w].right

\* A witness that can still be consumed stands for a split that is still there,
\* and the children of one that is consumed are dead.
WitnessesAgree ==
  \A w \in WitnessIds :
    LET r == witnesses[w]
    IN  /\ r.parent \in PartitionIds /\ Halves(r.parent, r.left, r.right)
        /\ ~r.consumed => /\ partitions[r.parent].phase = "split"
                          /\ partitions[r.parent].by = w
        /\ partitions[r.left].phase = "joined" <=> r.consumed
        /\ partitions[r.right].phase = "joined" <=> r.consumed
        /\ \A v \in WitnessIds : v # w => Apart(v, w)

\* A kernel runs within what its call was lent.
LoansAgree ==
  \A r \in LoanIds :
    /\ loans[r].partitions \subseteq PartitionIds
    /\ loans[r].job = "running" => loans[r].admitted
    /\ loans[r].access # NoCell =>
         loans[r].job = "running" /\ loans[r].access \in LentCells(r)

\* The one leaf that has a cell.
Owns(p, cell) ==
  /\ p \in Leaves /\ cell \in CellsOf(p)
  /\ \A q \in Leaves : cell \in CellsOf(q) => q = p

Owned ==
  \A cell \in Cells : scope[cell[1]] # "none" => \E p \in PartitionIds : Owns(p, cell)

\* What a kernel wrote and did not return stays with its call, or the control
\* word of the allocation is gone.
DirtyAgrees ==
  /\ \A a \in Allocations : control[a] => scope[a] # "none"
  /\ \A cell \in dirty :
       /\ scope[cell[1]] # "none"
       /\ control[cell[1]] =>
            \E r \in LoanIds : /\ loans[r].job # "over" /\ loans[r].admitted
                               /\ cell \in LentCells(r)

\* The inductive invariant.
IInv ==
  /\ TypeOK /\ InBounds /\ HandlesAgree /\ WitnessesAgree /\ LoansAgree
  /\ LoanKept /\ Owned /\ DirtyAgrees

-----------------------------------------------------------------------------
(* What the actions do to the partitions.                                  *)

(* A function on an initial segment of the numbers is a sequence.          *)
LEMMA FunctionSeq ==
  ASSUME NEW S, NEW n \in Nat, NEW f \in [1..n -> S]
  PROVE  f \in Seq(S) /\ Len(f) = n
OBVIOUS

(* The fields of a partition.                                              *)
LEMMA PartitionFields ==
  ASSUME TypeOK
  PROVE  /\ Len(partitions) \in Nat /\ Len(handles) \in Nat
         /\ Len(witnesses) \in Nat /\ Len(loans) \in Nat
         /\ \A p \in PartitionIds :
              /\ partitions[p] \in Partition
              /\ partitions[p].allocation \in Allocations
              /\ partitions[p].start \in 0..Size
              /\ partitions[p].length \in 0..Size
              /\ partitions[p].generation \in Nat \ {0}
<1>1. partitions \in Seq(Partition) /\ handles \in Seq(Handle)
      /\ witnesses \in Seq(Rejoin) /\ loans \in Seq(Loan)
  BY DEF TypeOK
<1>2. \A p \in PartitionIds : partitions[p] \in Partition
  BY <1>1, ElementOfSeq DEF PartitionIds
<1>3. QED BY <1>1, <1>2, LenProperties DEF Partition

(* Marking a partition, and cutting a piece of one.                        *)
LEMMA MarkType ==
  ASSUME NEW x \in Partition, NEW k \in Nat,
         NEW phase \in {"idle", "split", "running", "joined"}
  PROVE  /\ [x EXCEPT !.phase = phase] \in Partition
         /\ [x EXCEPT !.phase = phase, !.by = k] \in Partition
BY DEF Partition

(* What marking a partition leaves alone.                                  *)
LEMMA MarkFields ==
  ASSUME NEW x \in Partition, NEW phase, NEW k
  PROVE  /\ LET y == [x EXCEPT !.phase = phase]
            IN  /\ y.phase = phase /\ y.allocation = x.allocation
                /\ y.start = x.start /\ y.length = x.length /\ y.generation = x.generation
         /\ LET y == [x EXCEPT !.phase = phase, !.by = k]
            IN  /\ y.phase = phase /\ y.allocation = x.allocation
                /\ y.start = x.start /\ y.length = x.length /\ y.generation = x.generation
BY DEF Partition

(* Renewing one raises its generation.                                     *)
LEMMA RenewFields ==
  ASSUME NEW x \in Partition, NEW phase, NEW k
  PROVE  LET y == [x EXCEPT !.phase = phase, !.generation = k]
         IN  /\ y.phase = phase /\ y.allocation = x.allocation
             /\ y.start = x.start /\ y.length = x.length /\ y.generation = k
BY DEF Partition

(* splitAt cuts a piece that has the type of a partition.                  *)
LEMMA PieceType ==
  ASSUME NEW x \in Partition, NEW start \in 0..Size, NEW length \in 0..Size
  PROVE  [x EXCEPT !.start = start, !.length = length, !.generation = 1] \in Partition
<1>1. [x EXCEPT !.start = start, !.length = length] \in Partition BY DEF Partition
<1>2. 1 \in Nat \ {0} OBVIOUS
<1>3. QED BY <1>1, <1>2 DEF Partition

(* A new allocation adds one partition.                                    *)
LEMMA AllocateEffect ==
  ASSUME TypeOK, NEW a \in Allocations, Allocate(a)
  PROVE  /\ partitions' \in Seq(Partition)
         /\ Len(partitions') = Len(partitions) + 1
         /\ partitions'[Len(partitions) + 1] = Whole(a)
         /\ \A p \in PartitionIds : partitions'[p] = partitions[p]
         /\ handles' \in Seq(Handle) /\ Len(handles') = Len(handles) + 1
         /\ handles'[Len(handles) + 1] = HandleOf(Len(partitions) + 1, 1)
         /\ \A h \in HandleIds : handles'[h] = handles[h]
<1>1. Whole(a) \in Partition BY BoundAssumption DEF Whole, Partition
<1>2. HandleOf(Len(partitions) + 1, 1) \in Handle
  BY PartitionFields DEF HandleOf, Handle
<1>3. partitions' = Append(partitions, Whole(a))
      /\ handles' = Append(handles, HandleOf(Len(partitions) + 1, 1))
  BY DEF Allocate
<1>4. partitions \in Seq(Partition) /\ handles \in Seq(Handle) BY DEF TypeOK
<1>5. QED BY <1>1, <1>2, <1>3, <1>4 DEF PartitionIds, HandleIds

(* A split of p through h makes the partitions n + 1 and n + 2.             *)
Divides(h, boundary, p, n, m) ==
  /\ p = handles[h].partition /\ n = Len(partitions) /\ m = Len(handles)
  /\ partitions' \in Seq(Partition) /\ Len(partitions') = n + 2
  /\ \A q \in PartitionIds : q # p => partitions'[q] = partitions[q]
  /\ partitions'[p] = [partitions[p] EXCEPT !.phase = "split",
                                            !.by = Len(witnesses) + 1]
  /\ partitions'[n + 1] = Piece(p, partitions[p].start, boundary)
  /\ partitions'[n + 2] = Piece(p, partitions[p].start + boundary,
                                partitions[p].length - boundary)
  /\ handles' \in Seq(Handle) /\ Len(handles') = m + 2
  /\ handles'[m + 1] = HandleOf(n + 1, 1)
  /\ handles'[m + 2] = HandleOf(n + 2, 1)
  /\ \A g \in HandleIds : handles'[g] = handles[g]

(* That is what Split does.                                                *)
LEMMA SplitEffect ==
  ASSUME TypeOK, InBounds, HandlesAgree,
         NEW h \in HandleIds, NEW boundary \in 0..Size, Split(h, boundary)
  PROVE  \E p \in PartitionIds, n \in Nat, m \in Nat : Divides(h, boundary, p, n, m)
<1>0. PICK p, n : p = handles[h].partition /\ n = Len(partitions) OBVIOUS
<1> DEFINE mark == [partitions[p] EXCEPT !.phase = "split", !.by = Len(witnesses) + 1]
           first == Piece(p, partitions[p].start, boundary)
           second == Piece(p, partitions[p].start + boundary,
                           partitions[p].length - boundary)
           old == [partitions EXCEPT ![p] = mark]
           more == <<first, second>>
           pair == <<HandleOf(n + 1, 1), HandleOf(n + 2, 1)>>
<1>1. p \in PartitionIds /\ n \in Nat /\ Len(witnesses) \in Nat /\ Len(handles) \in Nat
  BY <1>0, PartitionFields DEF HandlesAgree
<1>2. /\ partitions[p] \in Partition
      /\ partitions[p].start \in 0..Size /\ partitions[p].length \in 0..Size
      /\ partitions[p].start + partitions[p].length <= Size
  BY <1>1, PartitionFields DEF InBounds
<1>3. boundary <= partitions[p].length BY <1>0 DEF Split, Within
<1>4. mark \in Partition
  <2>1. Len(witnesses) + 1 \in Nat BY <1>1
  <2>2. "split" \in {"idle", "split", "running", "joined"} OBVIOUS
  <2> QED BY ONLY <1>2, <2>1, <2>2, MarkType
<1>5. first \in Partition /\ second \in Partition
  <2> DEFINE s == partitions[p].start
             l == partitions[p].length
  <2>1. s \in 0..Size /\ l \in 0..Size /\ s + l <= Size /\ boundary <= l
    BY <1>2, <1>3
  <2>2. first = Piece(p, s, boundary) /\ second = Piece(p, s + boundary, l - boundary)
    OBVIOUS
  <2> HIDE DEF s, l, first, second, mark
  <2>3. s + boundary \in 0..Size /\ l - boundary \in 0..Size
    BY <2>1, BoundAssumption
  <2> QED BY <1>2, <2>1, <2>2, <2>3, PieceType DEF Piece
<1>6. partitions' = old \o more
  BY <1>0, <1>1, <1>2 DEF Split, Partition, PartitionIds, TypeOK
<1>7. partitions \in Seq(Partition) /\ handles \in Seq(Handle) BY DEF TypeOK
<1>8. /\ old \in Seq(Partition) /\ Len(old) = n
      /\ \A q \in 1..n : old[q] = IF q = p THEN mark ELSE partitions[q]
  BY <1>0, <1>1, <1>4, <1>7, ExceptSeq DEF PartitionIds
<1>9. more \in Seq(Partition) /\ Len(more) = 2 /\ more[1] = first /\ more[2] = second
  BY <1>5
<1>10. /\ partitions' \in Seq(Partition) /\ Len(partitions') = n + 2
       /\ \A q \in 1..(n + 2) : partitions'[q] = IF q <= n THEN old[q] ELSE more[q - n]
  BY <1>6, <1>8, <1>9, ConcatProperties
<1>11. partitions'[n + 1] = first /\ partitions'[n + 2] = second
  BY <1>1, <1>9, <1>10
<1>12. \A q \in PartitionIds : partitions'[q] = IF q = p THEN mark ELSE partitions[q]
  BY <1>0, <1>1, <1>8, <1>10 DEF PartitionIds
<1>13. pair \in Seq(Handle) /\ Len(pair) = 2
       /\ pair[1] = HandleOf(n + 1, 1) /\ pair[2] = HandleOf(n + 2, 1)
  BY <1>1 DEF HandleOf, Handle
<1>14. handles' = handles \o pair BY <1>0 DEF Split
<1>15. /\ handles' \in Seq(Handle) /\ Len(handles') = Len(handles) + 2
       /\ \A g \in 1..(Len(handles) + 2) :
            handles'[g] = IF g <= Len(handles) THEN handles[g] ELSE pair[g - Len(handles)]
  BY <1>7, <1>13, <1>14, ConcatProperties
<1>16. /\ handles'[Len(handles) + 1] = HandleOf(n + 1, 1)
       /\ handles'[Len(handles) + 2] = HandleOf(n + 2, 1)
       /\ \A g \in HandleIds : handles'[g] = handles[g]
  BY <1>1, <1>13, <1>15 DEF HandleIds
<1> HIDE DEF mark, first, second
<1>17. partitions'[p] = mark BY <1>1, <1>12
<1>18. \A q \in PartitionIds : q # p => partitions'[q] = partitions[q] BY <1>12
<1>19. PICK m \in Nat : m = Len(handles) BY <1>1
<1>20. Divides(h, boundary, p, n, m)
  BY <1>0, <1>10, <1>11, <1>15, <1>16, <1>17, <1>18, <1>19 DEF mark, first, second, Divides
<1>21. QED BY <1>1, <1>19, <1>20

(* The parts of a phase change that matter to the other facts.             *)
SameShape ==
  /\ PartitionIds \subseteq PartitionIds'
  /\ \A q \in PartitionIds :
       /\ partitions'[q].allocation = partitions[q].allocation
       /\ partitions'[q].start = partitions[q].start
       /\ partitions'[q].length = partitions[q].length

(* Where shapes stay, cells stay.                                          *)
LEMMA ShapeCells ==
  ASSUME SameShape
  PROVE  \A q \in PartitionIds : CellsOf(q)' = CellsOf(q)
BY DEF SameShape, CellsOf

(* A rejoin of w retires the halves of p and renews p.                     *)
Rejoins(w, p, left, right) ==
  /\ p = witnesses[w].parent
  /\ left = witnesses[w].left /\ right = witnesses[w].right
  /\ Halves(p, left, right) /\ ~witnesses[w].consumed
  /\ p # left /\ p # right /\ left # right
  /\ partitions[p].phase = "split" /\ partitions[p].by = w
  /\ partitions[left].phase = "idle" /\ partitions[right].phase = "idle"
  /\ partitions' \in Seq(Partition) /\ Len(partitions') = Len(partitions)
  /\ \A q \in PartitionIds : q \notin {p, left, right} =>
                                partitions'[q] = partitions[q]
  /\ partitions'[left] = [partitions[left] EXCEPT !.phase = "joined"]
  /\ partitions'[right] = [partitions[right] EXCEPT !.phase = "joined"]
  /\ partitions'[p] = [partitions[p] EXCEPT !.phase = "idle",
                         !.generation = partitions[p].generation + 1]

(* That is what Join does.                                                 *)
LEMMA JoinEffect ==
  ASSUME TypeOK, WitnessesAgree, NEW w \in WitnessIds, Join(w)
  PROVE  \E p, left, right \in PartitionIds : Rejoins(w, p, left, right)
<1>0. PICK p, left, right : /\ p = witnesses[w].parent
                            /\ left = witnesses[w].left /\ right = witnesses[w].right
  OBVIOUS
<1>1. /\ p \in PartitionIds /\ left \in PartitionIds /\ right \in PartitionIds
      /\ Halves(p, left, right)
  BY <1>0 DEF WitnessesAgree, Halves
<1>2. p # left /\ p # right /\ left # right
  BY <1>1, PartitionFields DEF Halves, PartitionIds
<1>3. /\ partitions[p] \in Partition /\ partitions[left] \in Partition
      /\ partitions[right] \in Partition
  BY <1>1, PartitionFields
<1> DEFINE old == [partitions[left] EXCEPT !.phase = "joined"]
           older == [partitions[right] EXCEPT !.phase = "joined"]
           new == [partitions[p] EXCEPT !.phase = "idle",
                                        !.generation = partitions[p].generation + 1]
<1>4. old \in Partition /\ older \in Partition
  BY <1>3, MarkType
<1>5. new \in Partition
  <2>1. [partitions[p] EXCEPT !.phase = "idle"] \in Partition BY <1>3, MarkType
  <2>2. partitions[p].generation + 1 \in Nat \ {0} BY <1>1, PartitionFields
  <2> QED BY ONLY <2>1, <2>2 DEF Partition
<1>6. partitions' = [[[partitions EXCEPT ![left] = old] EXCEPT ![right] = older]
                       EXCEPT ![p] = new]
  <2>1. partitions \in [PartitionIds -> Partition]
    BY LenProperties DEF TypeOK, PartitionIds
  <2>2. partitions' = [partitions EXCEPT ![left].phase = "joined",
                         ![right].phase = "joined", ![p].phase = "idle",
                         ![p].generation = @ + 1]
    BY <1>0 DEF Join, Rejoined
  <2> QED BY ONLY <1>1, <1>2, <1>3, <2>1, <2>2 DEF Partition
<1> HIDE DEF old, older, new
<1>7. partitions \in Seq(Partition) BY DEF TypeOK
<1>8. /\ partitions' \in Seq(Partition) /\ Len(partitions') = Len(partitions)
      /\ \A q \in PartitionIds : partitions'[q] =
           IF q = p THEN new ELSE IF q = right THEN older
           ELSE IF q = left THEN old ELSE partitions[q]
  <2>1. /\ [partitions EXCEPT ![left] = old] \in Seq(Partition)
        /\ Len([partitions EXCEPT ![left] = old]) = Len(partitions)
        /\ \A q \in PartitionIds : [partitions EXCEPT ![left] = old][q] =
             IF q = left THEN old ELSE partitions[q]
    BY <1>1, <1>4, <1>7, ExceptSeq DEF PartitionIds
  <2> DEFINE one == [partitions EXCEPT ![left] = old]
  <2> HIDE DEF one
  <2>2. /\ one \in Seq(Partition) /\ Len(one) = Len(partitions)
        /\ \A q \in PartitionIds : one[q] = IF q = left THEN old ELSE partitions[q]
    BY <2>1 DEF one
  <2> DEFINE two == [one EXCEPT ![right] = older]
  <2>3. /\ two \in Seq(Partition) /\ Len(two) = Len(partitions)
        /\ \A q \in PartitionIds : two[q] = IF q = right THEN older ELSE one[q]
    BY <1>1, <1>4, <2>2, ExceptSeq DEF PartitionIds
  <2> HIDE DEF two
  <2>4. partitions' = [two EXCEPT ![p] = new] BY <1>6 DEF one, two
  <2>5. /\ partitions' \in Seq(Partition) /\ Len(partitions') = Len(partitions)
        /\ \A q \in PartitionIds : partitions'[q] = IF q = p THEN new ELSE two[q]
    BY <1>1, <1>5, <2>3, <2>4, ExceptSeq DEF PartitionIds
  <2> QED BY <2>2, <2>3, <2>5
<1>9. ~witnesses[w].consumed /\ partitions[p].phase = "split" /\ partitions[p].by = w
      /\ partitions[left].phase = "idle" /\ partitions[right].phase = "idle"
  BY <1>0 DEF Join, Joinable, Idle
<1>10. Rejoins(w, p, left, right)
  BY <1>0, <1>1, <1>2, <1>8, <1>9 DEF old, older, new, Rejoins
<1>11. QED BY <1>1, <1>10

(* A claim marks what it borrows.                                          *)
LEMMA RunEffect ==
  ASSUME TypeOK, NEW H \in SUBSET HandleIds, Run(H)
  PROVE  /\ partitions' \in Seq(Partition) /\ Len(partitions') = Len(partitions)
         /\ \A q \in PartitionIds : partitions'[q] =
              IF q \in Lent(H)
              THEN [partitions[q] EXCEPT !.phase = "running", !.by = Len(loans) + 1]
              ELSE partitions[q]
<1>1. Len(partitions) \in Nat /\ Len(loans) + 1 \in Nat BY PartitionFields
<1>2. partitions' = [q \in PartitionIds |->
         IF q \in Lent(H)
         THEN [partitions[q] EXCEPT !.phase = "running", !.by = Len(loans) + 1]
         ELSE partitions[q]]
  BY DEF Run
<1>3. \A q \in PartitionIds :
        [partitions[q] EXCEPT !.phase = "running", !.by = Len(loans) + 1] \in Partition
  BY <1>1, PartitionFields, MarkType
<1>4. partitions' \in [PartitionIds -> Partition]
  BY <1>2, <1>3, PartitionFields
<1>5. partitions' \in Seq(Partition) /\ Len(partitions') = Len(partitions)
  BY ONLY <1>1, <1>4, FunctionSeq DEF PartitionIds
<1>6. QED BY ONLY <1>2, <1>5

(* A call that continues gives them back.                                  *)
LEMMA ReturnsEffect ==
  ASSUME TypeOK, NEW r \in LoanIds, NEW failed \in BOOLEAN, Returns(r, failed)
  PROVE  /\ partitions' \in Seq(Partition) /\ Len(partitions') = Len(partitions)
         /\ \A q \in PartitionIds : partitions'[q] =
              IF q \in loans[r].partitions
              THEN [partitions[q] EXCEPT !.phase = "idle"] ELSE partitions[q]
<1>1. Len(partitions) \in Nat BY PartitionFields
<1>2. partitions' = [q \in PartitionIds |->
         IF q \in loans[r].partitions
         THEN [partitions[q] EXCEPT !.phase = "idle"] ELSE partitions[q]]
  BY DEF Returns
<1>3. \A q \in PartitionIds : [partitions[q] EXCEPT !.phase = "idle"] \in Partition
  BY PartitionFields, MarkType
<1>4. partitions' \in [PartitionIds -> Partition]
  BY <1>2, <1>3, PartitionFields
<1>5. QED BY <1>1, <1>2, <1>4, FunctionSeq DEF PartitionIds

-----------------------------------------------------------------------------
(* Types.                                                                  *)

(* The tables stay within their types, and within their bounds.            *)
LEMMA TypeStep ==
  ASSUME IInv, [Next]_vars
  PROVE  TypeOK'
<1> USE DEF IInv
<1>1. /\ scope \in [Allocations -> {"none", "open", "closing"}]
      /\ control \in [Allocations -> BOOLEAN]
      /\ partitions \in Seq(Partition) /\ Len(partitions) <= MaxPartitions
      /\ handles \in Seq(Handle) /\ Len(handles) <= MaxHandles
      /\ witnesses \in Seq(Rejoin)
      /\ loans \in Seq(Loan) /\ Len(loans) <= MaxLoans
      /\ dirty \subseteq Cells
  BY DEF TypeOK
<1>2. ASSUME NEW a \in Allocations, Allocate(a) PROVE TypeOK'
  <2>1. scope' \in [Allocations -> {"none", "open", "closing"}]
        /\ control' \in [Allocations -> BOOLEAN]
    BY <1>1, <1>2 DEF Allocate
  <2>2. Len(partitions) < MaxPartitions /\ Len(handles) < MaxHandles
        /\ UNCHANGED <<witnesses, loans, dirty>>
    BY <1>2 DEF Allocate
  <2> QED BY <1>1, <1>2, <2>1, <2>2, AllocateEffect, PartitionFields, BoundAssumption
             DEF TypeOK
<1>3. ASSUME NEW h \in HandleIds, NEW boundary \in 0..Size, Split(h, boundary)
      PROVE TypeOK'
  <2> DEFINE p == handles[h].partition
             n == Len(partitions)
             new == [parent |-> p, left |-> n + 1, right |-> n + 2, consumed |-> FALSE]
  <2>1. /\ UNCHANGED <<scope, control, loans, dirty>>
        /\ n + 2 <= MaxPartitions /\ Len(handles) + 2 <= MaxHandles
        /\ witnesses' = Append(witnesses, new)
    BY <1>3 DEF Split
  <2>2. /\ p \in PartitionIds
        /\ partitions' \in Seq(Partition) /\ Len(partitions') = n + 2
        /\ handles' \in Seq(Handle) /\ Len(handles') = Len(handles) + 2
    <3>1. PICK q \in PartitionIds, i \in Nat, m \in Nat : Divides(h, boundary, q, i, m)
      BY <1>3, SplitEffect
    <3> QED BY <3>1 DEF Divides
  <2>3. new \in Rejoin BY <2>2, PartitionFields DEF Rejoin, PartitionIds
  <2> HIDE DEF p, new
  <2>4. witnesses' \in Seq(Rejoin) BY <1>1, <2>1, <2>3
  <2> QED BY ONLY <1>1, <2>1, <2>2, <2>4 DEF TypeOK, Cells
<1>4. ASSUME NEW w \in WitnessIds, Join(w) PROVE TypeOK'
  <2> DEFINE p == witnesses[w].parent
  <2>1. /\ UNCHANGED <<scope, control, loans, dirty>>
        /\ Len(handles) < MaxHandles
        /\ witnesses' = [witnesses EXCEPT ![w].consumed = TRUE]
        /\ handles' = IF Open(p)
                      THEN Append(handles, HandleOf(p, partitions[p].generation + 1))
                      ELSE handles
    BY <1>4 DEF Join
  <2>2. /\ p \in PartitionIds
        /\ partitions' \in Seq(Partition) /\ Len(partitions') = Len(partitions)
    <3>1. PICK q, left, right \in PartitionIds : Rejoins(w, q, left, right)
      BY <1>4, JoinEffect
    <3> QED BY <3>1 DEF Rejoins
  <2>3. HandleOf(p, partitions[p].generation + 1) \in Handle
    BY <2>2, PartitionFields DEF HandleOf, Handle, PartitionIds
  <2> HIDE DEF p
  <2>4. handles' \in Seq(Handle) /\ Len(handles') <= MaxHandles
    BY <1>1, <2>1, <2>3, PartitionFields, BoundAssumption
  <2>5. witnesses' \in Seq(Rejoin)
    <3>1. witnesses[w] \in Rejoin BY <1>1, <1>4, ElementOfSeq DEF WitnessIds
    <3>2. [witnesses[w] EXCEPT !.consumed = TRUE] \in Rejoin
      BY <3>1 DEF Rejoin
    <3>3. witnesses' = [witnesses EXCEPT ![w] = [witnesses[w] EXCEPT !.consumed = TRUE]]
      BY <2>1
    <3> QED BY <1>1, <1>4, <3>2, <3>3, ExceptSeq DEF WitnessIds
  <2> QED BY ONLY <1>1, <2>1, <2>2, <2>4, <2>5 DEF TypeOK, Cells
<1>5. ASSUME NEW H \in SUBSET HandleIds, Run(H) PROVE TypeOK'
  <2> DEFINE new == [partitions |-> Lent(H), admitted |-> FALSE,
                     job |-> "queued", access |-> NoCell]
  <2>1. /\ UNCHANGED <<scope, control, handles, witnesses, dirty>>
        /\ Len(loans) < MaxLoans /\ loans' = Append(loans, new)
    BY <1>5 DEF Run
  <2>2. partitions' \in Seq(Partition) /\ Len(partitions') = Len(partitions)
    BY <1>5, RunEffect
  <2>3. Lent(H) \subseteq 1..MaxPartitions
    BY <1>1, PartitionFields, BoundAssumption DEF Lent, HandlesAgree, PartitionIds
  <2>4. new \in Loan BY <2>3 DEF Loan
  <2> HIDE DEF new
  <2>5. loans' \in Seq(Loan) /\ Len(loans') <= MaxLoans
    BY <1>1, <2>1, <2>4, PartitionFields, BoundAssumption
  <2> QED BY ONLY <1>1, <2>1, <2>2, <2>5 DEF TypeOK, Cells
<1>6. ASSUME NEW r \in LoanIds, NEW new \in Loan, loans' = [loans EXCEPT ![r] = new]
      PROVE  loans' \in Seq(Loan) /\ Len(loans') = Len(loans)
  BY <1>1, <1>6, ExceptSeq DEF LoanIds
<1>7. \A r \in LoanIds :
        /\ loans[r] \in Loan /\ loans[r].partitions \subseteq PartitionIds
        /\ loans[r].access # NoCell => loans[r].access \in Cells
  <2>1. \A r \in LoanIds : loans[r] \in Loan BY <1>1, ElementOfSeq DEF LoanIds
  <2> QED BY <2>1 DEF LoansAgree, Loan
<1>8. ASSUME NEW r \in LoanIds, NEW job \in {"queued", "running", "value", "error", "over"},
             NEW admitted \in BOOLEAN, NEW access \in Cells \union {NoCell}
      PROVE  /\ [loans[r] EXCEPT !.job = job] \in Loan
             /\ [loans[r] EXCEPT !.access = access] \in Loan
             /\ [loans[r] EXCEPT !.job = job, !.admitted = admitted] \in Loan
             /\ [loans[r] EXCEPT !.job = job, !.access = access] \in Loan
  BY <1>7 DEF Loan
<1>9. ASSUME NEW r \in LoanIds, NEW new \in Loan, loans' = [loans EXCEPT ![r] = new],
             UNCHANGED <<scope, control, partitions, handles, witnesses>>,
             dirty' \subseteq Cells
      PROVE  TypeOK'
  BY <1>1, <1>6, <1>9 DEF TypeOK, Cells
<1>10. ASSUME NEW r \in LoanIds, Admit(r) PROVE TypeOK'
  <2>1. loans' = [loans EXCEPT ![r] = [loans[r] EXCEPT !.job = "running", !.admitted = TRUE]]
    BY <1>1, <1>10 DEF Admit, LoanIds
  <2> QED BY <1>1, <1>8, <1>9, <1>10, <2>1 DEF Admit
<1>11. ASSUME NEW r \in LoanIds, NeverRuns(r) PROVE TypeOK'
  BY <1>1, <1>8, <1>9, <1>11 DEF NeverRuns
<1>12. ASSUME NEW r \in LoanIds, Writes(r) PROVE TypeOK'
  BY <1>1, <1>7, <1>8, <1>9, <1>12 DEF Writes
<1>13. ASSUME NEW r \in LoanIds, NEW cell \in Cells, Checks(r, cell) PROVE TypeOK'
  BY <1>1, <1>8, <1>9, <1>13 DEF Checks
<1>14. ASSUME NEW r \in LoanIds, NEW outcome \in {"value", "error"}, Stops(r, outcome)
       PROVE TypeOK'
  <2>1. loans' = [loans EXCEPT ![r] = [loans[r] EXCEPT !.job = outcome, !.access = NoCell]]
    BY <1>1, <1>14 DEF Stops, LoanIds
  <2> QED BY <1>1, <1>8, <1>9, <1>14, <2>1 DEF Stops
<1>15. ASSUME NEW r \in LoanIds, NEW failed \in BOOLEAN, Returns(r, failed) PROVE TypeOK'
  <2>1. partitions' \in Seq(Partition) /\ Len(partitions') = Len(partitions)
    BY <1>15, ReturnsEffect
  <2>2. loans' = [loans EXCEPT ![r] = [loans[r] EXCEPT !.job = "over"]]
    BY <1>15 DEF Returns
  <2>3. loans' \in Seq(Loan) /\ Len(loans') = Len(loans) BY <1>6, <1>8, <2>2
  <2>4. control' \in [Allocations -> BOOLEAN] BY <1>1, <1>15 DEF Returns
  <2>5. dirty' \subseteq Cells /\ UNCHANGED <<scope, handles, witnesses>>
    BY <1>1, <1>15 DEF Returns
  <2> QED BY ONLY <1>1, <2>1, <2>3, <2>4, <2>5 DEF TypeOK, Cells
<1>16. ASSUME NEW a \in Allocations, CloseScope(a) \/ Invalidate(a) PROVE TypeOK'
  BY <1>1, <1>16 DEF CloseScope, Invalidate, TypeOK
<1>17. CASE UNCHANGED vars BY <1>1, <1>17 DEF vars, TypeOK, Cells
<1>18. QED
  BY <1>2, <1>3, <1>4, <1>5, <1>10, <1>11, <1>12, <1>13, <1>14, <1>15, <1>16, <1>17
     DEF Next

-----------------------------------------------------------------------------
(* Steps that leave the partitions alone.                                  *)

(* What concerns only partitions, handles and witnesses stays.             *)
LEMMA PartitionsStay ==
  ASSUME IInv, UNCHANGED <<partitions, handles, witnesses>>,
         \A a \in Allocations : scope[a] = "none" <=> scope'[a] = "none"
  PROVE  /\ InBounds' /\ HandlesAgree' /\ WitnessesAgree' /\ Owned' /\ SameShape
<1>1. InBounds'
  BY PartitionFields DEF IInv, InBounds, PartitionIds
<1>2. HandlesAgree' BY DEF IInv, HandlesAgree, HandleIds, PartitionIds
<1>3. WitnessesAgree'
  BY DEF IInv, WitnessesAgree, WitnessIds, PartitionIds, Halves, Apart
<1>4. Owned'
  BY DEF IInv, Owned, Owns, Leaves, PartitionIds, CellsOf, Cells
<1>5. SameShape BY DEF SameShape, PartitionIds
<1>6. QED BY <1>1, <1>2, <1>3, <1>4, <1>5

(* The fields of a loan.                                                   *)
LEMMA LoanFields ==
  ASSUME TypeOK, LoansAgree
  PROVE  \A r \in LoanIds :
           /\ loans[r] \in Loan /\ loans[r].partitions \subseteq PartitionIds
           /\ loans[r].job \in {"queued", "running", "value", "error", "over"}
           /\ loans[r].admitted \in BOOLEAN
<1>1. \A r \in LoanIds : loans[r] \in Loan
  BY ElementOfSeq DEF TypeOK, LoanIds
<1>2. QED BY <1>1 DEF Loan, LoansAgree

(* A cell of a partition, and a cell of a call.                            *)
LEMMA CellsMember ==
  ASSUME NEW p, NEW cell \in CellsOf(p)
  PROVE  cell[1] = partitions[p].allocation
BY DEF CellsOf

(* A call is lent the cells of the partitions it claimed.                  *)
LEMMA LentMember ==
  ASSUME NEW r, NEW cell
  PROVE  cell \in LentCells(r) <=> \E p \in loans[r].partitions : cell \in CellsOf(p)
BY DEF LentCells

(* The cells of a call stay the same while its partitions do.              *)
LEMMA LentStays ==
  ASSUME SameShape, NEW r, r \in LoanIds, loans[r].partitions \subseteq PartitionIds,
         loans'[r].partitions = loans[r].partitions
  PROVE  LentCells(r)' = LentCells(r)
<1>1. \A p \in loans[r].partitions : CellsOf(p)' = CellsOf(p) BY ShapeCells
<1>2. {CellsOf(p)' : p \in loans[r].partitions} = {CellsOf(p) : p \in loans[r].partitions}
  BY <1>1
<1>3. QED BY <1>2 DEF LentCells

(* A call changes its own record only.                                     *)
LEMMA LoanStep ==
  ASSUME TypeOK, LoansAgree, NEW r \in LoanIds, NEW new \in Loan,
         loans' = [loans EXCEPT ![r] = new], new.partitions = loans[r].partitions
  PROVE  /\ LoanIds' = LoanIds /\ loans'[r] = new
         /\ \A s \in LoanIds : s # r => loans'[s] = loans[s]
         /\ \A s \in LoanIds : loans'[s].partitions = loans[s].partitions
<1>1. loans \in Seq(Loan) BY DEF TypeOK
<1>2. /\ Len(loans') = Len(loans)
      /\ \A s \in 1..Len(loans) : loans'[s] = IF s = r THEN new ELSE loans[s]
  BY <1>1, ExceptSeq DEF LoanIds
<1>3. QED BY <1>2 DEF LoanIds

(* A job that starts, ends or accesses a cell keeps the claims.            *)
LEMMA JobStep ==
  ASSUME IInv, NEW r \in LoanIds, NEW new \in Loan,
         loans' = [loans EXCEPT ![r] = new], new.partitions = loans[r].partitions,
         UNCHANGED <<partitions, handles, witnesses, scope, control>>,
         loans[r].job # "over", new.job # "over",
         loans[r].admitted => new.admitted,
         new.job = "running" => new.admitted,
         new.access # NoCell => new.job = "running" /\ new.access \in LentCells(r),
         \A cell \in dirty' : cell \in dirty \/ (new.admitted /\ cell \in LentCells(r))
  PROVE  /\ InBounds' /\ HandlesAgree' /\ WitnessesAgree' /\ Owned'
         /\ LoansAgree' /\ LoanKept' /\ DirtyAgrees'
<1> USE DEF IInv
<1>1. InBounds' /\ HandlesAgree' /\ WitnessesAgree' /\ Owned' /\ SameShape
  BY PartitionsStay
<1>2. /\ LoanIds' = LoanIds /\ loans'[r] = new
      /\ \A s \in LoanIds : s # r => loans'[s] = loans[s]
      /\ \A s \in LoanIds : loans'[s].partitions = loans[s].partitions
  BY LoanStep
<1>3. \A s \in LoanIds : /\ loans[s].partitions \subseteq PartitionIds
                         /\ LentCells(s)' = LentCells(s)
  BY <1>1, <1>2, LentStays, LoanFields
<1>4. LoansAgree'
  <2>1. PartitionIds' = PartitionIds BY DEF PartitionIds
  <2> SUFFICES ASSUME NEW s \in LoanIds'
               PROVE  /\ loans'[s].partitions \subseteq PartitionIds'
                      /\ loans'[s].job = "running" => loans'[s].admitted
                      /\ loans'[s].access # NoCell =>
                           loans'[s].job = "running" /\ loans'[s].access \in LentCells(s)'
    BY DEF LoansAgree
  <2>2. CASE s = r BY <1>2, <1>3, <2>1, <2>2
  <2>3. CASE s # r BY <1>2, <1>3, <2>1, <2>3 DEF LoansAgree
  <2>4. QED BY <2>2, <2>3
<1>5. LoanKept'
  BY <1>2 DEF LoanKept
<1>6. DirtyAgrees'
  <2>1. \A a \in Allocations : control'[a] => scope'[a] # "none" BY DEF DirtyAgrees
  <2>2. ASSUME NEW cell \in dirty' PROVE scope'[cell[1]] # "none"
    <3>1. CASE cell \in dirty BY <3>1 DEF DirtyAgrees
    <3>2. CASE cell \in LentCells(r)
      <4>1. PICK p \in loans[r].partitions : cell \in CellsOf(p) BY <3>2, LentMember
      <4>2. p \in PartitionIds /\ cell[1] = partitions[p].allocation
        BY <1>3, <4>1, CellsMember
      <4> QED BY <4>2 DEF InBounds
    <3> QED BY <3>1, <3>2
  <2>3. ASSUME NEW cell \in dirty', control'[cell[1]]
        PROVE  \E s \in LoanIds' : /\ loans'[s].job # "over" /\ loans'[s].admitted
                                   /\ cell \in LentCells(s)'
    <3>1. CASE cell \in dirty
      <4>1. PICK s \in LoanIds : /\ loans[s].job # "over" /\ loans[s].admitted
                                 /\ cell \in LentCells(s)
        BY <2>3, <3>1 DEF DirtyAgrees
      <4>2. CASE s = r BY <1>2, <1>3, <4>1, <4>2
      <4>3. CASE s # r BY <1>2, <1>3, <4>1, <4>3
      <4> QED BY <4>2, <4>3
    <3>2. CASE new.admitted /\ cell \in LentCells(r) BY <1>2, <1>3, <3>2
    <3> QED BY <3>1, <3>2
  <2> QED BY <2>1, <2>2, <2>3 DEF DirtyAgrees
<1>7. QED BY <1>1, <1>4, <1>5, <1>6

\* What is left of the invariant beside the types.
Agreement ==
  /\ InBounds /\ HandlesAgree /\ WitnessesAgree /\ LoansAgree
  /\ LoanKept /\ Owned /\ DirtyAgrees

(* The events of a job.                                                    *)
LEMMA JobEvents ==
  ASSUME IInv, NEW r \in LoanIds,
         \/ Admit(r) \/ NeverRuns(r) \/ Writes(r)
         \/ \E cell \in Cells : Checks(r, cell)
         \/ \E outcome \in {"value", "error"} : Stops(r, outcome)
  PROVE  Agreement'
<1> USE DEF IInv
<1>1. /\ loans[r] \in Loan /\ loans[r].partitions \subseteq PartitionIds
      /\ loans[r].admitted \in BOOLEAN
  BY LoanFields
<1>2. loans \in Seq(Loan) BY DEF TypeOK
<1>3. /\ loans[r].job = "running" => loans[r].admitted
      /\ loans[r].access # NoCell =>
           loans[r].job = "running" /\ loans[r].access \in LentCells(r)
  BY DEF LoansAgree
<1>4. CASE Admit(r)
  <2> DEFINE new == [loans[r] EXCEPT !.job = "running", !.admitted = TRUE]
  <2>1. /\ new \in Loan /\ new.partitions = loans[r].partitions
        /\ new.job = "running" /\ new.admitted /\ new.access = loans[r].access
    BY <1>1 DEF Loan
  <2>2. /\ loans' = [loans EXCEPT ![r] = new] /\ loans[r].job = "queued"
        /\ UNCHANGED <<scope, control, partitions, handles, witnesses, dirty>>
    BY <1>2, <1>4 DEF Admit, LoanIds
  <2> HIDE DEF new
  <2> QED BY <1>3, <2>1, <2>2, JobStep DEF Agreement
<1>5. CASE NeverRuns(r)
  <2> DEFINE new == [loans[r] EXCEPT !.job = "error"]
  <2>1. /\ new \in Loan /\ new.partitions = loans[r].partitions
        /\ new.job = "error" /\ new.admitted = loans[r].admitted
        /\ new.access = loans[r].access
    BY <1>1 DEF Loan
  <2>2. /\ loans' = [loans EXCEPT ![r] = new] /\ loans[r].job = "queued"
        /\ UNCHANGED <<scope, control, partitions, handles, witnesses, dirty>>
    BY <1>2, <1>5 DEF NeverRuns, LoanIds
  <2> HIDE DEF new
  <2> QED BY <1>3, <2>1, <2>2, JobStep DEF Agreement
<1>6. CASE Writes(r)
  <2> DEFINE new == [loans[r] EXCEPT !.access = NoCell]
  <2>1. /\ new \in Loan /\ new.partitions = loans[r].partitions
        /\ new.job = loans[r].job /\ new.admitted = loans[r].admitted
        /\ new.access = NoCell
    BY <1>1 DEF Loan
  <2>2. /\ loans' = [loans EXCEPT ![r] = new] /\ loans[r].job = "running"
        /\ loans[r].access # NoCell /\ dirty' = dirty \union {loans[r].access}
        /\ UNCHANGED <<scope, control, partitions, handles, witnesses>>
    BY <1>2, <1>6 DEF Writes, LoanIds
  <2>3. \A cell \in dirty' : cell \in dirty \/ (new.admitted /\ cell \in LentCells(r))
    BY <1>3, <2>1, <2>2
  <2> HIDE DEF new
  <2> QED BY <1>3, <2>1, <2>2, <2>3, JobStep DEF Agreement
<1>7. ASSUME NEW cell \in Cells, Checks(r, cell) PROVE Agreement'
  <2> DEFINE new == [loans[r] EXCEPT !.access = cell]
  <2>1. /\ new \in Loan /\ new.partitions = loans[r].partitions
        /\ new.job = loans[r].job /\ new.admitted = loans[r].admitted
        /\ new.access = cell
    BY <1>1 DEF Loan
  <2>2. /\ loans' = [loans EXCEPT ![r] = new] /\ loans[r].job = "running"
        /\ UNCHANGED <<scope, control, partitions, handles, witnesses, dirty>>
    BY <1>2, <1>7 DEF Checks, LoanIds
  <2>3. cell \in LentCells(r) BY <1>7, LentMember DEF Checks
  <2> HIDE DEF new
  <2> QED BY <1>3, <2>1, <2>2, <2>3, JobStep DEF Agreement
<1>8. ASSUME NEW outcome \in {"value", "error"}, Stops(r, outcome) PROVE Agreement'
  <2> DEFINE new == [loans[r] EXCEPT !.job = outcome, !.access = NoCell]
  <2>1. /\ new \in Loan /\ new.partitions = loans[r].partitions
        /\ new.job = outcome /\ new.admitted = loans[r].admitted
        /\ new.access = NoCell
    BY <1>1 DEF Loan
  <2>2. /\ loans' = [loans EXCEPT ![r] = new] /\ loans[r].job = "running"
        /\ UNCHANGED <<scope, control, partitions, handles, witnesses, dirty>>
    BY <1>2, <1>8 DEF Stops, LoanIds
  <2> HIDE DEF new
  <2> QED BY <1>3, <1>8, <2>1, <2>2, JobStep DEF Agreement
<1>9. QED BY <1>4, <1>5, <1>6, <1>7, <1>8

(* The owning scope is closed, and its closer runs.                        *)
LEMMA ScopeEvents ==
  ASSUME IInv, NEW a \in Allocations, CloseScope(a) \/ Invalidate(a)
  PROVE  Agreement'
<1> USE DEF IInv
<1>1. /\ UNCHANGED <<partitions, handles, witnesses, loans, dirty>>
      /\ \A b \in Allocations : scope[b] = "none" <=> scope'[b] = "none"
      /\ \A b \in Allocations : control'[b] => control[b]
  BY DEF CloseScope, Invalidate, TypeOK
<1>2. InBounds' /\ HandlesAgree' /\ WitnessesAgree' /\ Owned' /\ SameShape
  BY <1>1, PartitionsStay
<1>3. \A r \in LoanIds : LentCells(r)' = LentCells(r)
  BY <1>1, <1>2, LentStays, LoanFields
<1>4. LoansAgree' /\ LoanKept'
  BY <1>1, <1>3 DEF LoansAgree, LoanKept, LoanIds, PartitionIds
<1>5. DirtyAgrees'
  <2>1. \A cell \in dirty : cell[1] \in Allocations BY DEF TypeOK, Cells
  <2> QED BY <1>1, <1>3, <2>1 DEF DirtyAgrees, LoanIds
<1>6. QED BY <1>2, <1>4, <1>5 DEF Agreement

-----------------------------------------------------------------------------
(* Steps that make, divide or unite partitions.                            *)

\* Cell lies between the first and the last of e.
Spans(e, cell) ==
  /\ cell[1] = e.allocation
  /\ e.start <= cell[2] /\ cell[2] < e.start + e.length

(* The cells of a partition are those between its bounds.                  *)
LEMMA CellsBetween ==
  ASSUME NEW e \in Partition, NEW cell \in Cells
  PROVE  cell \in {<<e.allocation, k>> : k \in e.start..(e.start + e.length - 1)}
           <=> Spans(e, cell)
<1>1. PICK a \in Allocations, k \in 0..(Size - 1) : cell = <<a, k>> BY DEF Cells
<1>2. e.start \in Nat /\ e.length \in Nat BY DEF Partition
<1>3. k \in Int BY <1>1, BoundAssumption
<1>4. cell[1] = a /\ cell[2] = k BY <1>1
<1>5. QED BY <1>1, <1>2, <1>3, <1>4 DEF Spans

(* The cells of a partition are those its bounds span.                     *)
LEMMA CellsNow ==
  ASSUME TypeOK, NEW p \in PartitionIds, NEW cell \in Cells
  PROVE  cell \in CellsOf(p) <=> Spans(partitions[p], cell)
BY PartitionFields, CellsBetween DEF CellsOf

(* And so they are after a step.                                           *)
LEMMA CellsNext ==
  ASSUME partitions' \in Seq(Partition), NEW p \in 1..Len(partitions'), NEW cell \in Cells
  PROVE  cell \in CellsOf(p)' <=> Spans(partitions'[p], cell)
<1>1. partitions'[p] \in Partition BY ElementOfSeq
<1>2. QED BY <1>1, CellsBetween DEF CellsOf

(* A new allocation has cells that no partition had.                       *)
LEMMA AllocateStep ==
  ASSUME IInv, NEW a \in Allocations, Allocate(a)
  PROVE  Agreement'
<1> USE DEF IInv
<1>0. PICK n, m : n = Len(partitions) /\ m = Len(handles) OBVIOUS
<1>1. /\ partitions' \in Seq(Partition) /\ Len(partitions') = n + 1
      /\ partitions'[n + 1] = Whole(a)
      /\ \A p \in PartitionIds : partitions'[p] = partitions[p]
      /\ Len(handles') = m + 1 /\ handles'[m + 1] = HandleOf(n + 1, 1)
      /\ \A h \in HandleIds : handles'[h] = handles[h]
  BY <1>0, AllocateEffect
<1>2. /\ scope[a] = "none" /\ scope' = [scope EXCEPT ![a] = "open"]
      /\ control' = [control EXCEPT ![a] = TRUE]
      /\ UNCHANGED <<witnesses, loans, dirty>>
  BY DEF Allocate
<1>3. n \in Nat /\ m \in Nat BY <1>0, PartitionFields
<1>4. /\ \A b \in Allocations : b # a => scope'[b] = scope[b] /\ control'[b] = control[b]
      /\ scope'[a] = "open"
  BY <1>2 DEF TypeOK
<1>5. /\ PartitionIds' = PartitionIds \union {n + 1} /\ n + 1 \notin PartitionIds
      /\ HandleIds' = HandleIds \union {m + 1} /\ m + 1 \notin HandleIds
  BY <1>0, <1>1, <1>3 DEF PartitionIds, HandleIds
<1>6. /\ Whole(a).allocation = a /\ Whole(a).start = 0 /\ Whole(a).length = Size
      /\ Whole(a).generation = 1
  BY DEF Whole
<1>7. InBounds'
  BY <1>1, <1>4, <1>5, <1>6, PartitionFields, BoundAssumption DEF InBounds
<1>8. HandlesAgree'
  <2>1. \A h \in HandleIds : handles[h].partition # n + 1
    BY <1>5 DEF HandlesAgree
  <2>2. HandleOf(n + 1, 1).partition = n + 1 /\ HandleOf(n + 1, 1).generation = 1
    BY DEF HandleOf
  <2>3. ASSUME NEW h \in HandleIds'
        PROVE  /\ handles'[h].partition \in PartitionIds'
               /\ handles'[h].generation <= partitions'[handles'[h].partition].generation
    <3>1. CASE h \in HandleIds BY <1>1, <1>5, <3>1 DEF HandlesAgree
    <3>2. CASE h = m + 1 BY <1>1, <1>5, <1>6, <2>2, <3>2
    <3> QED BY <1>5, <3>1, <3>2
  <2>4. ASSUME NEW h \in HandleIds', NEW g \in HandleIds', handles'[g] = handles'[h]
        PROVE  g = h
    <3>1. CASE g \in HandleIds /\ h \in HandleIds BY <1>1, <2>4, <3>1 DEF HandlesAgree
    <3>2. CASE g = m + 1 BY <1>1, <1>5, <2>1, <2>2, <2>4, <3>2
    <3>3. CASE h = m + 1 BY <1>1, <1>5, <2>1, <2>2, <2>4, <3>3
    <3> QED BY <1>5, <3>1, <3>2, <3>3
  <2> QED BY <2>3, <2>4 DEF HandlesAgree
<1>9. WitnessesAgree'
  <2>1. WitnessIds' = WitnessIds BY <1>2 DEF WitnessIds
  <2>2. \A w \in WitnessIds :
          /\ witnesses[w].parent \in PartitionIds /\ witnesses[w].left \in PartitionIds
          /\ witnesses[w].right \in PartitionIds
    BY DEF WitnessesAgree, Halves
  <2>3. \A w \in WitnessIds :
          Halves(witnesses[w].parent, witnesses[w].left, witnesses[w].right)'
    BY <1>1, <1>2, <1>5, <2>2 DEF WitnessesAgree, Halves
  <2> QED BY <1>1, <1>2, <1>5, <2>1, <2>2, <2>3 DEF WitnessesAgree, Apart
<1>10. SameShape BY <1>1, <1>5 DEF SameShape
<1>11. \A r \in LoanIds : LentCells(r)' = LentCells(r)
  BY <1>2, <1>10, LentStays, LoanFields
<1>12. LoansAgree' /\ LoanKept'
  <2>1. LoanIds' = LoanIds BY <1>2 DEF LoanIds
  <2>2. LoansAgree' BY <1>2, <1>5, <1>11, <2>1 DEF LoansAgree
  <2>3. LoanKept'
    BY <1>1, <1>2, <2>1, LoanFields DEF LoanKept
  <2> QED BY <2>2, <2>3
<1>13. Owned'
  <2>1. Leaves' = Leaves \union {n + 1}
    <3>1. partitions'[n + 1].phase = "idle" BY <1>1 DEF Whole
    <3> QED BY <1>1, <1>5, <3>1 DEF Leaves
  <2>2. \A p \in Leaves : p \in PartitionIds /\ CellsOf(p)' = CellsOf(p)
    BY <1>10, ShapeCells DEF Leaves
  <2>3. \A cell \in Cells : cell \in CellsOf(n + 1)' <=> cell[1] = a
    <3> SUFFICES ASSUME NEW cell \in Cells PROVE cell \in CellsOf(n + 1)' <=> cell[1] = a
      OBVIOUS
    <3>1. cell \in CellsOf(n + 1)' <=> Spans(Whole(a), cell)
      BY <1>1, <1>3, CellsNext
    <3>2. cell[2] \in 0..(Size - 1) BY DEF Cells
    <3> QED BY <3>1, <3>2, <1>6, BoundAssumption DEF Spans
  <2>4. \A p \in Leaves : \A cell \in Cells : cell \in CellsOf(p) => cell[1] # a
    BY <1>2, <2>2, CellsMember DEF InBounds
  <2>5. ASSUME NEW cell \in Cells, scope'[cell[1]] # "none"
        PROVE  \E p \in PartitionIds' : Owns(p, cell)'
    <3>1. CASE cell[1] = a
      <4>1. Owns(n + 1, cell)' BY <2>1, <2>2, <2>3, <2>4, <3>1 DEF Owns
      <4> QED BY <1>5, <4>1
    <3>2. CASE cell[1] # a
      <4>1. cell[1] \in Allocations BY DEF Cells
      <4>2. PICK p \in PartitionIds : Owns(p, cell)
        BY <1>4, <2>5, <3>2, <4>1 DEF Owned
      <4>3. Owns(p, cell)' BY <2>1, <2>2, <2>3, <3>2, <4>2 DEF Owns
      <4> QED BY <1>5, <4>3
    <3> QED BY <3>1, <3>2
  <2> QED BY <2>5 DEF Owned, Cells
<1>14. DirtyAgrees'
  <2>1. \A cell \in dirty : cell[1] \in Allocations /\ cell[1] # a
    BY <1>2 DEF TypeOK, Cells, DirtyAgrees
  <2>2. LoanIds' = LoanIds BY <1>2 DEF LoanIds
  <2> QED BY <1>2, <1>4, <1>11, <2>1, <2>2 DEF DirtyAgrees
<1>15. QED BY <1>7, <1>8, <1>9, <1>12, <1>13, <1>14 DEF Agreement

(* The cells of p go to the two new partitions, each to one of them.       *)
LEMMA SplitStep ==
  ASSUME IInv, NEW h \in HandleIds, NEW boundary \in 0..Size, Split(h, boundary)
  PROVE  Agreement'
<1> USE DEF IInv
<1>0. PICK p \in PartitionIds, n \in Nat, m \in Nat : Divides(h, boundary, p, n, m)
  BY SplitEffect
<1>20. PICK k \in Nat : k = Len(witnesses) BY PartitionFields
<1>1. /\ p \in PartitionIds /\ p = handles[h].partition
      /\ n = Len(partitions) /\ m = Len(handles)
      /\ partitions' \in Seq(Partition) /\ Len(partitions') = n + 2
      /\ \A q \in PartitionIds : q # p => partitions'[q] = partitions[q]
      /\ partitions'[p] = [partitions[p] EXCEPT !.phase = "split", !.by = k + 1]
      /\ partitions'[n + 1] = Piece(p, partitions[p].start, boundary)
      /\ partitions'[n + 2] = Piece(p, partitions[p].start + boundary,
                                    partitions[p].length - boundary)
      /\ Len(handles') = m + 2
      /\ handles'[m + 1] = HandleOf(n + 1, 1)
      /\ handles'[m + 2] = HandleOf(n + 2, 1)
      /\ \A g \in HandleIds : handles'[g] = handles[g]
  BY <1>0, <1>20 DEF Divides
<1>2. /\ n \in Nat /\ m \in Nat /\ k \in Nat
      /\ partitions[p] \in Partition
      /\ partitions[p].start \in 0..Size /\ partitions[p].length \in 0..Size
      /\ partitions[p].allocation \in Allocations
  BY <1>1, PartitionFields
<1>3. /\ partitions[p].phase = "idle" /\ boundary <= partitions[p].length
      /\ UNCHANGED <<scope, control, loans, dirty>>
  BY <1>1 DEF Split, Usable, Idle, Within
<1>4. /\ partitions'[p].phase = "split" /\ partitions'[p].by = k + 1
      /\ partitions'[p].allocation = partitions[p].allocation
      /\ partitions'[p].start = partitions[p].start
      /\ partitions'[p].length = partitions[p].length
      /\ partitions'[p].generation = partitions[p].generation
  BY <1>1, <1>2 DEF Partition
<1>5. /\ partitions'[n + 1].allocation = partitions[p].allocation
      /\ partitions'[n + 1].start = partitions[p].start
      /\ partitions'[n + 1].length = boundary
      /\ partitions'[n + 1].generation = 1
      /\ partitions'[n + 1].phase = "idle"
  BY <1>1, <1>2, <1>3 DEF Piece, Partition
<1>6. /\ partitions'[n + 2].allocation = partitions[p].allocation
      /\ partitions'[n + 2].start = partitions[p].start + boundary
      /\ partitions'[n + 2].length = partitions[p].length - boundary
      /\ partitions'[n + 2].generation = 1
      /\ partitions'[n + 2].phase = "idle"
  BY <1>1, <1>2, <1>3 DEF Piece, Partition
<1>7. /\ PartitionIds' = PartitionIds \union {n + 1, n + 2}
      /\ n + 1 \notin PartitionIds /\ n + 2 \notin PartitionIds /\ n + 1 # n + 2
      /\ HandleIds' = HandleIds \union {m + 1, m + 2}
      /\ m + 1 \notin HandleIds /\ m + 2 \notin HandleIds /\ m + 1 # m + 2
  <2>1. PartitionIds = 1..n /\ PartitionIds' = 1..(n + 2)
        /\ HandleIds = 1..m /\ HandleIds' = 1..(m + 2)
    BY <1>1 DEF PartitionIds, HandleIds
  <2> QED BY ONLY <1>2, <2>1
<1>8. SameShape BY <1>1, <1>4, <1>7 DEF SameShape
<1>9. InBounds'
  <2>1. partitions[p].start + partitions[p].length <= Size
        /\ scope[partitions[p].allocation] # "none"
    BY <1>1 DEF InBounds
  <2>2. \A q \in PartitionIds :
          /\ partitions'[q].start + partitions'[q].length <= Size
          /\ scope'[partitions'[q].allocation] # "none"
    BY <1>3, <1>8 DEF InBounds, SameShape
  <2>3. /\ partitions'[n + 1].start + partitions'[n + 1].length <= Size
        /\ scope'[partitions'[n + 1].allocation] # "none"
    BY <2>1, <1>2, <1>3, <1>5, BoundAssumption
  <2>4. /\ partitions'[n + 2].start + partitions'[n + 2].length <= Size
        /\ scope'[partitions'[n + 2].allocation] # "none"
    BY <2>1, <1>2, <1>3, <1>6, BoundAssumption
  <2> QED BY <1>7, <2>2, <2>3, <2>4 DEF InBounds
<1>10. HandlesAgree'
  <2>1. \A g \in HandleIds : handles[g].partition \in PartitionIds
    BY DEF HandlesAgree
  <2>2. /\ handles'[m + 1].partition = n + 1 /\ handles'[m + 1].generation = 1
        /\ handles'[m + 2].partition = n + 2 /\ handles'[m + 2].generation = 1
    BY <1>1 DEF HandleOf
  <2>3. ASSUME NEW g \in HandleIds'
        PROVE  /\ handles'[g].partition \in PartitionIds'
               /\ handles'[g].generation <= partitions'[handles'[g].partition].generation
    <3>1. CASE g \in HandleIds
      <4>1. \A q \in PartitionIds : partitions'[q].generation = partitions[q].generation
        BY <1>1, <1>4
      <4> QED BY <1>1, <1>7, <3>1, <4>1 DEF HandlesAgree
    <3>2. CASE g = m + 1 BY <1>5, <1>7, <2>2, <3>2
    <3>3. CASE g = m + 2 BY <1>6, <1>7, <2>2, <3>3
    <3> QED BY <1>7, <3>1, <3>2, <3>3
  <2>4. ASSUME NEW g \in HandleIds', NEW f \in HandleIds', handles'[f] = handles'[g]
        PROVE  f = g
    <3>1. CASE f \in HandleIds /\ g \in HandleIds BY <1>1, <2>4, <3>1 DEF HandlesAgree
    <3>2. CASE f \in HandleIds /\ g \notin HandleIds BY <1>1, <1>7, <2>1, <2>2, <2>4, <3>2
    <3>3. CASE f \notin HandleIds /\ g \in HandleIds BY <1>1, <1>7, <2>1, <2>2, <2>4, <3>3
    <3>4. CASE f \notin HandleIds /\ g \notin HandleIds BY <1>7, <2>2, <2>4, <3>4
    <3> QED BY <3>1, <3>2, <3>3, <3>4
  <2> QED BY <2>3, <2>4 DEF HandlesAgree
<1>11. WitnessesAgree'
  <2> DEFINE new == [parent |-> p, left |-> n + 1, right |-> n + 2, consumed |-> FALSE]
  <2>1. witnesses' = Append(witnesses, new) BY <1>1 DEF Split
  <2>2. /\ WitnessIds' = WitnessIds \union {k + 1} /\ k + 1 \notin WitnessIds
        /\ witnesses'[k + 1] = new /\ \A w \in WitnessIds : witnesses'[w] = witnesses[w]
    BY <1>20, <2>1 DEF WitnessIds, TypeOK
  <2>3. \A w \in WitnessIds :
          /\ witnesses[w].parent \in PartitionIds /\ witnesses[w].left \in PartitionIds
          /\ witnesses[w].right \in PartitionIds
          /\ Halves(witnesses[w].parent, witnesses[w].left, witnesses[w].right)
    BY DEF WitnessesAgree, Halves
  <2>4. \A w \in WitnessIds :
          Halves(witnesses[w].parent, witnesses[w].left, witnesses[w].right)'
    BY <1>8, <2>2, <2>3 DEF SameShape, Halves
  <2>5. Halves(p, n + 1, n + 2)'
    <3>1. p < n + 1 BY <1>1, <1>2 DEF PartitionIds
    <3>2. /\ partitions'[p].length = partitions'[n + 1].length + partitions'[n + 2].length
          /\ n + 1 < n + 2
      BY <1>2, <1>4, <1>5, <1>6
    <3> QED BY <1>4, <1>5, <1>6, <1>7, <3>1, <3>2 DEF Halves
  <2>6. ASSUME NEW w \in WitnessIds, NEW v \in WitnessIds', v # w
        PROVE  Apart(v, w)' /\ Apart(w, v)'
    <3>1. CASE v \in WitnessIds
      BY <2>2, <2>6, <3>1 DEF WitnessesAgree, Apart
    <3>2. CASE v = k + 1
      BY <1>7, <2>2, <2>3, <3>2 DEF Apart
    <3> QED BY <2>2, <3>1, <3>2
  <2>7. ASSUME NEW w \in WitnessIds
        PROVE  /\ witnesses[w].parent \in PartitionIds'
               /\ ~witnesses[w].consumed =>
                    /\ partitions'[witnesses[w].parent].phase = "split"
                    /\ partitions'[witnesses[w].parent].by = w
               /\ partitions'[witnesses[w].left].phase = "joined" <=> witnesses[w].consumed
               /\ partitions'[witnesses[w].right].phase = "joined" <=> witnesses[w].consumed
    <3>1. \A q \in PartitionIds : partitions'[q].phase = "joined" <=>
                                    partitions[q].phase = "joined"
      BY <1>1, <1>3, <1>4
    <3>2. /\ ~witnesses[w].consumed => /\ partitions[witnesses[w].parent].phase = "split"
                                      /\ partitions[witnesses[w].parent].by = w
          /\ partitions[witnesses[w].left].phase = "joined" <=> witnesses[w].consumed
          /\ partitions[witnesses[w].right].phase = "joined" <=> witnesses[w].consumed
      BY DEF WitnessesAgree
    <3>3. ~witnesses[w].consumed => witnesses[w].parent # p BY <1>3, <3>2
    <3>4. ~witnesses[w].consumed =>
            partitions'[witnesses[w].parent] = partitions[witnesses[w].parent]
      BY <1>1, <2>3, <3>3
    <3>5. witnesses[w].parent \in PartitionIds' BY <1>7, <2>3
    <3>6. /\ partitions'[witnesses[w].left].phase = "joined" <=> witnesses[w].consumed
          /\ partitions'[witnesses[w].right].phase = "joined" <=> witnesses[w].consumed
      BY ONLY <2>3, <2>7, <3>1, <3>2
    <3> QED BY ONLY <3>2, <3>4, <3>5, <3>6
  <2>8. ASSUME NEW w \in WitnessIds'
        PROVE  /\ witnesses'[w].parent \in PartitionIds'
               /\ Halves(witnesses[w].parent, witnesses[w].left, witnesses[w].right)'
               /\ ~witnesses'[w].consumed =>
                    /\ partitions'[witnesses'[w].parent].phase = "split"
                    /\ partitions'[witnesses'[w].parent].by = w
               /\ partitions'[witnesses'[w].left].phase = "joined" <=> witnesses'[w].consumed
               /\ partitions'[witnesses'[w].right].phase = "joined" <=> witnesses'[w].consumed
               /\ \A v \in WitnessIds' : v # w => Apart(v, w)'
    <3>1. CASE w \in WitnessIds BY <2>2, <2>4, <2>6, <2>7, <3>1
    <3>2. CASE w = k + 1
      <4>1. /\ witnesses'[w].parent = p /\ witnesses'[w].left = n + 1
            /\ witnesses'[w].right = n + 2 /\ ~witnesses'[w].consumed
        BY <2>2, <3>2
      <4>2. Halves(witnesses[w].parent, witnesses[w].left, witnesses[w].right)'
        BY <2>5, <4>1 DEF Halves
      <4>3. \A v \in WitnessIds' : v # w => Apart(v, w)'
        BY <2>2, <2>6, <3>2
      <4> QED BY <1>1, <1>4, <1>5, <1>6, <1>7, <3>2, <4>1, <4>2, <4>3
    <3> QED BY <2>2, <3>1, <3>2
  <2> QED BY <2>8 DEF WitnessesAgree
<1>12. \A r \in LoanIds : LentCells(r)' = LentCells(r)
  BY <1>3, <1>8, LentStays, LoanFields
<1>13. LoansAgree' /\ LoanKept' /\ DirtyAgrees'
  <2>1. LoanIds' = LoanIds BY <1>3 DEF LoanIds
  <2>2. LoansAgree' BY <1>3, <1>7, <1>12, <2>1 DEF LoansAgree
  <2>3. LoanKept' BY <1>1, <1>3, <2>1, LoanFields DEF LoanKept
  <2>4. DirtyAgrees' BY <1>3, <1>12, <2>1 DEF DirtyAgrees
  <2> QED BY <2>2, <2>3, <2>4
<1>14. Owned'
  <2>1. Leaves' = (Leaves \ {p}) \union {n + 1, n + 2} /\ p \in Leaves
    <3>1. \A q \in PartitionIds : q # p => partitions'[q].phase = partitions[q].phase
      BY <1>1
    <3> DEFINE live == {"idle", "running"}
    <3>2. /\ partitions'[p].phase \notin live
          /\ partitions'[n + 1].phase \in live /\ partitions'[n + 2].phase \in live
      BY <1>4, <1>5, <1>6
    <3>3. /\ Leaves = {q \in PartitionIds : partitions[q].phase \in live}
          /\ Leaves' = {q \in PartitionIds' : partitions'[q].phase \in live}
          /\ partitions[p].phase \in live
      BY <1>3 DEF Leaves
    <3> HIDE DEF live
    <3> QED BY ONLY <1>1, <1>7, <3>1, <3>2, <3>3
  <2>2. \A q \in Leaves : q \in PartitionIds /\ CellsOf(q)' = CellsOf(q)
    BY <1>8, ShapeCells DEF Leaves
  <2>3. ASSUME NEW cell \in Cells
        PROVE  /\ cell \in CellsOf(n + 1)' <=>
                    cell \in CellsOf(p) /\ cell[2] < partitions[p].start + boundary
               /\ cell \in CellsOf(n + 2)' <=>
                    cell \in CellsOf(p) /\ ~(cell[2] < partitions[p].start + boundary)
    <3>1. cell \in CellsOf(p) <=> Spans(partitions[p], cell) BY <1>1, CellsNow
    <3>2. /\ cell \in CellsOf(n + 1)' <=> Spans(partitions'[n + 1], cell)
          /\ cell \in CellsOf(n + 2)' <=> Spans(partitions'[n + 2], cell)
      BY <1>1, <1>2, CellsNext
    <3>3. cell[2] \in Int BY BoundAssumption DEF Cells
    <3> QED BY <1>2, <1>3, <1>5, <1>6, <3>1, <3>2, <3>3 DEF Spans
  <2>4. ASSUME NEW cell \in Cells, scope'[cell[1]] # "none"
        PROVE  \E q \in PartitionIds' : Owns(q, cell)'
    <3>1. PICK o \in PartitionIds : Owns(o, cell) BY <1>3, <2>4 DEF Owned
    <3>2. CASE o # p
      <4>1. cell \notin CellsOf(p) BY <2>1, <3>1, <3>2 DEF Owns
      <4>2. Owns(o, cell)' BY <2>1, <2>2, <2>3, <3>1, <3>2, <4>1 DEF Owns
      <4> QED BY <1>7, <4>2
    <3>3. CASE o = p
      <4>1. \A q \in Leaves \ {p} : cell \notin CellsOf(q)'
        BY <2>2, <3>1, <3>3 DEF Owns
      <4>2. cell \in CellsOf(p) BY <3>1, <3>3 DEF Owns
      <4>3. CASE cell[2] < partitions[p].start + boundary
        <5>1. Owns(n + 1, cell)' BY <2>1, <2>3, <4>1, <4>2, <4>3 DEF Owns
        <5> QED BY <1>7, <5>1
      <4>4. CASE ~(cell[2] < partitions[p].start + boundary)
        <5>1. Owns(n + 2, cell)' BY <2>1, <2>3, <4>1, <4>2, <4>4 DEF Owns
        <5> QED BY <1>7, <5>1
      <4> QED BY <4>3, <4>4
    <3> QED BY <3>2, <3>3
  <2> QED BY <2>4 DEF Owned, Cells
<1>15. QED BY <1>9, <1>10, <1>11, <1>13, <1>14 DEF Agreement

(* The halves of a split give their cells back to the partition they were  *)
(* made from.                                                              *)
LEMMA JoinStep ==
  ASSUME IInv, NEW w \in WitnessIds, Join(w)
  PROVE  Agreement'
<1> USE DEF IInv
<1>0. PICK p \in PartitionIds, left \in PartitionIds, right \in PartitionIds :
         Rejoins(w, p, left, right)
  BY JoinEffect
<1>1. /\ p = witnesses[w].parent
      /\ left = witnesses[w].left /\ right = witnesses[w].right
      /\ Halves(p, left, right) /\ ~witnesses[w].consumed
      /\ p # left /\ p # right /\ left # right
      /\ partitions[p].phase = "split" /\ partitions[p].by = w
      /\ partitions[left].phase = "idle" /\ partitions[right].phase = "idle"
      /\ partitions' \in Seq(Partition) /\ Len(partitions') = Len(partitions)
      /\ \A q \in PartitionIds : q \notin {p, left, right} =>
                                    partitions'[q] = partitions[q]
      /\ partitions'[left] = [partitions[left] EXCEPT !.phase = "joined"]
      /\ partitions'[right] = [partitions[right] EXCEPT !.phase = "joined"]
      /\ partitions'[p] = [partitions[p] EXCEPT !.phase = "idle",
                             !.generation = partitions[p].generation + 1]
  BY <1>0 DEF Rejoins
<1>2. /\ UNCHANGED <<scope, control, loans, dirty>>
      /\ witnesses' = [witnesses EXCEPT ![w].consumed = TRUE]
      /\ handles' = IF Open(p)
                    THEN Append(handles, HandleOf(p, partitions[p].generation + 1))
                    ELSE handles
  BY <1>1 DEF Join
<1>3. /\ \A q \in PartitionIds : partitions[q] \in Partition
      /\ partitions[p].generation \in Nat
  BY PartitionFields
<1>4. /\ partitions'[left].phase = "joined" /\ partitions'[right].phase = "joined"
      /\ partitions'[p].phase = "idle"
      /\ partitions'[p].generation = partitions[p].generation + 1
      /\ partitions'[left].generation = partitions[left].generation
      /\ partitions'[right].generation = partitions[right].generation
  <2>1. /\ partitions[left] \in Partition /\ partitions[right] \in Partition
        /\ partitions[p] \in Partition
    BY <1>3
  <2>2. /\ partitions'[left].phase = "joined"
        /\ partitions'[left].generation = partitions[left].generation
    BY ONLY <1>1, <2>1, MarkFields
  <2>3. /\ partitions'[right].phase = "joined"
        /\ partitions'[right].generation = partitions[right].generation
    BY ONLY <1>1, <2>1, MarkFields
  <2>4. /\ partitions'[p].phase = "idle"
        /\ partitions'[p].generation = partitions[p].generation + 1
    BY ONLY <1>1, <2>1, RenewFields
  <2> QED BY ONLY <2>2, <2>3, <2>4
<1>5. PartitionIds' = PartitionIds BY <1>1 DEF PartitionIds
<1>6. SameShape
  <2> DEFINE Same(q) == /\ partitions'[q].allocation = partitions[q].allocation
                        /\ partitions'[q].start = partitions[q].start
                        /\ partitions'[q].length = partitions[q].length
  <2>1. /\ partitions[left] \in Partition /\ partitions[right] \in Partition
        /\ partitions[p] \in Partition
    BY <1>3
  <2>2. Same(left) BY ONLY <1>1, <2>1, MarkFields
  <2>3. Same(right) BY ONLY <1>1, <2>1, MarkFields
  <2>4. Same(p) BY ONLY <1>1, <2>1, RenewFields
  <2>5. \A q \in PartitionIds : q \notin {p, left, right} => Same(q) BY <1>1
  <2>6. \A q \in PartitionIds : Same(q)
    <3> HIDE DEF Same
    <3> QED BY <2>2, <2>3, <2>4, <2>5
  <2> QED BY <1>5, <2>6 DEF SameShape
<1>7. InBounds' BY <1>2, <1>5, <1>6 DEF InBounds, SameShape
<1>8. HandlesAgree'
  <2>1. \A q \in PartitionIds : partitions[q].generation <= partitions'[q].generation
    <3>1. \A q \in PartitionIds : partitions[q].generation \in Nat BY PartitionFields
    <3>2. \A q \in PartitionIds : q # p =>
            partitions'[q].generation = partitions[q].generation
      BY ONLY <1>1, <1>4
    <3> QED BY ONLY <1>4, <3>1, <3>2
  <2>2. \A h \in HandleIds :
          /\ handles[h].partition \in PartitionIds
          /\ handles[h].generation <= partitions[handles[h].partition].generation
          /\ handles[h].generation \in Nat
          /\ \A g \in HandleIds : handles[g] = handles[h] => g = h
    <3>1. \A h \in HandleIds : handles[h] \in Handle
      BY ElementOfSeq DEF TypeOK, HandleIds
    <3> QED BY <3>1 DEF HandlesAgree, Handle
  <2>3. \A h \in HandleIds :
          handles[h].generation <= partitions'[handles[h].partition].generation
    <3>1. \A q \in PartitionIds : /\ partitions[q].generation \in Nat
                                  /\ partitions'[q].generation \in Nat
      <4>1. \A q \in PartitionIds : partitions[q].generation \in Nat
        BY PartitionFields
      <4>2. \A q \in PartitionIds : q # p =>
              partitions'[q].generation = partitions[q].generation
        BY ONLY <1>1, <1>4
      <4> QED BY ONLY <1>3, <1>4, <4>1, <4>2
    <3> QED BY ONLY <2>1, <2>2, <3>1
  <2>4. CASE ~Open(p)
    <3>1. handles' = handles /\ HandleIds' = HandleIds BY <1>2, <2>4 DEF HandleIds
    <3> QED BY <1>5, <2>2, <2>3, <3>1 DEF HandlesAgree
  <2>5. CASE Open(p)
    <3> DEFINE new == HandleOf(p, partitions[p].generation + 1)
    <3>1. new.partition = p /\ new.generation = partitions[p].generation + 1
      BY DEF HandleOf
    <3>2. handles' = Append(handles, new) BY <1>2, <2>5
    <3> HIDE DEF new
    <3>3. PICK m \in Nat : m = Len(handles) BY PartitionFields
    <3>4. /\ HandleIds' = HandleIds \union {m + 1} /\ m + 1 \notin HandleIds
          /\ handles'[m + 1] = new /\ \A h \in HandleIds : handles'[h] = handles[h]
      BY <3>2, <3>3 DEF HandleIds, TypeOK
    <3>5. \A h \in HandleIds : handles[h] # new
      BY <1>3, <2>2, <3>1
    <3>6. ASSUME NEW h \in HandleIds'
          PROVE  /\ handles'[h].partition \in PartitionIds'
                 /\ handles'[h].generation <= partitions'[handles'[h].partition].generation
      <4>1. CASE h \in HandleIds BY <1>5, <2>2, <2>3, <3>4, <4>1
      <4>2. CASE h = m + 1 BY <1>3, <1>4, <1>5, <3>1, <3>4, <4>2
      <4> QED BY <3>4, <4>1, <4>2
    <3>7. ASSUME NEW h \in HandleIds', NEW g \in HandleIds', handles'[g] = handles'[h]
          PROVE  g = h
      BY <2>2, <3>4, <3>5, <3>7
    <3> QED BY <3>6, <3>7 DEF HandlesAgree
  <2> QED BY <2>4, <2>5
<1>9. WitnessesAgree'
  <2>1. \A v \in WitnessIds :
          /\ witnesses[v].parent \in PartitionIds /\ witnesses[v].left \in PartitionIds
          /\ witnesses[v].right \in PartitionIds
          /\ Halves(witnesses[v].parent, witnesses[v].left, witnesses[v].right)
          /\ ~witnesses[v].consumed => /\ partitions[witnesses[v].parent].phase = "split"
                                       /\ partitions[witnesses[v].parent].by = v
          /\ partitions[witnesses[v].left].phase = "joined" <=> witnesses[v].consumed
          /\ partitions[witnesses[v].right].phase = "joined" <=> witnesses[v].consumed
          /\ \A u \in WitnessIds : u # v => Apart(u, v)
    BY DEF WitnessesAgree, Halves
  <2>2. /\ WitnessIds' = WitnessIds
        /\ \A v \in WitnessIds : /\ witnesses'[v].parent = witnesses[v].parent
                                 /\ witnesses'[v].left = witnesses[v].left
                                 /\ witnesses'[v].right = witnesses[v].right
                                 /\ v # w => witnesses'[v].consumed = witnesses[v].consumed
        /\ witnesses'[w].consumed
    <3>1. witnesses \in Seq(Rejoin) BY DEF TypeOK
    <3>2. \A v \in WitnessIds : witnesses[v] \in Rejoin
      BY <3>1, ElementOfSeq DEF WitnessIds
    <3>3. [witnesses[w] EXCEPT !.consumed = TRUE] \in Rejoin BY <3>2 DEF Rejoin
    <3>4. witnesses' = [witnesses EXCEPT ![w] = [witnesses[w] EXCEPT !.consumed = TRUE]]
      BY <1>2
    <3>5. /\ Len(witnesses') = Len(witnesses)
          /\ \A v \in 1..Len(witnesses) : witnesses'[v] =
               IF v = w THEN [witnesses[w] EXCEPT !.consumed = TRUE] ELSE witnesses[v]
      BY <3>1, <3>3, <3>4, ExceptSeq DEF WitnessIds
    <3> QED BY <3>2, <3>5 DEF WitnessIds, Rejoin
  <2>3. \A v \in WitnessIds :
          Halves(witnesses[v].parent, witnesses[v].left, witnesses[v].right)'
    BY <1>6, <2>1, <2>2 DEF SameShape, Halves
  <2>4. ASSUME NEW v \in WitnessIds, v # w
        PROVE  /\ ~witnesses[v].consumed =>
                    /\ partitions'[witnesses[v].parent].phase = "split"
                    /\ partitions'[witnesses[v].parent].by = v
               /\ partitions'[witnesses[v].left].phase = "joined" <=> witnesses[v].consumed
               /\ partitions'[witnesses[v].right].phase = "joined" <=> witnesses[v].consumed
    <3>1. ~witnesses[v].consumed => witnesses[v].parent \notin {p, left, right}
      BY <1>1, <2>1, <2>4
    <3>2. /\ witnesses[v].left \notin {left, right}
          /\ witnesses[v].right \notin {left, right}
      <4>1. Apart(v, w) /\ Apart(w, v) BY <2>1, <2>4
      <4> QED BY <1>1, <4>1 DEF Apart
    <3>3. \A q \in PartitionIds : q \notin {left, right} =>
            (partitions'[q].phase = "joined" <=> partitions[q].phase = "joined")
      BY <1>1, <1>4
    <3> QED BY <1>1, <2>1, <3>1, <3>2, <3>3
  <2>5. ASSUME NEW v \in WitnessIds'
        PROVE  /\ witnesses'[v].parent \in PartitionIds'
               /\ Halves(witnesses[v].parent, witnesses[v].left, witnesses[v].right)'
               /\ ~witnesses'[v].consumed =>
                    /\ partitions'[witnesses'[v].parent].phase = "split"
                    /\ partitions'[witnesses'[v].parent].by = v
               /\ partitions'[witnesses'[v].left].phase = "joined" <=> witnesses'[v].consumed
               /\ partitions'[witnesses'[v].right].phase = "joined" <=> witnesses'[v].consumed
               /\ \A u \in WitnessIds' : u # v => Apart(u, v)'
    <3>1. \A u \in WitnessIds' : u # v => Apart(u, v)'
      BY <2>1, <2>2 DEF Apart
    <3>2. CASE v = w BY <1>1, <1>4, <1>5, <2>1, <2>2, <2>3, <3>1, <3>2
    <3>3. CASE v # w BY <1>5, <2>1, <2>2, <2>3, <2>4, <3>1, <3>3
    <3> QED BY <3>2, <3>3
  <2> QED BY <2>5 DEF WitnessesAgree
<1>10. \A r \in LoanIds : LentCells(r)' = LentCells(r)
  BY <1>2, <1>6, LentStays, LoanFields
<1>11. LoansAgree' /\ LoanKept' /\ DirtyAgrees'
  <2>1. LoanIds' = LoanIds BY <1>2 DEF LoanIds
  <2>2. LoansAgree' BY <1>2, <1>5, <1>10, <2>1 DEF LoansAgree
  <2>3. LoanKept'
    <3>1. \A q \in PartitionIds : partitions[q].phase = "running" =>
                                    partitions'[q] = partitions[q]
      BY <1>1
    <3> QED BY <1>2, <2>1, <3>1, LoanFields DEF LoanKept
  <2>4. DirtyAgrees' BY <1>2, <1>10, <2>1 DEF DirtyAgrees
  <2> QED BY <2>2, <2>3, <2>4
<1>12. Owned'
  <2>1. /\ Leaves' = (Leaves \ {left, right}) \union {p} /\ p \notin Leaves
        /\ left \in Leaves /\ right \in Leaves
    <3>1. \A q \in PartitionIds : q \notin {p, left, right} =>
            partitions'[q].phase = partitions[q].phase
      BY <1>1
    <3> DEFINE live == {"idle", "running"}
    <3>2. /\ partitions'[p].phase \in live /\ partitions[p].phase \notin live
          /\ partitions'[left].phase \notin live /\ partitions[left].phase \in live
          /\ partitions'[right].phase \notin live /\ partitions[right].phase \in live
      BY <1>1, <1>4
    <3>3. /\ Leaves = {q \in PartitionIds : partitions[q].phase \in live}
          /\ Leaves' = {q \in PartitionIds : partitions'[q].phase \in live}
      BY <1>5 DEF Leaves
    <3> HIDE DEF live
    <3>4. /\ p \in PartitionIds /\ left \in PartitionIds /\ right \in PartitionIds
          /\ p # left /\ p # right
      BY <1>1
    <3> QED BY ONLY <3>1, <3>2, <3>3, <3>4
  <2>2. \A q \in PartitionIds : CellsOf(q)' = CellsOf(q)
    BY <1>6, ShapeCells
  <2>3. ASSUME NEW cell \in Cells
        PROVE  cell \in CellsOf(p) <=> cell \in CellsOf(left) \/ cell \in CellsOf(right)
    <3>1. /\ cell \in CellsOf(p) <=> Spans(partitions[p], cell)
          /\ cell \in CellsOf(left) <=> Spans(partitions[left], cell)
          /\ cell \in CellsOf(right) <=> Spans(partitions[right], cell)
      BY CellsNow
    <3>2. cell[2] \in Int BY BoundAssumption DEF Cells
    <3>3. /\ partitions[p].start \in Int /\ partitions[left].length \in Nat
          /\ partitions[right].length \in Nat
      BY PartitionFields, BoundAssumption
    <3>4. /\ partitions[left].allocation = partitions[p].allocation
          /\ partitions[right].allocation = partitions[p].allocation
          /\ partitions[left].start = partitions[p].start
          /\ partitions[right].start = partitions[left].start + partitions[left].length
          /\ partitions[p].length = partitions[left].length + partitions[right].length
      BY <1>1 DEF Halves
    <3> QED BY ONLY <3>1, <3>2, <3>3, <3>4 DEF Spans
  <2>4. ASSUME NEW cell \in Cells, scope'[cell[1]] # "none"
        PROVE  \E q \in PartitionIds' : Owns(q, cell)'
    <3>1. PICK o \in PartitionIds : Owns(o, cell) BY <1>2, <2>4 DEF Owned
    <3>2. CASE o \in {left, right}
      <4>1. Owns(p, cell)'
        BY <2>1, <2>2, <2>3, <3>1, <3>2 DEF Owns, Leaves
      <4> QED BY <1>5, <4>1
    <3>3. CASE o \notin {left, right}
      <4>1. cell \notin CellsOf(p)
        BY <2>1, <2>3, <3>1, <3>3 DEF Owns
      <4>2. Owns(o, cell)' BY <2>1, <2>2, <3>1, <3>3, <4>1 DEF Owns, Leaves
      <4> QED BY <1>5, <4>2
    <3> QED BY <3>2, <3>3
  <2> QED BY <2>4 DEF Owned, Cells
<1>13. QED BY <1>7, <1>8, <1>9, <1>11, <1>12 DEF Agreement

-----------------------------------------------------------------------------
(* Steps that claim partitions and give them back.                         *)

(* A change between idle and running is none to handles, witnesses and     *)
(* cells.                                                                  *)
LEMMA ClaimStep ==
  ASSUME IInv, partitions' \in Seq(Partition), Len(partitions') = Len(partitions),
         UNCHANGED <<handles, witnesses, scope>>,
         \A q \in PartitionIds :
           \/ partitions'[q] = partitions[q]
           \/ /\ partitions[q].phase \in {"idle", "running"}
              /\ partitions'[q].phase \in {"idle", "running"}
              /\ partitions'[q].allocation = partitions[q].allocation
              /\ partitions'[q].start = partitions[q].start
              /\ partitions'[q].length = partitions[q].length
              /\ partitions'[q].generation = partitions[q].generation
  PROVE  /\ InBounds' /\ HandlesAgree' /\ WitnessesAgree' /\ Owned' /\ SameShape
         /\ PartitionIds' = PartitionIds
<1> USE DEF IInv
<1>1. PartitionIds' = PartitionIds BY DEF PartitionIds
<1>2. SameShape BY <1>1 DEF SameShape
<1>3. InBounds' BY <1>1, <1>2 DEF InBounds, SameShape
<1>4. HandlesAgree' BY <1>1 DEF HandlesAgree, HandleIds
<1>5. WitnessesAgree'
  <2>1. WitnessIds' = WitnessIds BY DEF WitnessIds
  <2>2. \A w \in WitnessIds :
          /\ witnesses[w].parent \in PartitionIds /\ witnesses[w].left \in PartitionIds
          /\ witnesses[w].right \in PartitionIds
          /\ Halves(witnesses[w].parent, witnesses[w].left, witnesses[w].right)'
    BY <1>1, <1>2 DEF WitnessesAgree, Halves, SameShape
  <2>3. \A q \in PartitionIds :
          /\ partitions[q].phase = "split" => partitions'[q] = partitions[q]
          /\ partitions'[q].phase = "joined" <=> partitions[q].phase = "joined"
    OBVIOUS
  <2> QED BY <1>1, <2>1, <2>2, <2>3 DEF WitnessesAgree, Apart
<1>6. Owned'
  <2>1. Leaves' = Leaves BY <1>1 DEF Leaves
  <2>2. \A q \in PartitionIds : CellsOf(q)' = CellsOf(q) BY <1>2, ShapeCells
  <2>3. ASSUME NEW cell \in Cells, NEW q \in PartitionIds, Owns(q, cell)
        PROVE  Owns(q, cell)'
    BY <2>1, <2>2, <2>3 DEF Owns, Leaves
  <2> QED BY <1>1, <2>3 DEF Owned, Cells
<1>7. QED BY <1>1, <1>2, <1>3, <1>4, <1>5, <1>6

(* Shared.run claims idle partitions, which no other call has.             *)
LEMMA RunStep ==
  ASSUME IInv, NEW H \in SUBSET HandleIds, Run(H)
  PROVE  Agreement'
<1> USE DEF IInv
<1>0. PICK n \in Nat : n = Len(loans) BY PartitionFields
<1> DEFINE new == [partitions |-> Lent(H), admitted |-> FALSE,
                   job |-> "queued", access |-> NoCell]
<1>1. /\ partitions' \in Seq(Partition) /\ Len(partitions') = Len(partitions)
      /\ \A q \in PartitionIds : partitions'[q] =
           IF q \in Lent(H)
           THEN [partitions[q] EXCEPT !.phase = "running", !.by = n + 1]
           ELSE partitions[q]
  BY <1>0, RunEffect
<1>2. /\ loans' = Append(loans, new)
      /\ UNCHANGED <<scope, control, handles, witnesses, dirty>>
  BY DEF Run
<1>3. \A q \in Lent(H) : q \in PartitionIds /\ partitions[q].phase = "idle"
  BY DEF Run, Usable, Idle, Lent, HandlesAgree
<1>4. \A q \in PartitionIds : partitions[q] \in Partition BY PartitionFields
<1>5. \A q \in Lent(H) :
        /\ partitions'[q].phase = "running" /\ partitions'[q].by = n + 1
        /\ partitions'[q].allocation = partitions[q].allocation
        /\ partitions'[q].start = partitions[q].start
        /\ partitions'[q].length = partitions[q].length
        /\ partitions'[q].generation = partitions[q].generation
  BY <1>1, <1>3, <1>4 DEF Partition
<1>6. /\ InBounds' /\ HandlesAgree' /\ WitnessesAgree' /\ Owned' /\ SameShape
      /\ PartitionIds' = PartitionIds
  BY <1>1, <1>2, <1>3, <1>5, ClaimStep
<1>7. /\ LoanIds' = LoanIds \union {n + 1} /\ n + 1 \notin LoanIds
      /\ loans'[n + 1] = new /\ \A r \in LoanIds : loans'[r] = loans[r]
  BY <1>0, <1>2 DEF LoanIds, TypeOK
<1>8. new.partitions = Lent(H) /\ new.job = "queued" /\ new.access = NoCell
  OBVIOUS
<1> HIDE DEF new
<1>9. \A r \in LoanIds : LentCells(r)' = LentCells(r)
  BY <1>6, <1>7, LentStays, LoanFields
<1>10. LoansAgree'
  <2> SUFFICES ASSUME NEW r \in LoanIds'
               PROVE  /\ loans'[r].partitions \subseteq PartitionIds'
                      /\ loans'[r].job = "running" => loans'[r].admitted
                      /\ loans'[r].access # NoCell =>
                           loans'[r].job = "running" /\ loans'[r].access \in LentCells(r)'
    BY DEF LoansAgree
  <2>1. CASE r \in LoanIds BY <1>6, <1>7, <1>9, <2>1 DEF LoansAgree
  <2>2. CASE r = n + 1 BY <1>3, <1>6, <1>7, <1>8, <2>2
  <2> QED BY <1>7, <2>1, <2>2
<1>11. LoanKept'
  <2>1. ASSUME NEW r \in LoanIds', loans'[r].job # "over", NEW q \in loans'[r].partitions
        PROVE  partitions'[q].phase = "running" /\ partitions'[q].by = r
    <3>1. CASE r \in LoanIds
      <4>1. /\ q \in PartitionIds /\ partitions[q].phase = "running"
            /\ partitions[q].by = r
        BY <1>7, <2>1, <3>1, LoanFields DEF LoanKept
      <4> QED BY <1>1, <1>3, <4>1
    <3>2. CASE r = n + 1 BY <1>5, <1>7, <1>8, <2>1, <3>2
    <3> QED BY <1>7, <3>1, <3>2
  <2> QED BY <2>1 DEF LoanKept
<1>12. DirtyAgrees'
  <2>1. ASSUME NEW cell \in dirty, control[cell[1]]
        PROVE  \E r \in LoanIds' : /\ loans'[r].job # "over" /\ loans'[r].admitted
                                   /\ cell \in LentCells(r)'
    <3>1. PICK r \in LoanIds : /\ loans[r].job # "over" /\ loans[r].admitted
                               /\ cell \in LentCells(r)
      BY <2>1 DEF DirtyAgrees
    <3> QED BY <1>7, <1>9, <3>1
  <2> QED BY <1>2, <2>1 DEF DirtyAgrees
<1>13. QED BY <1>6, <1>10, <1>11, <1>12 DEF Agreement

(* A call that fails once its kernel was placed takes the allocations with *)
(* it, so that what the kernel wrote is out of reach.                      *)
LEMMA ReturnsStep ==
  ASSUME IInv, NEW r \in LoanIds, NEW failed \in BOOLEAN, Returns(r, failed)
  PROVE  Agreement'
<1> USE DEF IInv
<1>1. /\ partitions' \in Seq(Partition) /\ Len(partitions') = Len(partitions)
      /\ \A q \in PartitionIds : partitions'[q] =
           IF q \in loans[r].partitions
           THEN [partitions[q] EXCEPT !.phase = "idle"] ELSE partitions[q]
  BY ReturnsEffect
<1>2. /\ loans[r].job \in {"value", "error"}
      /\ control' = [a \in Allocations |-> control[a] /\ a \notin Spoilt(r, failed)]
      /\ loans' = [loans EXCEPT ![r] = [loans[r] EXCEPT !.job = "over"]]
      /\ dirty' = IF failed THEN dirty ELSE dirty \ LentCells(r)
      /\ UNCHANGED <<scope, handles, witnesses>>
  BY DEF Returns
<1>3. \A q \in loans[r].partitions :
        /\ q \in PartitionIds /\ partitions[q].phase = "running" /\ partitions[q].by = r
  BY <1>2, LoanFields DEF LoanKept
<1>4. \A q \in PartitionIds : partitions[q] \in Partition BY PartitionFields
<1>5. \A q \in loans[r].partitions :
        /\ partitions'[q].phase = "idle"
        /\ partitions'[q].allocation = partitions[q].allocation
        /\ partitions'[q].start = partitions[q].start
        /\ partitions'[q].length = partitions[q].length
        /\ partitions'[q].generation = partitions[q].generation
  BY <1>1, <1>3, <1>4 DEF Partition
<1>6. /\ InBounds' /\ HandlesAgree' /\ WitnessesAgree' /\ Owned' /\ SameShape
      /\ PartitionIds' = PartitionIds
  BY <1>1, <1>2, <1>3, <1>5, ClaimStep
<1> DEFINE new == [loans[r] EXCEPT !.job = "over"]
<1>7. loans[r] \in Loan BY LoanFields
<1>8. /\ new \in Loan /\ new.partitions = loans[r].partitions
      /\ new.job = "over" /\ new.access = loans[r].access
  BY <1>7 DEF Loan
<1>9. loans' = [loans EXCEPT ![r] = new] BY <1>2
<1> HIDE DEF new
<1>10. /\ LoanIds' = LoanIds /\ loans'[r] = new
       /\ \A s \in LoanIds : s # r => loans'[s] = loans[s]
       /\ \A s \in LoanIds : loans'[s].partitions = loans[s].partitions
  BY <1>8, <1>9, LoanStep
<1>11. \A s \in LoanIds : LentCells(s)' = LentCells(s)
  BY <1>6, <1>10, LentStays, LoanFields
<1>12. LoansAgree'
  <2> SUFFICES ASSUME NEW s \in LoanIds'
               PROVE  /\ loans'[s].partitions \subseteq PartitionIds'
                      /\ loans'[s].job = "running" => loans'[s].admitted
                      /\ loans'[s].access # NoCell =>
                           loans'[s].job = "running" /\ loans'[s].access \in LentCells(s)'
    BY DEF LoansAgree
  <2>1. CASE s = r
    <3>1. loans[r].access = NoCell BY <1>2 DEF LoansAgree
    <3> QED BY <1>6, <1>8, <1>10, <2>1, <3>1, LoanFields
  <2>2. CASE s # r BY <1>6, <1>10, <1>11, <2>2 DEF LoansAgree
  <2> QED BY <2>1, <2>2
<1>13. LoanKept'
  <2>1. ASSUME NEW s \in LoanIds', loans'[s].job # "over", NEW q \in loans'[s].partitions
        PROVE  partitions'[q].phase = "running" /\ partitions'[q].by = s
    <3>1. s # r BY <1>8, <1>10, <2>1
    <3>2. /\ q \in PartitionIds /\ partitions[q].phase = "running"
          /\ partitions[q].by = s
      BY <1>10, <2>1, <3>1, LoanFields DEF LoanKept
    <3>3. q \notin loans[r].partitions BY <1>3, <3>1, <3>2
    <3> QED BY <1>1, <3>2, <3>3
  <2> QED BY <2>1 DEF LoanKept
<1>14. DirtyAgrees'
  <2>1. \A a \in Allocations : control'[a] => control[a] /\ a \notin Spoilt(r, failed)
    BY <1>2
  <2>2. \A cell \in dirty : cell[1] \in Allocations BY DEF TypeOK, Cells
  <2>3. dirty' \subseteq dirty BY <1>2
  <2>4. ASSUME NEW cell \in dirty', control'[cell[1]]
        PROVE  \E s \in LoanIds' : /\ loans'[s].job # "over" /\ loans'[s].admitted
                                   /\ cell \in LentCells(s)'
    <3>1. PICK s \in LoanIds : /\ loans[s].job # "over" /\ loans[s].admitted
                               /\ cell \in LentCells(s)
      BY <2>1, <2>2, <2>3, <2>4 DEF DirtyAgrees
    <3>2. CASE s = r
      <4>1. failed BY <1>2, <3>1, <3>2
      <4>2. PICK p \in loans[r].partitions : cell \in CellsOf(p)
        BY <3>1, <3>2, LentMember
      <4>3. cell[1] = partitions[p].allocation BY <4>2, CellsMember
      <4>4. cell[1] \in Spoilt(r, failed) BY <3>1, <3>2, <4>1, <4>3 DEF Spoilt
      <4> QED BY <2>1, <2>2, <2>3, <2>4, <4>4
    <3>3. CASE s # r BY <1>10, <1>11, <3>1, <3>3
    <3> QED BY <3>2, <3>3
  <2> QED BY <1>2, <2>1, <2>2, <2>3, <2>4 DEF DirtyAgrees
<1>15. QED BY <1>6, <1>12, <1>13, <1>14 DEF Agreement

-----------------------------------------------------------------------------
(* The theorems.                                                           *)

(* Before the first allocation there is nothing to agree on.               *)
LEMMA InitOK == Init => IInv
<1> SUFFICES ASSUME Init PROVE IInv OBVIOUS
<1>1. /\ PartitionIds = {} /\ HandleIds = {} /\ WitnessIds = {} /\ LoanIds = {}
  BY DEF Init, PartitionIds, HandleIds, WitnessIds, LoanIds
<1>2. TypeOK BY BoundAssumption DEF Init, TypeOK
<1>3. \A cell \in Cells : scope[cell[1]] = "none" BY DEF Init, Cells
<1>4. DirtyAgrees BY DEF Init, DirtyAgrees
<1>5. QED
  BY <1>1, <1>2, <1>3, <1>4
     DEF IInv, InBounds, HandlesAgree, WitnessesAgree, LoansAgree, LoanKept, Owned

(* Every step of the host, of a kernel and of a closing scope keeps the    *)
(* invariant.                                                              *)
LEMMA StepOK == IInv /\ [Next]_vars => IInv'
<1> SUFFICES ASSUME IInv, [Next]_vars PROVE IInv' OBVIOUS
<1>1. TypeOK' BY TypeStep
<1>2. Agreement'
  <2>1. ASSUME NEW a \in Allocations, Allocate(a) PROVE Agreement'
    BY <2>1, AllocateStep
  <2>2. ASSUME NEW a \in Allocations, CloseScope(a) \/ Invalidate(a) PROVE Agreement'
    BY <2>2, ScopeEvents
  <2>3. ASSUME NEW h \in HandleIds, NEW boundary \in 0..Size, Split(h, boundary)
        PROVE  Agreement'
    BY <2>3, SplitStep
  <2>4. ASSUME NEW w \in WitnessIds, Join(w) PROVE Agreement' BY <2>4, JoinStep
  <2>5. ASSUME NEW H \in SUBSET HandleIds, Run(H) PROVE Agreement' BY <2>5, RunStep
  <2>6. ASSUME NEW r \in LoanIds,
               \/ Admit(r) \/ NeverRuns(r) \/ Writes(r)
               \/ \E cell \in Cells : Checks(r, cell)
               \/ \E outcome \in {"value", "error"} : Stops(r, outcome)
        PROVE  Agreement'
    BY <2>6, JobEvents
  <2>7. ASSUME NEW r \in LoanIds, NEW failed \in BOOLEAN, Returns(r, failed)
        PROVE  Agreement'
    BY <2>7, ReturnsStep
  <2>8. CASE UNCHANGED vars
    <3>1. UNCHANGED <<scope, control, partitions, handles, witnesses, loans, dirty>>
      BY <2>8 DEF vars
    <3>2. InBounds' /\ HandlesAgree' /\ WitnessesAgree' /\ Owned' /\ SameShape
      BY <3>1, PartitionsStay
    <3>3. \A r \in LoanIds : LentCells(r)' = LentCells(r)
      BY <3>1, <3>2, LentStays, LoanFields DEF IInv
    <3>4. LoansAgree' /\ LoanKept' /\ DirtyAgrees'
      BY <3>1, <3>3 DEF IInv, LoansAgree, LoanKept, DirtyAgrees, LoanIds, PartitionIds
    <3> QED BY <3>2, <3>4 DEF Agreement
  <2> QED BY <2>1, <2>2, <2>3, <2>4, <2>5, <2>6, <2>7, <2>8 DEF Next
<1>3. QED BY <1>1, <1>2 DEF IInv, Agreement

(* The whole invariant holds whatever the host splits, rejoins and lends   *)
(* and however its kernels end.                                            *)
THEOREM Invariant == Spec => []IInv
BY InitOK, StepOK, PTL DEF Spec

(* A call that is in progress keeps what it claimed (#claim and the end of *)
(* run in src/shared.ts), so run never throws that it lost its loan.       *)
THEOREM LoansKept == Spec => []LoanKept
<1>1. IInv => LoanKept BY DEF IInv
<1>2. QED BY <1>1, Invariant, PTL

(* Every cell of an allocation belongs to exactly one partition that is    *)
(* idle or lent, after any splits and joins in src/shared.ts.              *)
THEOREM PartitionsAlwaysAgree == Spec => []PartitionsAgree
<1>1. ASSUME IInv PROVE PartitionsAgree
  <2>1. ASSUME NEW cell \in Cells, scope[cell[1]] # "none"
        PROVE  Cardinality({p \in Leaves : cell \in CellsOf(p)}) = 1
    <3>1. PICK o \in PartitionIds : Owns(o, cell) BY <1>1, <2>1 DEF IInv, Owned
    <3>2. {p \in Leaves : cell \in CellsOf(p)} = {o} BY <3>1 DEF Owns
    <3> QED BY <3>2, FS_Singleton
  <2> QED BY <1>1, <2>1 DEF IInv, PartitionsAgree, Tiling
<1>2. QED BY <1>1, Invariant, PTL

(* A set with at most one member.                                          *)
LEMMA AtMostOne ==
  ASSUME NEW S, \A x, y \in S : x = y
  PROVE  Cardinality(S) \in {0, 1}
<1>1. CASE S = {} BY <1>1, FS_EmptySet
<1>2. CASE S # {}
  <2>1. PICK x \in S : TRUE BY <1>2
  <2>2. S = {x} BY <2>1
  <2> QED BY <2>2, FS_Singleton
<1>3. QED BY <1>1, <1>2

(* No two parties reach a cell: neither two handles that #partition        *)
(* accepts, nor two kernels, nor a handle and a kernel.                    *)
THEOREM AccessIsExclusive == Spec => []ExclusiveAccess
<1>1. ASSUME IInv PROVE ExclusiveAccess
  <2> SUFFICES ASSUME NEW cell \in Cells, control[cell[1]]
      PROVE Cardinality({h \in HandleIds :
                           Usable(h) /\ cell \in CellsOf(handles[h].partition)})
              + Cardinality({r \in LoanIds :
                               loans[r].job = "running" /\ cell \in LentCells(r)}) <= 1
    BY DEF ExclusiveAccess
  <2> DEFINE hosts == {h \in HandleIds :
                         Usable(h) /\ cell \in CellsOf(handles[h].partition)}
             kernels == {r \in LoanIds : loans[r].job = "running" /\ cell \in LentCells(r)}
  <2>1. PICK o \in PartitionIds : Owns(o, cell)
    <3>1. cell[1] \in Allocations BY DEF Cells
    <3> QED BY <1>1, <3>1 DEF IInv, Owned, DirtyAgrees
  <2>2. \A h \in hosts : /\ handles[h] = [partition |-> o, generation |-> partitions[o].generation]
                         /\ partitions[o].phase = "idle"
    <3>1. \A h \in HandleIds : handles[h] \in Handle
      BY <1>1, ElementOfSeq DEF IInv, TypeOK, HandleIds
    <3>2. \A h \in hosts : /\ handles[h].partition \in Leaves
                           /\ handles[h].generation = partitions[handles[h].partition].generation
                           /\ partitions[handles[h].partition].phase = "idle"
      BY <1>1 DEF Usable, Idle, Leaves, IInv, HandlesAgree
    <3>3. \A h \in hosts : handles[h].partition = o BY <2>1, <3>2 DEF Owns
    <3> QED BY <3>1, <3>2, <3>3 DEF Handle
  <2>3. \A r \in kernels : partitions[o].phase = "running" /\ partitions[o].by = r
    <3> SUFFICES ASSUME NEW r \in kernels
                 PROVE  partitions[o].phase = "running" /\ partitions[o].by = r
      OBVIOUS
    <3>1. PICK p \in loans[r].partitions : cell \in CellsOf(p) BY LentMember
    <3>2. p \in PartitionIds /\ partitions[p].phase = "running" /\ partitions[p].by = r
      BY <1>1, LoanFields DEF IInv, LoanKept
    <3>3. p = o BY <2>1, <3>1, <3>2 DEF Owns, Leaves
    <3> QED BY <3>2, <3>3
  <2>4. \A g, h \in hosts : g = h BY <1>1, <2>2 DEF IInv, HandlesAgree
  <2>5. \A r, s \in kernels : r = s BY <2>3
  <2>6. hosts = {} \/ kernels = {} BY <2>2, <2>3
  <2> HIDE DEF hosts, kernels
  <2>7. Cardinality(hosts) \in {0, 1} /\ Cardinality(kernels) \in {0, 1}
    BY <2>4, <2>5, AtMostOne
  <2>8. Cardinality(hosts) = 0 \/ Cardinality(kernels) = 0 BY <2>6, FS_EmptySet
  <2>9. Cardinality(hosts) + Cardinality(kernels) <= 1 BY <2>7, <2>8
  <2> QED BY <2>9 DEF hosts, kernels
<1>2. QED BY <1>1, Invariant, PTL

(* What a kernel wrote before it failed, was cancelled or lost its worker  *)
(* is never behind a handle that snapshot accepts.                         *)
THEOREM NeverTorn == Spec => []NoTornRead
<1>1. ASSUME IInv PROVE NoTornRead
  <2> SUFFICES ASSUME NEW h \in HandleIds, Usable(h),
                      NEW cell \in dirty, cell \in CellsOf(handles[h].partition)
               PROVE  FALSE
    BY DEF NoTornRead
  <2> DEFINE p == handles[h].partition
  <2>1. p \in PartitionIds /\ partitions[p].phase = "idle" /\ p \in Leaves
    BY <1>1 DEF Usable, Idle, Leaves, IInv, HandlesAgree
  <2>2. cell \in Cells /\ control[cell[1]]
    BY <1>1, CellsMember DEF Usable, Valid, IInv, TypeOK
  <2>3. PICK r \in LoanIds : loans[r].job # "over" /\ cell \in LentCells(r)
    BY <1>1, <2>2 DEF IInv, DirtyAgrees
  <2>4. PICK q \in loans[r].partitions : cell \in CellsOf(q) BY <2>3, LentMember
  <2>5. q \in PartitionIds /\ partitions[q].phase = "running"
    BY <1>1, <2>3, LoanFields DEF IInv, LoanKept
  <2>6. scope[cell[1]] # "none" BY <1>1 DEF IInv, DirtyAgrees
  <2>7. PICK o \in PartitionIds : Owns(o, cell) BY <1>1, <2>2, <2>6 DEF IInv, Owned
  <2>8. p = o /\ q = o BY <2>1, <2>4, <2>5, <2>7 DEF Owns, Leaves
  <2> QED BY <2>1, <2>5, <2>8
<1>2. QED BY <1>1, Invariant, PTL

\* A joined partition stays joined, and a split one is whole again under a
\* later generation only.
Elder(q) ==
  /\ partitions'[q].generation \in Nat
  /\ partitions'[q].generation >= partitions[q].generation
  /\ partitions[q].phase = "joined" => partitions'[q].phase = "joined"
  /\ partitions[q].phase = "split" =>
       \/ partitions'[q].phase = "split"
       \/ partitions'[q].generation > partitions[q].generation

Ages ==
  /\ \A h \in HandleIds : handles'[h] = handles[h]
  /\ \A q \in PartitionIds : Elder(q)

(* Every step of split, join and run ages the partitions in this way.      *)
LEMMA StepAges ==
  ASSUME IInv, [Next]_vars
  PROVE  Ages
<1> USE DEF IInv
<1>1. \A q \in PartitionIds : /\ partitions[q] \in Partition
                              /\ partitions[q].generation \in Nat
  BY PartitionFields
<1>0. ASSUME NEW q \in PartitionIds,
             partitions'[q].generation = partitions[q].generation,
             \/ partitions'[q].phase = partitions[q].phase
             \/ partitions[q].phase \in {"idle", "running"}
      PROVE  Elder(q)
  BY <1>0, <1>1 DEF Elder
<1>2. ASSUME UNCHANGED <<partitions, handles>> PROVE Ages BY <1>0, <1>2 DEF Ages
<1>3. ASSUME NEW a \in Allocations, Allocate(a) PROVE Ages
  <2>1. /\ \A q \in PartitionIds : partitions'[q] = partitions[q]
        /\ \A h \in HandleIds : handles'[h] = handles[h]
    BY <1>3, AllocateEffect
  <2> QED BY <1>0, <2>1 DEF Ages
<1>4. ASSUME NEW h \in HandleIds, NEW boundary \in 0..Size, Split(h, boundary)
      PROVE  Ages
  <2>1. PICK p \in PartitionIds, n \in Nat, m \in Nat : Divides(h, boundary, p, n, m)
    BY <1>4, SplitEffect
  <2>2. partitions[p].phase = "idle" BY <1>4, <2>1 DEF Divides, Split, Usable, Idle
  <2>3. /\ \A q \in PartitionIds : q # p => partitions'[q] = partitions[q]
        /\ partitions'[p] = [partitions[p] EXCEPT !.phase = "split",
                                                  !.by = Len(witnesses) + 1]
        /\ \A g \in HandleIds : handles'[g] = handles[g]
    BY <2>1 DEF Divides
  <2>4. partitions'[p].generation = partitions[p].generation
    BY <1>1, <2>3, MarkFields
  <2>5. \A q \in PartitionIds : Elder(q)
    <3> TAKE q \in PartitionIds
    <3>1. CASE q = p BY <1>0, <2>2, <2>4, <3>1
    <3>2. CASE q # p BY <1>0, <2>3, <3>2
    <3> QED BY <3>1, <3>2
  <2> QED BY <2>3, <2>5 DEF Ages
<1>5. ASSUME NEW w \in WitnessIds, Join(w) PROVE Ages
  <2>1. PICK p \in PartitionIds, left \in PartitionIds, right \in PartitionIds :
          Rejoins(w, p, left, right)
    BY <1>5, JoinEffect
  <2>2. /\ partitions[left].phase = "idle" /\ partitions[right].phase = "idle"
        /\ partitions[p].phase = "split"
        /\ \A q \in PartitionIds : q \notin {p, left, right} =>
                                      partitions'[q] = partitions[q]
        /\ partitions'[left] = [partitions[left] EXCEPT !.phase = "joined"]
        /\ partitions'[right] = [partitions[right] EXCEPT !.phase = "joined"]
        /\ partitions'[p] = [partitions[p] EXCEPT !.phase = "idle",
                               !.generation = partitions[p].generation + 1]
    BY <2>1 DEF Rejoins
  <2>3. partitions'[left].generation = partitions[left].generation
    BY <1>1, <2>2, MarkFields
  <2>4. partitions'[right].generation = partitions[right].generation
    BY <1>1, <2>2, MarkFields
  <2>5. partitions'[p].generation = partitions[p].generation + 1
    BY <1>1, <2>2, RenewFields
  <2>6. \A h \in HandleIds : handles'[h] = handles[h]
    <3>1. \/ handles' = handles
          \/ \E new : handles' = Append(handles, new)
      BY <1>5 DEF Join
    <3> QED BY <3>1 DEF TypeOK, HandleIds
  <2>7. Elder(p) BY <1>1, <2>2, <2>5 DEF Elder
  <2>8. \A q \in PartitionIds : Elder(q)
    <3> TAKE q \in PartitionIds
    <3>1. CASE q = left BY <1>0, <2>2, <2>3, <3>1
    <3>2. CASE q = right BY <1>0, <2>2, <2>4, <3>2
    <3>3. CASE q \notin {p, left, right} BY <1>0, <2>2, <3>3
    <3> QED BY <2>7, <3>1, <3>2, <3>3
  <2> QED BY <2>6, <2>8 DEF Ages
<1>6. ASSUME NEW H \in SUBSET HandleIds, Run(H) PROVE Ages
  <2>1. \A q \in PartitionIds : partitions'[q] =
          IF q \in Lent(H)
          THEN [partitions[q] EXCEPT !.phase = "running", !.by = Len(loans) + 1]
          ELSE partitions[q]
    BY <1>6, RunEffect
  <2>2. \A q \in Lent(H) : partitions[q].phase = "idle"
    BY <1>6 DEF Run, Usable, Idle, Lent
  <2>3. \A q \in PartitionIds : Elder(q)
    <3> TAKE q \in PartitionIds
    <3>1. CASE q \in Lent(H)
      <4>1. /\ partitions'[q] = [partitions[q] EXCEPT !.phase = "running",
                                                       !.by = Len(loans) + 1]
            /\ partitions[q] \in Partition
        BY <1>1, <2>1, <3>1
      <4>2. partitions'[q].generation = partitions[q].generation
        BY ONLY <4>1, MarkFields
      <4> QED BY <1>0, <2>2, <3>1, <4>2
    <3>2. CASE q \notin Lent(H) BY <1>0, <2>1, <3>2
    <3> QED BY <3>1, <3>2
  <2>4. handles' = handles BY <1>6 DEF Run
  <2> QED BY <2>3, <2>4 DEF Ages
<1>7. ASSUME NEW r \in LoanIds, NEW failed \in BOOLEAN, Returns(r, failed) PROVE Ages
  <2>1. \A q \in PartitionIds : partitions'[q] =
          IF q \in loans[r].partitions
          THEN [partitions[q] EXCEPT !.phase = "idle"] ELSE partitions[q]
    BY <1>7, ReturnsEffect
  <2>2. \A q \in loans[r].partitions : partitions[q].phase = "running"
    BY <1>7 DEF Returns, LoanKept
  <2>3. \A q \in PartitionIds : Elder(q)
    <3> TAKE q \in PartitionIds
    <3>1. CASE q \in loans[r].partitions
      <4>1. /\ partitions'[q] = [partitions[q] EXCEPT !.phase = "idle"]
            /\ partitions[q] \in Partition
        BY <1>1, <2>1, <3>1
      <4>2. partitions'[q].generation = partitions[q].generation
        BY ONLY <4>1, MarkFields
      <4> QED BY <1>0, <2>2, <3>1, <4>2
    <3>2. CASE q \notin loans[r].partitions BY <1>0, <2>1, <3>2
    <3> QED BY <3>1, <3>2
  <2>4. handles' = handles BY <1>7 DEF Returns
  <2> QED BY <2>3, <2>4 DEF Ages
<1>8. ASSUME NEW r \in LoanIds,
             \/ Admit(r) \/ NeverRuns(r) \/ Writes(r)
             \/ \E cell \in Cells : Checks(r, cell)
             \/ \E outcome \in {"value", "error"} : Stops(r, outcome)
      PROVE  Ages
  BY <1>2, <1>8 DEF Admit, NeverRuns, Writes, Checks, Stops
<1>9. ASSUME NEW a \in Allocations, CloseScope(a) \/ Invalidate(a) PROVE Ages
  BY <1>2, <1>9 DEF CloseScope, Invalidate
<1>10. CASE UNCHANGED vars BY <1>2, <1>10 DEF vars
<1>11. QED BY <1>3, <1>4, <1>5, <1>6, <1>7, <1>8, <1>9, <1>10 DEF Next

(* A handle whose partition was split or joined never works again, whatever *)
(* joins bring the partition back.                                         *)
THEOREM StaleHandlesStayStale == Spec => StaleForever
<1>1. ASSUME IInv, [Next]_vars, NEW h \in HandleIds, Dead(h) PROVE Dead(h)'
  <2> DEFINE p == handles[h].partition
  <2>1. /\ p \in PartitionIds /\ handles[h].generation <= partitions[p].generation
        /\ handles[h].generation \in Nat /\ partitions[p].generation \in Nat
    <3>1. handles[h] \in Handle BY <1>1, ElementOfSeq DEF IInv, TypeOK, HandleIds
    <3> QED BY <1>1, <3>1, PartitionFields DEF IInv, HandlesAgree, Handle
  <2>2. PICK q \in PartitionIds : q = p BY <2>1
  <2>3. /\ handles'[h] = handles[h] /\ partitions'[q].generation \in Nat
        /\ partitions'[q].generation >= partitions[q].generation
        /\ partitions[q].phase = "joined" => partitions'[q].phase = "joined"
        /\ partitions[q].phase = "split" =>
             \/ partitions'[q].phase = "split"
             \/ partitions'[q].generation > partitions[q].generation
    BY <1>1, StepAges DEF Ages, Elder
  <2>4. handles'[h].partition = q BY <2>2, <2>3
  <2>5. \/ partitions'[q].phase \in {"split", "joined"}
        \/ handles'[h].generation # partitions'[q].generation
    BY <1>1, <2>1, <2>2, <2>3 DEF Dead
  <2> QED BY <2>4, <2>5 DEF Dead
<1>2. IInv /\ [Next]_vars => [\A h \in HandleIds : Dead(h) => Dead(h)']_vars
  BY <1>1
<1>3. QED BY <1>2, Invariant, PTL DEF Spec, StaleForever
=============================================================================
