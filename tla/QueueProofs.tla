---------------------------- MODULE QueueProofs ----------------------------
(***************************************************************************)
(* What push and unlink of src/queue.ts do to the entries of a queue.      *)
(***************************************************************************)
EXTENDS Queue, TLAPS

(* Pushing keeps the type of the entries.                                  *)
LEMMA PushType ==
  ASSUME NEW S, NEW q \in Seq(S), NEW x \in S
  PROVE  Push(q, x) \in Seq(S)
BY DEF Push

(* Pushing x links x and unlinks nothing.                                  *)
LEMMA PushLinked ==
  ASSUME NEW S, NEW q \in Seq(S), NEW x \in S, NEW y
  PROVE  Linked(Push(q, x), y) <=> Linked(q, y) \/ y = x
<1>1. Len(Push(q, x)) = Len(q) + 1 BY DEF Push
<1>2. \A i \in 1..Len(q) : Push(q, x)[i] = q[i] BY DEF Push
<1>3. Push(q, x)[Len(q) + 1] = x BY DEF Push
<1>4. Len(q) \in Nat OBVIOUS
<1> QED BY <1>1, <1>2, <1>3, <1>4 DEF Linked

(* Pushing what is not linked links nothing twice.                         *)
LEMMA PushDistinct ==
  ASSUME NEW S, NEW q \in Seq(S), NEW x \in S, Distinct(q), ~Linked(q, x)
  PROVE  Distinct(Push(q, x))
<1>1. Len(Push(q, x)) = Len(q) + 1 BY DEF Push
<1>2. \A i \in 1..Len(q) : Push(q, x)[i] = q[i] BY DEF Push
<1>3. Push(q, x)[Len(q) + 1] = x BY DEF Push
<1>4. Len(q) \in Nat OBVIOUS
<1> QED BY <1>1, <1>2, <1>3, <1>4 DEF Linked, Distinct

(* The place of a linked entry holds it.                                   *)
LEMMA PlaceOfLinked ==
  ASSUME NEW q, NEW x, Linked(q, x)
  PROVE  PlaceOf(q, x) \in 1..Len(q) /\ q[PlaceOf(q, x)] = x
BY DEF Linked, PlaceOf

(* Unlinking a linked entry closes the gap at its place.                   *)
LEMMA UnlinkShape ==
  ASSUME NEW S, NEW q \in Seq(S), NEW x, Linked(q, x)
  PROVE  /\ Unlink(q, x) \in Seq(S)
         /\ Len(Unlink(q, x)) = Len(q) - 1
         /\ \A i \in 1..(Len(q) - 1) :
              Unlink(q, x)[i] = IF i < PlaceOf(q, x) THEN q[i] ELSE q[i + 1]
<1>1. PlaceOf(q, x) \in 1..Len(q) BY PlaceOfLinked
<1>2. Len(q) \in Nat /\ Len(q) - 1 \in Nat BY <1>1
<1> DEFINE e(i) == IF i < PlaceOf(q, x) THEN q[i] ELSE q[i + 1]
<1>3. \A i \in 1..(Len(q) - 1) : e(i) \in S BY <1>1, <1>2
<1>4. Unlink(q, x) = [i \in 1..(Len(q) - 1) |-> e(i)] BY DEF Unlink
<1> HIDE DEF e
<1>5. [i \in 1..(Len(q) - 1) |-> e(i)] \in Seq(S) BY <1>2, <1>3
<1>6. Len([i \in 1..(Len(q) - 1) |-> e(i)]) = Len(q) - 1 BY <1>2, <1>3
<1> QED BY <1>4, <1>5, <1>6 DEF e

(* Unlinking keeps the type of the entries.                                *)
LEMMA UnlinkType ==
  ASSUME NEW S, NEW q \in Seq(S), NEW x
  PROVE  Unlink(q, x) \in Seq(S)
<1>1. CASE Linked(q, x) BY <1>1, UnlinkShape
<1>2. CASE ~Linked(q, x) BY <1>2 DEF Unlink
<1> QED BY <1>1, <1>2

(* Unlinking x from a queue without repetition removes x and nothing else. *)
LEMMA UnlinkLinked ==
  ASSUME NEW S, NEW q \in Seq(S), NEW x, Distinct(q), NEW y
  PROVE  Linked(Unlink(q, x), y) <=> Linked(q, y) /\ y # x
<1>1. CASE ~Linked(q, x) BY <1>1 DEF Unlink, Linked
<1>2. CASE Linked(q, x)
  <2> DEFINE p == PlaceOf(q, x)
  <2>1. p \in 1..Len(q) /\ q[p] = x BY <1>2, PlaceOfLinked
  <2> HIDE DEF p
  <2>2. /\ Len(Unlink(q, x)) = Len(q) - 1
        /\ \A i \in 1..(Len(q) - 1) :
             Unlink(q, x)[i] = IF i < p THEN q[i] ELSE q[i + 1]
    BY <1>2, UnlinkShape DEF p
  <2>3. Len(q) \in Nat OBVIOUS
  <2>4. ASSUME NEW i \in 1..Len(q), q[i] = y, y # x
        PROVE  Linked(Unlink(q, x), y)
    <3>1. i # p BY <2>1, <2>4
    <3>2. CASE i < p
      <4>1. i \in 1..(Len(q) - 1) /\ Unlink(q, x)[i] = y
        BY <2>1, <2>2, <2>3, <2>4, <3>2
      <4> QED BY <4>1, <2>2 DEF Linked
    <3>3. CASE i > p
      <4>1. i - 1 \in 1..(Len(q) - 1) /\ ~(i - 1 < p) /\ (i - 1) + 1 = i
        BY <2>1, <2>3, <3>3
      <4>2. Unlink(q, x)[i - 1] = y BY <4>1, <2>2, <2>4
      <4> QED BY <4>1, <4>2, <2>2 DEF Linked
    <3> QED BY <3>1, <3>2, <3>3, <2>1
  <2>5. ASSUME NEW i \in 1..(Len(q) - 1), Unlink(q, x)[i] = y
        PROVE  Linked(q, y) /\ y # x
    <3>1. CASE i < p
      <4>1. i \in 1..Len(q) /\ q[i] = y /\ i # p BY <2>1, <2>2, <2>3, <2>5, <3>1
      <4> QED BY <4>1, <2>1 DEF Linked, Distinct
    <3>2. CASE ~(i < p)
      <4>1. i + 1 \in 1..Len(q) /\ q[i + 1] = y /\ i + 1 # p
        BY <2>1, <2>2, <2>3, <2>5, <3>2
      <4> QED BY <4>1, <2>1 DEF Linked, Distinct
    <3> QED BY <3>1, <3>2
  <2> QED BY <2>2, <2>4, <2>5 DEF Linked
<1> QED BY <1>1, <1>2

(* Unlinking links nothing twice.                                          *)
LEMMA UnlinkDistinct ==
  ASSUME NEW S, NEW q \in Seq(S), NEW x, Distinct(q)
  PROVE  Distinct(Unlink(q, x))
<1>1. CASE ~Linked(q, x) BY <1>1 DEF Unlink
<1>2. CASE Linked(q, x)
  <2> DEFINE p == PlaceOf(q, x)
             u == Unlink(q, x)
  <2>1. p \in 1..Len(q) BY <1>2, PlaceOfLinked
  <2>2. /\ Len(u) = Len(q) - 1
        /\ \A i \in 1..(Len(q) - 1) : u[i] = IF i < p THEN q[i] ELSE q[i + 1]
    BY <1>2, UnlinkShape
  <2> HIDE DEF p, u
  <2>3. Len(q) \in Nat OBVIOUS
  <2>4. ASSUME NEW i \in 1..(Len(q) - 1), NEW k \in 1..(Len(q) - 1), u[i] = u[k]
        PROVE  i = k
    <3>1. CASE i < p /\ k < p
      BY <3>1, <2>1, <2>2, <2>3, <2>4 DEF Distinct
    <3>2. CASE i < p /\ ~(k < p)
      BY <3>2, <2>1, <2>2, <2>3, <2>4 DEF Distinct
    <3>3. CASE ~(i < p) /\ k < p
      BY <3>3, <2>1, <2>2, <2>3, <2>4 DEF Distinct
    <3>4. CASE ~(i < p) /\ ~(k < p)
      BY <3>4, <2>1, <2>2, <2>3, <2>4 DEF Distinct
    <3> QED BY <3>1, <3>2, <3>3, <3>4
  <2>5. Distinct(u) BY <2>2, <2>4 DEF Distinct
  <2> QED BY <2>5 DEF u
<1> QED BY <1>1, <1>2

(* Unlinking changes the order of no two entries.                          *)
LEMMA UnlinkOrder ==
  ASSUME NEW S, NEW q \in Seq(S), NEW x
  PROVE  \A a, b \in 1..Len(Unlink(q, x)) : \E c, d \in 1..Len(q) :
           /\ Unlink(q, x)[a] = q[c]
           /\ Unlink(q, x)[b] = q[d]
           /\ c < d => a < b
<1>1. CASE ~Linked(q, x) BY <1>1 DEF Unlink
<1>2. CASE Linked(q, x)
  <2> DEFINE p == PlaceOf(q, x)
             At(i) == IF i < p THEN i ELSE i + 1
  <2>1. p \in 1..Len(q) BY <1>2, PlaceOfLinked
  <2>2. Len(Unlink(q, x)) = Len(q) - 1 /\ Len(q) \in Nat BY <1>2, UnlinkShape
  <2>3. ASSUME NEW i \in 1..Len(Unlink(q, x))
        PROVE  At(i) \in 1..Len(q) /\ Unlink(q, x)[i] = q[At(i)]
    <3>1. i \in 1..(Len(q) - 1) BY <2>2
    <3>2. Unlink(q, x)[i] = IF i < p THEN q[i] ELSE q[i + 1]
      BY <1>2, <3>1, UnlinkShape
    <3> QED BY <2>1, <2>2, <3>1, <3>2
  <2>4. \A a, b \in 1..Len(Unlink(q, x)) : At(a) < At(b) => a < b BY <2>1, <2>2
  <2> HIDE DEF p, At
  <2> QED BY <2>3, <2>4
<1> QED BY <1>1, <1>2

(* The entry that peek returns is linked.                                  *)
LEMMA PeekLinked ==
  ASSUME NEW S, NEW q \in Seq(S), q # <<>>
  PROVE  Peek(q) \in S /\ Linked(q, Peek(q))
<1>1. 1 \in 1..Len(q) OBVIOUS
<1> QED BY <1>1 DEF Peek, Linked

(* Nothing is linked in an empty queue.                                    *)
LEMMA EmptyQueue ==
  ASSUME NEW x
  PROVE  Distinct(<<>>) /\ ~Linked(<<>>, x)
BY DEF Distinct, Linked
=============================================================================
