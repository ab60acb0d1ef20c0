---------------------------- MODULE SessionProofs ----------------------------
(***************************************************************************)
(* The compiler session keeps its caches, its preparations and its answers *)
(* current.  The argument follows a boundary from the moment it is         *)
(* published: whatever is cached above it was put together from the views  *)
(* that were published then, and a boundary that is published unchanged    *)
(* has the view it had.                                                    *)
(***************************************************************************)
EXTENDS Session, Integers, FiniteSetTheorems, SequenceTheorems, WellFoundedInduction,
        TLAPS

-----------------------------------------------------------------------------
(* The inductive invariant.                                                *)

\* What the variables hold, but for the views.
Types ==
    /\ modules \in [Paths -> KnownTexts \cup {None}]
    /\ imports \in [Paths -> SUBSET Paths]
    /\ dirty \subseteq {p \in Paths : modules[p] # None}
    /\ published \in [Paths -> Boundaries \cup {None}]
    /\ nextId \in 0..MaxBoundaryId
    /\ \A p \in Paths : published[p] # None =>
          /\ modules[p] # None
          /\ published[p].id \in 1..nextId
          /\ published[p].fingerprint # None =>
                \A d \in DOMAIN published[p].fingerprint.below :
                    published[p].fingerprint.below[d] \in 1..nextId
    /\ renewed \subseteq Paths
    /\ \A p \in DOMAIN interfaces \cup DOMAIN bindings \cup DOMAIN closed :
          p \in Paths /\ modules[p] # None
    /\ \A k \in DOMAIN closedDev : k.root \in Paths
    /\ retained = [p \in Paths |-> retained[p]]
    /\ nextTx \in 1..MaxTransaction + 1
    /\ edits \in 0..MaxEdits
    /\ request \in Requests \cup {None}
    /\ walk \in Seq([path : Paths, left : SUBSET Paths])
    /\ walk # << >> => request # None

\* The program that elaborate closes for p.
ProgramOf(p) ==
    {Entry(p, modules[p])} \cup {e \in bindings[p] : e.path # p}

\* seal[i] is the view that was published with the boundary i.  What p's
\* importers saw of p is the seal of p's boundary.
SealOf(seal, p) == seal[published[p].id]
SealsBelow(seal, p) == UNION {SealOf(seal, d) : d \in imports[p]}

\* The fingerprint of p's boundary tells its seal: the boundaries below it, and
\* of the text what importers see of it.
Sealed(seal, p) ==
    LET f == published[p].fingerprint
    IN  \E t \in KnownTexts :
          /\ t.ok /\ t.exports = f.exports
          /\ seal[published[p].id] =
                {[path |-> p, text |-> Seen(t), imports |-> DOMAIN f.below]}
                  \cup UNION {seal[f.below[d]] : d \in DOMAIN f.below}
          /\ f.revision = None => t.portable
          /\ f.revision # None /\ p \notin renewed => t = modules[p]

BoundarySound(seal, p) ==
    published[p] # None =>
        /\ p \notin dirty =>
              p \in DOMAIN interfaces /\ interfaces[p] = SealOf(seal, p)
        /\ published[p].fingerprint # None => Sealed(seal, p)

\* A module that is not about to be checked again and has no boundary does not
\* check: by itself, or because an import has no boundary either.
Unpublished(p) ==
    published[p] = None /\ p \notin dirty =>
        /\ p \notin DOMAIN interfaces
        /\ modules[p] # None /\ modules[p].ok =>
              \E d \in imports[p] : published[d] = None

\* The values kept of p's imports are those of the boundaries the imports have.
BindingSound(seal, p) ==
    p \in DOMAIN bindings =>
        /\ \A d \in imports[p] : published[d] # None
        /\ bindings[p] = SealsBelow(seal, p)

InterfaceSound(p) ==
    p \in DOMAIN interfaces =>
        /\ modules[p].ok
        /\ p \in DOMAIN bindings
        /\ interfaces[p] = {Entry(p, Seen(modules[p]))} \cup bindings[p]

LinkSound(p) ==
    published[p] # None /\ p \notin dirty =>
        \A d \in imports[p] :
            /\ published[d] # None
            /\ published[d].id = published[p].fingerprint.below[d]

ProgramSound(p) ==
    p \in DOMAIN closed =>
        p \notin dirty /\ p \in DOMAIN interfaces /\ closed[p] = ProgramOf(p)

PathSound(seal, p) ==
    /\ BoundarySound(seal, p)
    /\ Unpublished(p)
    /\ BindingSound(seal, p)
    /\ InterfaceSound(p)
    /\ LinkSound(p)
    /\ ProgramSound(p)

SealSound(seal) == \A p \in Paths : PathSound(seal, p)

DevSound ==
    \A k \in DOMAIN closedDev :
        /\ k.root \notin dirty
        /\ k.root \in DOMAIN interfaces
        /\ closedDev[k] = ProgramOf(k.root)

CachesSound == (\E seal : SealSound(seal)) /\ DevSound

\* A walk follows imports downwards, and what it has left is settled.
Settled(p) == Reach(p) \cap dirty = {}

WalkAgrees ==
    /\ request # None => Acyclic(request.root)
    /\ request # None /\ walk = << >> => Settled(request.root)
    /\ walk # << >> => walk[1].path = request.root
    /\ \A i \in 1..Len(walk) :
          /\ walk[i].path \in Reach(request.root)
          /\ walk[i].left \subseteq imports[walk[i].path]
          /\ \A d \in imports[walk[i].path] \ walk[i].left :
                Settled(d) \/ (i < Len(walk) /\ d = walk[i + 1].path)
          /\ \A j \in 1..Len(walk) : i < j =>
                walk[j].path \in ReachedBy(imports[walk[i].path], imports)

\* A committed artifact is the one the host retained for its program.
ArtifactsHeld ==
    \A k \in DOMAIN artifacts :
        /\ k.root \in Paths
        /\ k.unit \in DOMAIN retained[k.root]
        /\ retained[k.root][k.unit] = artifacts[k].code

\* A preparation replaces what it compiled and keeps the rest.
PendingAgrees ==
    pending # None =>
        /\ pending.root \in Paths
        /\ DOMAIN pending.replacements \subseteq pending.active
        /\ \A k \in pending.active :
              /\ k.root = pending.root
              /\ k.unit \in pending.units
              /\ IF k \in DOMAIN pending.replacements
                 THEN pending.replacements[k].code = pending.reply[k.unit].code
                 ELSE pending.reply[k.unit].source = "unit-cache"

\* A request for a development program was given a transaction to prepare.
Numbered == request # None /\ request.kind = "develop" => nextTx <= MaxTransaction

IInv ==
    /\ Types
    /\ Numbered
    /\ CachesSound
    /\ WalkAgrees
    /\ ArtifactsHeld
    /\ PendingAgrees
    /\ PreparationsCurrent
    /\ AnswersCurrent

-----------------------------------------------------------------------------
(* Sets that are closed under edges.                                       *)

LEMMA FiniteMinimal ==
    ASSUME NEW S, IsFiniteSet(S), NEW T, T \subseteq SUBSET S, T # {}
    PROVE  \E x \in T : \A y \in T : ~(y \subseteq x /\ y # x)
<1> DEFINE R == StrictSubsetOrdering(S)
<1>1. IsWellFoundedOn(R, SUBSET S)
  BY FS_StrictSubsetOrderingWellFounded, FS_FiniteSubsetsOfFinite
<1>2. \A y, x \in SUBSET S : y \subseteq x /\ y # x => <<y, x>> \in R
  BY DEF StrictSubsetOrdering
<1> HIDE DEF R
<1>3. PICK x \in T : \A y \in T : ~(<<y, x>> \in R)
  BY <1>1, WFMin
<1>4. x \in SUBSET S /\ \A y \in T : y \in SUBSET S
  BY <1>3
<1> QED BY <1>2, <1>3, <1>4

LEMMA ReachedPaths ==
    ASSUME NEW start, NEW edges
    PROVE  ReachedBy(start, edges) \subseteq Paths
BY DEF ReachedBy

LEMMA ReachedStart ==
    ASSUME NEW start, NEW edges, start \subseteq Paths
    PROVE  start \subseteq ReachedBy(start, edges)
<1> SUFFICES ASSUME NEW q \in start PROVE q \in ReachedBy(start, edges)
  OBVIOUS
<1>1. q \in Paths /\ \A S \in SUBSET (Paths \ {q}) : ~(start \subseteq S)
  OBVIOUS
<1> QED BY <1>1 DEF ReachedBy

LEMMA ReachedStep ==
    ASSUME NEW start, NEW edges, NEW q \in ReachedBy(start, edges),
           NEW r \in edges[q], r \in Paths
    PROVE  r \in ReachedBy(start, edges)
<1> SUFFICES ASSUME NEW S \in SUBSET (Paths \ {r}), start \subseteq S,
                    \A x \in S : edges[x] \subseteq S
             PROVE  FALSE
  BY DEF ReachedBy
<1>1. r \notin S
  OBVIOUS
<1>2. q \notin S
  BY <1>1
<1>3. q \in Paths /\ S \in SUBSET (Paths \ {q})
  BY <1>2, ReachedPaths
<1>4. \E x \in S : ~(edges[x] \subseteq S)
  BY <1>3 DEF ReachedBy
<1> QED BY <1>4

LEMMA ReachedLeast ==
    ASSUME NEW start, NEW edges, NEW C, start \subseteq C, start \subseteq Paths,
           \A x \in C : x \in Paths => edges[x] \subseteq C /\ edges[x] \subseteq Paths
    PROVE  ReachedBy(start, edges) \subseteq C
<1> SUFFICES ASSUME NEW q \in ReachedBy(start, edges), q \notin C PROVE FALSE
  OBVIOUS
<1> DEFINE S == C \cap Paths
<1>1. S \in SUBSET (Paths \ {q}) /\ start \subseteq S
  OBVIOUS
<1>2. \A x \in S : edges[x] \subseteq S
  OBVIOUS
<1> HIDE DEF S
<1>3. q \in Paths
  BY ReachedPaths
<1> QED BY <1>1, <1>2, <1>3 DEF ReachedBy

-----------------------------------------------------------------------------
(* Reachability along the imports.                                         *)

LEMMA ReachFacts ==
    ASSUME imports \in [Paths -> SUBSET Paths], NEW p \in Paths
    PROVE  /\ p \in Reach(p)
           /\ Reach(p) \subseteq Paths
           /\ \A q \in Reach(p) : imports[q] \subseteq Reach(p)
           /\ \A q \in Reach(p) : Reach(q) \subseteq Reach(p)
<1>1. {p} \subseteq Reach(p) /\ Reach(p) \subseteq Paths
  BY ReachedStart, ReachedPaths DEF Reach
<1>2. ASSUME NEW q \in Reach(p), NEW r \in imports[q]
      PROVE  r \in Reach(p)
  BY <1>1, <1>2, ReachedStep DEF Reach
<1>3. ASSUME NEW q \in Reach(p)
      PROVE  Reach(q) \subseteq Reach(p)
  <2>1. {q} \subseteq Reach(p) /\ {q} \subseteq Paths
    BY <1>1
  <2>2. \A x \in Reach(p) : x \in Paths =>
            imports[x] \subseteq Reach(p) /\ imports[x] \subseteq Paths
    BY <1>1, <1>2
  <2>3. ReachedBy({q}, imports) \subseteq Reach(p)
    BY <2>1, <2>2, ReachedLeast
  <2> QED BY <2>3 DEF Reach
<1> QED BY <1>1, <1>2, <1>3

\* What is below p is what its imports reach.
LEMMA BelowFacts ==
    ASSUME imports \in [Paths -> SUBSET Paths], NEW p \in Paths
    PROVE  /\ imports[p] \subseteq ReachedBy(imports[p], imports)
           /\ ReachedBy(imports[p], imports) \subseteq Paths
           /\ \A q \in ReachedBy(imports[p], imports) :
                 imports[q] \subseteq ReachedBy(imports[p], imports)
           /\ ReachedBy(imports[p], imports) = UNION {Reach(d) : d \in imports[p]}
           /\ Reach(p) = {p} \cup ReachedBy(imports[p], imports)
<1> DEFINE B == ReachedBy(imports[p], imports)
           U == UNION {Reach(d) : d \in imports[p]}
<1>0. imports[p] \subseteq Paths
  OBVIOUS
<1>1. imports[p] \subseteq B /\ B \subseteq Paths
  BY <1>0, ReachedStart, ReachedPaths
<1>2. ASSUME NEW q \in B, NEW r \in imports[q]
      PROVE  r \in B
  BY <1>1, <1>2, ReachedStep
<1>3. B \subseteq U
  <2>1. imports[p] \subseteq U
    BY <1>0, ReachFacts
  <2>2. ASSUME NEW x \in U
        PROVE  imports[x] \subseteq U /\ imports[x] \subseteq Paths
    <3>1. PICK d \in imports[p] : x \in Reach(d)
      OBVIOUS
    <3>2. imports[x] \subseteq Reach(d) /\ Reach(d) \subseteq Paths
      BY <1>0, <3>1, ReachFacts
    <3> QED BY <3>2
  <2> HIDE DEF U
  <2> QED BY <1>0, <2>1, <2>2, ReachedLeast
<1>4. ASSUME NEW d \in imports[p]
      PROVE  Reach(d) \subseteq B
  <2> HIDE DEF B
  <2>1. {d} \subseteq B /\ {d} \subseteq Paths
    BY <1>0, <1>1
  <2>2. \A x \in B : x \in Paths => imports[x] \subseteq B /\ imports[x] \subseteq Paths
    BY <1>2
  <2> QED BY <2>1, <2>2, ReachedLeast DEF Reach
<1>5. Reach(p) \subseteq {p} \cup B
  <2> DEFINE C == {p} \cup B
  <2> HIDE DEF B
  <2>1. {p} \subseteq C /\ {p} \subseteq Paths
    OBVIOUS
  <2>2. \A x \in C : x \in Paths => imports[x] \subseteq C /\ imports[x] \subseteq Paths
    BY <1>1, <1>2
  <2> HIDE DEF C
  <2>3. Reach(p) \subseteq C
    BY <2>1, <2>2, ReachedLeast DEF Reach
  <2> QED BY <2>3 DEF C
<1>6. B \subseteq Reach(p)
  <2>1. imports[p] \subseteq Reach(p)
    BY ReachFacts
  <2>2. \A d \in imports[p] : Reach(d) \subseteq Reach(p)
    BY <2>1, ReachFacts
  <2> QED BY <1>3, <2>2
<1>7. p \in Reach(p)
  BY ReachFacts
<1> HIDE DEF B
<1>8. U \subseteq B
  BY <1>4
<1> HIDE DEF U
<1>9. B = U
  BY <1>3, <1>8
<1>10. Reach(p) = {p} \cup B
  BY <1>5, <1>6, <1>7
<1> QED BY <1>1, <1>2, <1>9, <1>10 DEF B, U

\* Below a module on no cycle nothing reaches it.
LEMMA AcyclicFacts ==
    ASSUME imports \in [Paths -> SUBSET Paths], NEW p \in Paths, Acyclic(p)
    PROVE  /\ p \notin imports[p]
           /\ \A q \in Reach(p) : Acyclic(q)
           /\ \A d \in imports[p] :
                 /\ Acyclic(d)
                 /\ p \notin Reach(d)
                 /\ Reach(d) \subseteq Reach(p)
                 /\ Reach(d) # Reach(p)
<1>1. p \in Reach(p) /\ p \notin ReachedBy(imports[p], imports)
  BY ReachFacts DEF Acyclic
<1>2. \A q \in Reach(p) : Acyclic(q)
  BY ReachFacts DEF Acyclic
<1>3. imports[p] \subseteq Reach(p)
  BY ReachFacts
<1>4. \A d \in imports[p] : Reach(d) \subseteq ReachedBy(imports[p], imports)
  BY BelowFacts
<1>5. p \notin imports[p]
  BY <1>1, BelowFacts
<1>6. \A d \in imports[p] : Reach(d) \subseteq Reach(p)
  BY <1>3, ReachFacts
<1> QED BY <1>1, <1>2, <1>3, <1>4, <1>5, <1>6

\* A module is settled when it is not dirty and its imports are settled.
LEMMA SettledFacts ==
    ASSUME imports \in [Paths -> SUBSET Paths], NEW p \in Paths
    PROVE  /\ Settled(p) <=> p \notin dirty /\ \A d \in imports[p] : Settled(d)
           /\ Settled(p) => \A q \in Reach(p) : Settled(q)
<1>1. p \in Reach(p) /\ imports[p] \subseteq Reach(p)
  BY ReachFacts
<1>2. \A q \in Reach(p) : Reach(q) \subseteq Reach(p)
  BY ReachFacts
<1>3. Reach(p) = {p} \cup UNION {Reach(d) : d \in imports[p]}
  BY BelowFacts
<1>4. Settled(p) => \A q \in Reach(p) : Settled(q)
  BY <1>2 DEF Settled
<1>5. Settled(p) => p \notin dirty /\ \A d \in imports[p] : Settled(d)
  BY <1>1, <1>4 DEF Settled
<1>6. ASSUME p \notin dirty, \A d \in imports[p] : Settled(d), NEW q \in Reach(p), q \in dirty
      PROVE  FALSE
  <2>1. PICK d \in imports[p] : q \in Reach(d)
    BY <1>3, <1>6
  <2> QED BY <1>6, <2>1 DEF Settled
<1> QED BY <1>4, <1>5, <1>6 DEF Settled

-----------------------------------------------------------------------------
(* What is settled is fresh.                                               *)

\* The imports of a settled module that has an interface have theirs.
LEMMA CachedBelow ==
    ASSUME Types, NEW seal, SealSound(seal), NEW p \in DOMAIN interfaces,
           \A d \in imports[p] : Settled(d)
    PROVE  /\ imports[p] \subseteq DOMAIN interfaces
           /\ \A d \in imports[p] : published[d] # None
           /\ bindings[p] = UNION {interfaces[d] : d \in imports[p]}
<1>1. p \in Paths /\ imports[p] \subseteq Paths
  BY DEF Types
<1>2. \A d \in imports[p] : published[d] # None
  BY <1>1 DEF SealSound, PathSound, InterfaceSound, BindingSound
<1>3. \A d \in imports[p] : d \in DOMAIN interfaces /\ interfaces[d] = SealOf(seal, d)
  <2> TAKE d \in imports[p]
  <2>1. d \notin dirty
    BY <1>1, SettledFacts DEF Types
  <2> QED BY <1>1, <1>2, <2>1 DEF SealSound, PathSound, BoundarySound
<1>4. bindings[p] = SealsBelow(seal, p)
  BY <1>1 DEF SealSound, PathSound, InterfaceSound, BindingSound
<1>5. SealsBelow(seal, p) = UNION {interfaces[d] : d \in imports[p]}
  BY <1>3 DEF SealsBelow
<1> QED BY <1>2, <1>3, <1>4, <1>5

\* One level of freshness.
LEMMA FreshStep ==
    ASSUME Types, NEW p \in Paths, Acyclic(p), modules[p] # None, modules[p].ok,
           \A d \in imports[p] : FreshOk(d)
    PROVE  /\ FreshOk(p)
           /\ FreshView(p) = {Entry(p, Seen(modules[p]))} \cup
                 UNION {FreshView(d) : d \in imports[p]}
<1>1. Reach(p) = {p} \cup UNION {Reach(d) : d \in imports[p]}
  BY BelowFacts DEF Types
<1>2. FreshOk(p)
  BY <1>1 DEF FreshOk
<1>3. FreshView(p) = {Entry(p, Seen(modules[p]))} \cup
          UNION {FreshView(d) : d \in imports[p]}
  <2>1. ASSUME NEW e \in FreshView(p)
        PROVE  e \in {Entry(p, Seen(modules[p]))} \cup
                   UNION {FreshView(d) : d \in imports[p]}
    BY <1>1 DEF FreshView
  <2>2. Entry(p, Seen(modules[p])) \in FreshView(p)
    BY <1>1 DEF FreshView
  <2>3. \A d \in imports[p] : FreshView(d) \subseteq FreshView(p)
    BY <1>1 DEF FreshView
  <2> QED BY <2>1, <2>2, <2>3
<1> QED BY <1>2, <1>3

LEMMA InterfaceFresh ==
    ASSUME Types, NEW seal, SealSound(seal), NEW p \in DOMAIN interfaces,
           Settled(p), Acyclic(p)
    PROVE  FreshOk(p) /\ interfaces[p] = FreshView(p)
<1> DEFINE Good(q) == FreshOk(q) /\ interfaces[q] = FreshView(q)
           Bad == {q \in DOMAIN interfaces : Settled(q) /\ Acyclic(q) /\ ~Good(q)}
<1> SUFFICES Bad = {}
  OBVIOUS
<1> SUFFICES ASSUME Bad # {} PROVE FALSE
  OBVIOUS
<1>1. imports \in [Paths -> SUBSET Paths] /\ DOMAIN interfaces \subseteq Paths
  BY DEF Types
<1>2. PICK q \in Bad : \A r \in Bad : ~(Reach(r) \subseteq Reach(q) /\ Reach(r) # Reach(q))
  <2> DEFINE T == {Reach(r) : r \in Bad}
  <2>1. T \subseteq SUBSET Paths /\ T # {}
    BY <1>1, ReachFacts
  <2> HIDE DEF T
  <2>2. PICK x \in T : \A y \in T : ~(y \subseteq x /\ y # x)
    BY <2>1, PathsFinite, FiniteMinimal
  <2> QED BY <2>2 DEF T
<1>3. q \in DOMAIN interfaces /\ q \in Paths /\ Settled(q) /\ Acyclic(q) /\ ~Good(q)
  BY <1>1
<1>4. \A d \in imports[q] : d \in Paths /\ Settled(d) /\ Acyclic(d)
  BY <1>1, <1>3, SettledFacts, AcyclicFacts
<1>5. imports[q] \subseteq DOMAIN interfaces
      /\ bindings[q] = UNION {interfaces[d] : d \in imports[q]}
  BY <1>3, <1>4, CachedBelow
<1>6. \A d \in imports[q] : Good(d)
  <2> SUFFICES ASSUME NEW d \in imports[q], ~Good(d) PROVE FALSE
    OBVIOUS
  <2>1. d \in Bad
    BY <1>4, <1>5
  <2>2. Reach(d) \subseteq Reach(q) /\ Reach(d) # Reach(q)
    BY <1>1, <1>3, AcyclicFacts
  <2> QED BY <1>2, <2>1, <2>2
<1>7. /\ modules[q] # None /\ modules[q].ok
      /\ interfaces[q] = {Entry(q, Seen(modules[q]))} \cup bindings[q]
  BY <1>3 DEF Types, SealSound, PathSound, InterfaceSound
<1>8. /\ FreshOk(q)
      /\ FreshView(q) = {Entry(q, Seen(modules[q]))} \cup
             UNION {FreshView(d) : d \in imports[q]}
  BY <1>3, <1>6, <1>7, FreshStep
<1>9. UNION {FreshView(d) : d \in imports[q]} = bindings[q]
  BY <1>5, <1>6
<1> QED BY <1>3, <1>7, <1>8, <1>9

\* The program closed for a settled module is the fresh one.
LEMMA ProgramFresh ==
    ASSUME Types, NEW seal, SealSound(seal), NEW p \in DOMAIN interfaces,
           Settled(p), Acyclic(p)
    PROVE  ProgramOf(p) = FreshProgram(p)
<1>1. imports \in [Paths -> SUBSET Paths] /\ p \in Paths
  BY DEF Types
<1>2. \A d \in imports[p] : Settled(d) /\ Acyclic(d) /\ p \notin Reach(d)
  BY <1>1, SettledFacts, AcyclicFacts
<1>3. imports[p] \subseteq DOMAIN interfaces
      /\ bindings[p] = UNION {interfaces[d] : d \in imports[p]}
  BY <1>2, CachedBelow
<1>4. \A d \in imports[p] : interfaces[d] = FreshView(d)
  BY <1>2, <1>3, InterfaceFresh
<1>5. Reach(p) = {p} \cup UNION {Reach(d) : d \in imports[p]}
  BY <1>1, BelowFacts
<1>6. ASSUME NEW e
      PROVE  e \in bindings[p] <=>
                \E q \in UNION {Reach(d) : d \in imports[p]} : e = Entry(q, Seen(modules[q]))
  BY <1>3, <1>4 DEF FreshView
<1>7. \A q \in UNION {Reach(d) : d \in imports[p]} :
          q # p /\ Entry(q, Seen(modules[q])).path = q
  BY <1>2 DEF Entry
<1>8. ASSUME NEW e \in ProgramOf(p) PROVE e \in FreshProgram(p)
  BY <1>5, <1>6, <1>7, <1>8 DEF ProgramOf, FreshProgram
<1>9. ASSUME NEW e \in FreshProgram(p) PROVE e \in ProgramOf(p)
  <2>1. PICK q \in Reach(p) :
            e = Entry(q, IF q = p THEN modules[q] ELSE Seen(modules[q]))
    BY DEF FreshProgram
  <2>2. CASE q = p
    BY <2>1, <2>2 DEF ProgramOf
  <2>3. CASE q # p
    <3>1. q \in UNION {Reach(d) : d \in imports[p]} /\ e = Entry(q, Seen(modules[q]))
      BY <1>5, <2>1, <2>3
    <3> QED BY <1>6, <1>7, <3>1 DEF ProgramOf
  <2> QED BY <2>2, <2>3
<1> QED BY <1>8, <1>9

-----------------------------------------------------------------------------
(* What checker.check does when the imports are settled.                   *)

LEMMA UncheckedFacts ==
    ASSUME imports \in [Paths -> SUBSET Paths], NEW p \in Paths
    PROVE  /\ UncheckedImports \in [Paths -> SUBSET Paths]
           /\ Unchecked(p) \subseteq Reach(p)
           /\ p \in DOMAIN interfaces => Unchecked(p) = {}
           /\ p \notin DOMAIN interfaces =>
                 p \in Unchecked(p) /\ \A d \in imports[p] : Unchecked(d) \subseteq Unchecked(p)
<1> DEFINE R(q) == ReachedBy({q}, UncheckedImports)
<1>1. UncheckedImports \in [Paths -> SUBSET Paths]
      /\ \A q \in Paths : UncheckedImports[q] \subseteq imports[q]
  BY DEF UncheckedImports
<1>2. \A q \in Paths : q \in R(q) /\ R(q) \subseteq Paths
  <2> TAKE q \in Paths
  <2>1. {q} \subseteq R(q) /\ R(q) \subseteq Paths
    BY ReachedStart, ReachedPaths
  <2> QED BY <2>1
<1>3. R(p) \subseteq Reach(p)
  <2>1. {p} \subseteq Reach(p) /\ {p} \subseteq Paths
    BY ReachFacts
  <2>2. \A x \in Reach(p) : x \in Paths =>
            UncheckedImports[x] \subseteq Reach(p) /\ UncheckedImports[x] \subseteq Paths
    BY <1>1, ReachFacts
  <2> QED BY <2>1, <2>2, ReachedLeast
<1>4. ASSUME p \in DOMAIN interfaces
      PROVE  R(p) \subseteq {p}
  <2> DEFINE C == {p}
  <2>1. {p} \subseteq C /\ {p} \subseteq Paths
    OBVIOUS
  <2>2. \A x \in C : x \in Paths =>
            UncheckedImports[x] \subseteq C /\ UncheckedImports[x] \subseteq Paths
    BY <1>4 DEF UncheckedImports
  <2> HIDE DEF C
  <2>3. R(p) \subseteq C
    BY <2>1, <2>2, ReachedLeast
  <2> QED BY <2>3 DEF C
<1>5. ASSUME p \notin DOMAIN interfaces, NEW d \in imports[p]
      PROVE  R(d) \subseteq R(p)
  <2>1. d \in UncheckedImports[p] /\ d \in Paths
    BY <1>5 DEF UncheckedImports
  <2>2. d \in R(p)
    BY <1>2, <2>1, ReachedStep
  <2> DEFINE C == R(p)
  <2>3. {d} \subseteq C /\ {d} \subseteq Paths
    BY <2>1, <2>2
  <2>4. ASSUME NEW x \in C, x \in Paths
        PROVE  UncheckedImports[x] \subseteq C /\ UncheckedImports[x] \subseteq Paths
    <3>1. UncheckedImports[x] \subseteq Paths
      BY <1>1, <2>4
    <3>2. \A r \in UncheckedImports[x] : r \in C
      BY <2>4, <3>1, ReachedStep
    <3> QED BY <3>1, <3>2
  <2> HIDE DEF C
  <2>5. R(d) \subseteq C
    BY <2>3, <2>4, ReachedLeast
  <2> QED BY <2>5 DEF C
<1> QED BY <1>1, <1>2, <1>3, <1>4, <1>5 DEF Unchecked

\* What does not check would not check in a fresh session.
LEMMA NotChecked ==
    ASSUME imports \in [Paths -> SUBSET Paths], NEW p \in Paths, ~Checks(p)
    PROVE  ~FreshOk(p)
<1> SUFFICES ASSUME FreshOk(p) PROVE FALSE
  OBVIOUS
<1>1. PICK q \in Unchecked(p) :
          \/ modules[q] = None \/ ~modules[q].ok
          \/ q \in ReachedBy(imports[q], UncheckedImports)
  BY DEF Checks
<1>2. q \in Reach(p) /\ q \in Paths
  BY UncheckedFacts, ReachFacts
<1>3. q \in ReachedBy(imports[q], UncheckedImports)
  BY <1>1, <1>2 DEF FreshOk
<1>4. ReachedBy(imports[q], UncheckedImports) \subseteq ReachedBy(imports[q], imports)
  <2> DEFINE C == ReachedBy(imports[q], imports)
  <2>1. imports[q] \subseteq C /\ imports[q] \subseteq Paths
    BY <1>2, BelowFacts
  <2>2. \A x \in C : x \in Paths =>
            UncheckedImports[x] \subseteq C /\ UncheckedImports[x] \subseteq Paths
    BY <1>2, BelowFacts DEF UncheckedImports
  <2> HIDE DEF C
  <2>3. ReachedBy(imports[q], UncheckedImports) \subseteq C
    BY <2>1, <2>2, ReachedLeast
  <2> QED BY <2>3 DEF C
<1> QED BY <1>2, <1>3, <1>4 DEF FreshOk, Acyclic

\* A settled module that checks has its interface.
LEMMA SettledChecked ==
    ASSUME Types, NEW seal, SealSound(seal), NEW p \in Paths,
           Settled(p), Acyclic(p), Checks(p)
    PROVE  p \in DOMAIN interfaces
<1> DEFINE Bad == {q \in Paths : Settled(q) /\ Acyclic(q) /\ Checks(q)
                                   /\ q \notin DOMAIN interfaces}
<1> SUFFICES ASSUME Bad # {} PROVE FALSE
  OBVIOUS
<1>1. imports \in [Paths -> SUBSET Paths]
  BY DEF Types
<1>2. PICK q \in Bad : \A r \in Bad : ~(Reach(r) \subseteq Reach(q) /\ Reach(r) # Reach(q))
  <2> DEFINE T == {Reach(r) : r \in Bad}
  <2>1. T \subseteq SUBSET Paths /\ T # {}
    BY <1>1, ReachFacts
  <2> HIDE DEF T
  <2>2. PICK x \in T : \A y \in T : ~(y \subseteq x /\ y # x)
    BY <2>1, PathsFinite, FiniteMinimal
  <2> QED BY <2>2 DEF T
<1>3. q \in Paths /\ Settled(q) /\ Acyclic(q) /\ Checks(q) /\ q \notin DOMAIN interfaces
  OBVIOUS
<1>4. q \in Unchecked(q) /\ \A d \in imports[q] : Unchecked(d) \subseteq Unchecked(q)
  BY <1>1, <1>3, UncheckedFacts
<1>5. modules[q] # None /\ modules[q].ok
  BY <1>3, <1>4 DEF Checks
<1>6. q \notin dirty /\ \A d \in imports[q] : d \in Paths /\ Settled(d) /\ d \notin dirty
  BY <1>1, <1>3, SettledFacts
<1>7. PICK d \in imports[q] : published[d] = None
  BY <1>3, <1>5, <1>6 DEF SealSound, PathSound, BoundarySound, Unpublished
<1>8. d \notin DOMAIN interfaces
  BY <1>6, <1>7 DEF SealSound, PathSound, Unpublished
<1>9. Checks(d)
  BY <1>3, <1>4 DEF Checks
<1>10. Acyclic(d) /\ Reach(d) \subseteq Reach(q) /\ Reach(d) # Reach(q)
  BY <1>1, <1>3, AcyclicFacts
<1> QED BY <1>2, <1>6, <1>8, <1>9, <1>10

\* The view of a cached module is its interface.
LEMMA CachedView ==
    ASSUME Types, NEW d \in DOMAIN interfaces
    PROVE  CheckedView(d) = interfaces[d]
<1> DEFINE E == [q \in Paths |->
                    IF q \in DOMAIN interfaces \cup DOMAIN bindings THEN {} ELSE imports[q]]
<1>1. d \in Paths
  BY DEF Types
<1>2. {d} \subseteq ReachedBy({d}, E)
  BY <1>1, ReachedStart
<1>3. \A x \in {d} : x \in Paths => E[x] \subseteq {d} /\ E[x] \subseteq Paths
  OBVIOUS
<1>4. ReachedBy({d}, E) \subseteq {d}
  <2> HIDE DEF E
  <2>1. {d} \subseteq {d} /\ {d} \subseteq Paths
    BY <1>1
  <2> QED BY <1>3, <2>1, ReachedLeast
<1>5. Evaluated(d) = {d}
  BY <1>2, <1>4 DEF Evaluated
<1> QED BY <1>5 DEF CheckedView, Contribution

\* When a module checks over settled imports, they have boundaries and
\* interfaces, and the module sees their seals.
LEMMA SettlingChecked ==
    ASSUME Types, NEW seal, SealSound(seal), NEW p \in Paths, Acyclic(p), Checks(p),
           \A d \in imports[p] : Settled(d)
    PROVE  /\ modules[p] # None /\ modules[p].ok
           /\ imports[p] \subseteq DOMAIN interfaces
           /\ \A d \in imports[p] : published[d] # None
           /\ Unchecked(p) = {p} \ DOMAIN interfaces
           /\ ImportsSeen(p) = SealsBelow(seal, p)
           /\ CheckedView(p) = {Entry(p, Seen(modules[p]))} \cup SealsBelow(seal, p)
<1>1. imports \in [Paths -> SUBSET Paths] /\ imports[p] \subseteq Paths
  BY DEF Types
<1>2. CASE p \in DOMAIN interfaces
  <2>1. modules[p] # None /\ modules[p].ok /\ p \in DOMAIN bindings
        /\ interfaces[p] = {Entry(p, Seen(modules[p]))} \cup bindings[p]
        /\ bindings[p] = SealsBelow(seal, p)
    BY <1>2 DEF Types, SealSound, PathSound, InterfaceSound, BindingSound
  <2>2. imports[p] \subseteq DOMAIN interfaces /\ \A d \in imports[p] : published[d] # None
    BY <1>2, CachedBelow
  <2>3. Unchecked(p) = {p} \ DOMAIN interfaces
    BY <1>1, <1>2, UncheckedFacts
  <2>4. CheckedView(p) = interfaces[p]
    BY <1>2, CachedView
  <2> QED BY <2>1, <2>2, <2>3, <2>4 DEF ImportsSeen
<1>3. CASE p \notin DOMAIN interfaces
  <2>1. p \in Unchecked(p) /\ \A d \in imports[p] : Unchecked(d) \subseteq Unchecked(p)
    BY <1>1, <1>3, UncheckedFacts
  <2>2. modules[p] # None /\ modules[p].ok
    BY <2>1 DEF Checks
  <2>3. \A d \in imports[p] : d \in DOMAIN interfaces
    <3> TAKE d \in imports[p]
    <3>1. Checks(d)
      BY <2>1 DEF Checks
    <3>2. Acyclic(d) /\ Settled(d) /\ d \in Paths
      BY <1>1, AcyclicFacts
    <3> QED BY <3>1, <3>2, SettledChecked
  <2>4. \A d \in imports[p] : published[d] # None /\ interfaces[d] = SealOf(seal, d)
    <3> TAKE d \in imports[p]
    <3>1. d \in Paths /\ d \notin dirty
      BY <1>1, SettledFacts
    <3>2. published[d] # None
      BY <2>3, <3>1 DEF SealSound, PathSound, Unpublished
    <3> QED BY <3>1, <3>2 DEF SealSound, PathSound, BoundarySound
  <2>5. Unchecked(p) = {p} \ DOMAIN interfaces
    <3> DEFINE C == {p} \cup imports[p]
    <3>1. {p} \subseteq C /\ {p} \subseteq Paths
      OBVIOUS
    <3>2. \A x \in C : x \in Paths =>
              UncheckedImports[x] \subseteq C /\ UncheckedImports[x] \subseteq Paths
      BY <1>1, <2>3 DEF UncheckedImports
    <3> HIDE DEF C
    <3>3. ReachedBy({p}, UncheckedImports) \subseteq C
      BY <3>1, <3>2, ReachedLeast
    <3> QED BY <1>3, <2>1, <2>3, <3>3 DEF Unchecked, C
  <2>6. ImportsSeen(p) = SealsBelow(seal, p)
    <3>1. CASE p \in DOMAIN bindings
      BY <3>1 DEF ImportsSeen, SealSound, PathSound, BindingSound
    <3>2. CASE p \notin DOMAIN bindings
      <4>1. \A d \in imports[p] : CheckedView(d) = SealOf(seal, d)
        BY <2>3, <2>4, CachedView
      <4> QED BY <3>2, <4>1 DEF ImportsSeen, SealsBelow
    <3> QED BY <3>1, <3>2
  <2>7. CheckedView(p) = {Entry(p, Seen(modules[p]))} \cup ImportsSeen(p)
    <3> DEFINE E == [q \in Paths |->
                      IF q \in DOMAIN interfaces \cup DOMAIN bindings THEN {} ELSE imports[q]]
               C == {p} \cup E[p]
    <3>1. {p} \subseteq C /\ {p} \subseteq Paths
      OBVIOUS
    <3>2. \A x \in C : x \in Paths => E[x] \subseteq C /\ E[x] \subseteq Paths
      BY <1>1, <2>3
    <3>3. E[p] \subseteq Paths
      BY <1>1
    <3>4. Evaluated(p) = ReachedBy({p}, E)
      BY DEF Evaluated
    <3>5. C \subseteq ReachedBy({p}, E)
      <4> HIDE DEF E
      <4>1. {p} \subseteq ReachedBy({p}, E)
        BY <3>1, ReachedStart
      <4>2. \A d \in E[p] : d \in ReachedBy({p}, E)
        BY <3>3, <4>1, ReachedStep
      <4> QED BY <4>1, <4>2
    <3>6. ReachedBy({p}, E) \subseteq C
      <4> HIDE DEF C, E
      <4> QED BY <3>1, <3>2, ReachedLeast
    <3>7. Evaluated(p) = C
      BY <3>4, <3>5, <3>6
    <3>8. CASE p \in DOMAIN bindings
      <4>1. Evaluated(p) = {p}
        BY <3>7, <3>8
      <4>2. CheckedView(p) = Contribution(p)
        BY <4>1 DEF CheckedView
      <4> QED BY <1>3, <3>8, <4>2 DEF Contribution, ImportsSeen
    <3>9. CASE p \notin DOMAIN bindings
      <4>1. Evaluated(p) = {p} \cup imports[p]
        BY <1>3, <3>7, <3>9
      <4>2. Contribution(p) = {Entry(p, Seen(modules[p]))}
        BY <1>3, <3>9 DEF Contribution
      <4>3. \A d \in imports[p] : Contribution(d) = CheckedView(d)
        BY <2>3, CachedView DEF Contribution
      <4>4. CheckedView(p) = Contribution(p) \cup UNION {Contribution(d) : d \in imports[p]}
        BY <4>1 DEF CheckedView
      <4>5. ImportsSeen(p) = UNION {CheckedView(d) : d \in imports[p]}
        BY <3>9 DEF ImportsSeen
      <4> HIDE DEF E, C
      <4>6. UNION {Contribution(d) : d \in imports[p]} = UNION {CheckedView(d) : d \in imports[p]}
        BY <4>3
      <4> QED BY <4>2, <4>4, <4>5, <4>6
    <3> QED BY <3>8, <3>9
  <2> QED BY <2>2, <2>3, <2>4, <2>5, <2>6, <2>7
<1> QED BY <1>2, <1>3

\* What is cached then.
LEMMA SettlingCaches ==
    ASSUME Types, NEW seal, SealSound(seal), NEW p \in Paths, Acyclic(p), Checks(p),
           \A d \in imports[p] : Settled(d)
    PROVE  /\ DOMAIN Caches(p) = DOMAIN interfaces \cup {p}
           /\ Caches(p)[p] = CheckedView(p)
           /\ \A q \in DOMAIN interfaces : Caches(p)[q] = interfaces[q]
           /\ DOMAIN Evaluates(p) = DOMAIN bindings \cup {p}
           /\ Evaluates(p)[p] = SealsBelow(seal, p)
           /\ \A q \in DOMAIN bindings : Evaluates(p)[q] = bindings[q]
<1>1. /\ Unchecked(p) = {p} \ DOMAIN interfaces
      /\ ImportsSeen(p) = SealsBelow(seal, p)
  BY SettlingChecked
<1>2. p \in DOMAIN interfaces => p \in DOMAIN bindings
  BY DEF SealSound, PathSound, InterfaceSound
<1>3. p \in DOMAIN interfaces => CheckedView(p) = interfaces[p]
  BY CachedView
<1>4. \A q \in DOMAIN bindings : ImportsSeen(q) = bindings[q]
  BY DEF ImportsSeen
<1>5. /\ DOMAIN Caches(p) = DOMAIN interfaces \cup {p}
      /\ Caches(p)[p] = CheckedView(p)
      /\ \A q \in DOMAIN interfaces : Caches(p)[q] = interfaces[q]
  BY <1>1, <1>3 DEF Caches
<1>6. /\ DOMAIN Evaluates(p) = DOMAIN bindings \cup {p}
      /\ Evaluates(p)[p] = SealsBelow(seal, p)
      /\ \A q \in DOMAIN bindings : Evaluates(p)[q] = bindings[q]
  BY <1>1, <1>2, <1>4 DEF Evaluates
<1> QED BY <1>5, <1>6

-----------------------------------------------------------------------------
(* What a step does to a module.                                           *)

\* Nothing about q changes that its caches depend on.
Same(q) ==
    /\ modules'[q] = modules[q]
    /\ imports'[q] = imports[q]
    /\ published'[q] = published[q]
    /\ q \in dirty' <=> q \in dirty
    /\ q \in renewed => q \in renewed'
    /\ q \in DOMAIN interfaces' <=> q \in DOMAIN interfaces
    /\ q \in DOMAIN interfaces => interfaces'[q] = interfaces[q]
    /\ q \in DOMAIN bindings' <=> q \in DOMAIN bindings
    /\ q \in DOMAIN bindings => bindings'[q] = bindings[q]
    /\ q \in DOMAIN closed' => q \in DOMAIN closed /\ closed'[q] = closed[q]
    /\ modules[q] # None => \A d \in imports[q] : published'[d] = published[d]

\* q is dirty and nothing of it is cached; its boundary stays.
Dropped(q) ==
    /\ published'[q] = published[q]
    /\ q \in dirty'
    /\ q \in renewed => q \in renewed'
    /\ modules'[q] = modules[q] \/ q \in renewed'
    /\ q \notin DOMAIN interfaces'
    /\ q \notin DOMAIN bindings'
    /\ q \notin DOMAIN closed'

\* The published views stay what they were.
Extends(t, s) == \A i \in 1..nextId : t[i] = s[i]

\* The boundary of q stays sealed while its text stays, or its revision is
\* renewed.
LEMMA SealedStays ==
    ASSUME Types, NEW s, NEW t, Extends(t, s), NEW q \in Paths,
           published[q] # None, published[q].fingerprint # None, Sealed(s, q),
           published'[q] = published[q], q \in renewed => q \in renewed',
           modules'[q] = modules[q] \/ q \in renewed'
    PROVE  Sealed(t, q)'
<1> DEFINE f == published[q].fingerprint
           id == published[q].id
<1>1. id \in 1..nextId /\ \A d \in DOMAIN f.below : f.below[d] \in 1..nextId
  BY DEF Types
<1>2. t[id] = s[id] /\ \A d \in DOMAIN f.below : t[f.below[d]] = s[f.below[d]]
  BY <1>1 DEF Extends
<1>3. published'[q].fingerprint = f /\ published'[q].id = id
  OBVIOUS
<1> HIDE DEF f, id
<1>4. UNION {t[f.below[d]] : d \in DOMAIN f.below}
          = UNION {s[f.below[d]] : d \in DOMAIN f.below}
  BY <1>2
<1>5. PICK x \in KnownTexts :
          /\ x.ok /\ x.exports = f.exports
          /\ s[id] = {[path |-> q, text |-> Seen(x), imports |-> DOMAIN f.below]}
                       \cup UNION {s[f.below[d]] : d \in DOMAIN f.below}
          /\ f.revision = None => x.portable
          /\ f.revision # None /\ q \notin renewed => x = modules[q]
  BY DEF Sealed, f, id
<1>6. /\ t[id] = {[path |-> q, text |-> Seen(x), imports |-> DOMAIN f.below]}
                   \cup UNION {t[f.below[d]] : d \in DOMAIN f.below}
      /\ f.revision # None /\ q \notin renewed' => x = modules'[q]
  BY <1>2, <1>4, <1>5
<1> QED BY <1>3, <1>5, <1>6 DEF Sealed

LEMMA DroppedSound ==
    ASSUME Types, NEW s, NEW t, Extends(t, s), NEW q \in Paths,
           PathSound(s, q), Dropped(q)
    PROVE  PathSound(t, q)'
<1>1. published'[q] # None /\ published'[q].fingerprint # None => Sealed(t, q)'
  BY SealedStays DEF PathSound, BoundarySound, Dropped
<1>2. BoundarySound(t, q)'
  BY <1>1 DEF BoundarySound, Dropped
<1>3. Unpublished(q)' /\ BindingSound(t, q)' /\ InterfaceSound(q)' /\ LinkSound(q)'
      /\ ProgramSound(q)'
  BY DEF Dropped, Unpublished, BindingSound, InterfaceSound, LinkSound, ProgramSound
<1> QED BY <1>2, <1>3 DEF PathSound

LEMMA SameSound ==
    ASSUME Types, NEW s, NEW t, Extends(t, s), NEW q \in Paths,
           PathSound(s, q), Same(q)
    PROVE  PathSound(t, q)'
<1>1. published'[q] # None /\ published'[q].fingerprint # None => Sealed(t, q)'
  BY SealedStays DEF PathSound, BoundarySound, Same
<1>2. published[q] # None => published[q].id \in 1..nextId
  BY DEF Types
<1>3. published[q] # None => SealOf(t, q)' = SealOf(s, q)
  BY <1>2 DEF SealOf, Extends, Same
<1>4. BoundarySound(t, q)'
  BY <1>1, <1>3 DEF PathSound, BoundarySound, Same
<1>5. q \in DOMAIN interfaces \cup DOMAIN bindings \cup DOMAIN closed => modules[q] # None
  BY DEF Types
<1>6. Unpublished(q)'
  BY DEF PathSound, Unpublished, Same
<1>7. BindingSound(t, q)'
  <2> SUFFICES ASSUME q \in DOMAIN bindings'
               PROVE  /\ \A d \in imports'[q] : published'[d] # None
                      /\ bindings'[q] = SealsBelow(t, q)'
    BY DEF BindingSound
  <2>1. q \in DOMAIN bindings /\ imports'[q] = imports[q] /\ bindings'[q] = bindings[q]
        /\ \A d \in imports[q] : published'[d] = published[d]
    BY <1>5 DEF Same
  <2>2. \A d \in imports[q] : d \in Paths /\ published[d] # None
    BY <2>1 DEF PathSound, BindingSound, Types
  <2>3. \A d \in imports[q] : published[d].id \in 1..nextId
    BY <2>2 DEF Types
  <2>4. \A d \in imports[q] : t[published'[d].id] = s[published[d].id]
    BY <2>1, <2>3 DEF Extends
  <2>5. SealsBelow(t, q)' = UNION {t[published'[d].id] : d \in imports[q]}
    BY <2>1 DEF SealsBelow, SealOf
  <2>6. SealsBelow(s, q) = UNION {s[published[d].id] : d \in imports[q]}
    BY DEF SealsBelow, SealOf
  <2>7. bindings[q] = SealsBelow(s, q)
    BY <2>1 DEF PathSound, BindingSound
  <2> QED BY <2>1, <2>2, <2>4, <2>5, <2>6, <2>7
<1>8. InterfaceSound(q)'
  BY <1>5 DEF PathSound, InterfaceSound, Same, Entry
<1>9. LinkSound(q)'
  <2>1. published[q] # None => modules[q] # None
    BY DEF Types
  <2> QED BY <2>1 DEF PathSound, LinkSound, Same
<1>10. ProgramSound(q)'
  BY DEF PathSound, ProgramSound, InterfaceSound, ProgramOf, Entry, Same
<1> QED BY <1>4, <1>6, <1>7, <1>8, <1>9, <1>10 DEF PathSound

\* The development programs that are kept belong to modules that stay.
LEMMA DevSame ==
    ASSUME Types, NEW s, SealSound(s), DevSound,
           \A k \in DOMAIN closedDev' :
               k \in DOMAIN closedDev /\ closedDev'[k] = closedDev[k] /\ Same(k.root)
    PROVE  DevSound'
<1> SUFFICES ASSUME NEW k \in DOMAIN closedDev'
             PROVE  /\ k.root \notin dirty'
                    /\ k.root \in DOMAIN interfaces'
                    /\ closedDev'[k] = ProgramOf(k.root)'
  BY DEF DevSound
<1> DEFINE q == k.root
<1>1. /\ q \notin dirty /\ q \in DOMAIN interfaces /\ closedDev[k] = ProgramOf(q)
      /\ q \in Paths /\ closedDev'[k] = closedDev[k] /\ Same(q)
  BY DEF DevSound, Types
<1>2. q \in DOMAIN bindings
  BY <1>1 DEF SealSound, PathSound, InterfaceSound
<1>3. ProgramOf(q)' = ProgramOf(q)
  BY <1>1, <1>2 DEF ProgramOf, Entry, Same
<1> QED BY <1>1, <1>3 DEF Same

-----------------------------------------------------------------------------
(* Loading keeps the caches sound.                                         *)

LEMMA AddSourceSound ==
    ASSUME Types, CachesSound, NEW p \in Paths, NEW text \in Texts, AddSource(p, text)
    PROVE  Types' /\ CachesSound'
<1>1. PICK s : SealSound(s)
  BY DEF CachesSound
<1>2. Extends(s, s)
  BY DEF Extends
<1>3. /\ DOMAIN interfaces' = DOMAIN interfaces \ {p}
      /\ \A q \in DOMAIN interfaces' : interfaces'[q] = interfaces[q]
  <2>1. interfaces' = Without(interfaces, {p})
    BY DEF AddSource
  <2> QED BY <2>1 DEF Without, Restrict
<1>4. /\ DOMAIN closed' = DOMAIN closed \ {p}
      /\ \A q \in DOMAIN closed' : closed'[q] = closed[q]
  <2>1. closed' = Without(closed, {p})
    BY DEF AddSource, InvalidateExact
  <2> QED BY <2>1 DEF Without, Restrict
<1>5. /\ DOMAIN bindings \ {p} \subseteq DOMAIN bindings'
      /\ DOMAIN bindings' \subseteq DOMAIN bindings
      /\ p \in DOMAIN bindings' => modules[p] # None
      /\ \A q \in DOMAIN bindings' : bindings'[q] = bindings[q]
  <2>1. \/ bindings' = bindings /\ modules[p] # None
        \/ bindings' = Without(bindings, {p})
    BY DEF AddSource
  <2>2. CASE bindings' = bindings /\ modules[p] # None
    BY <2>2
  <2>3. CASE bindings' = Without(bindings, {p})
    <3>1. DOMAIN bindings' = DOMAIN bindings \ {p}
          /\ \A q \in DOMAIN bindings' : bindings'[q] = bindings[q]
      BY <2>3 DEF Without, Restrict
    <3> QED BY <3>1
  <2> QED BY <2>1, <2>2, <2>3
<1>6. /\ modules' = [modules EXCEPT ![p] = text]
      /\ dirty' = dirty \cup {p}
      /\ renewed' = renewed \cup {p}
      /\ UNCHANGED <<imports, published, nextId>>
  BY DEF AddSource, InvalidateExact
<1>7. modules'[p] = text /\ \A q \in Paths : q # p => modules'[q] = modules[q]
  BY <1>6 DEF Types
<1>8. ASSUME NEW q \in Paths, q # p
      PROVE  Same(q)
  BY <1>3, <1>4, <1>5, <1>6, <1>7, <1>8 DEF Same
<1>9. ASSUME NEW q \in Paths, q # p
      PROVE  PathSound(s, q)'
  BY <1>1, <1>2, <1>8, <1>9, SameSound DEF SealSound
<1>10. PathSound(s, p)'
  <2>1. published'[p] # None /\ published'[p].fingerprint # None => Sealed(s, p)'
    BY <1>1, <1>2, <1>6, SealedStays DEF SealSound, PathSound, BoundarySound
  <2>2. BoundarySound(s, p)'
    BY <1>6, <2>1 DEF BoundarySound
  <2>3. BindingSound(s, p)'
    <3>1. SealsBelow(s, p)' = SealsBelow(s, p)
      BY <1>6 DEF SealsBelow, SealOf
    <3> QED BY <1>1, <1>5, <1>6, <3>1 DEF SealSound, PathSound, BindingSound
  <2>4. Unpublished(p)' /\ InterfaceSound(p)' /\ LinkSound(p)' /\ ProgramSound(p)'
    BY <1>3, <1>4, <1>6 DEF Unpublished, InterfaceSound, LinkSound, ProgramSound
  <2> QED BY <2>2, <2>3, <2>4 DEF PathSound
<1>11. DevSound'
  <2>1. \A k \in DOMAIN closedDev' :
            k \in DOMAIN closedDev /\ closedDev'[k] = closedDev[k] /\ k.root # p
    BY DEF AddSource, InvalidateExact, Restrict
  <2>2. \A k \in DOMAIN closedDev' : Same(k.root)
    BY <1>8, <2>1 DEF Types
  <2> QED BY <1>1, <2>1, <2>2, DevSame DEF CachesSound
<1>12. CachesSound'
  BY <1>9, <1>10, <1>11 DEF CachesSound, SealSound
<1>13. Types'
  <2>1. modules' \in [Paths -> KnownTexts \cup {None}] /\ modules'[p] # None
    BY <1>6, <1>7, NoneIsNothing DEF Types, KnownTexts
  <2>2. dirty' \subseteq {q \in Paths : modules'[q] # None} /\ renewed' \subseteq Paths
    BY <1>6, <1>7, <2>1 DEF Types
  <2>3. \A q \in Paths : published'[q] # None => modules'[q] # None
    BY <1>6, <1>7, <2>1 DEF Types
  <2>4. \A q \in DOMAIN interfaces' \cup DOMAIN bindings' \cup DOMAIN closed' :
            q \in Paths /\ modules'[q] # None
    BY <1>3, <1>4, <1>5, <1>7, <2>1 DEF Types
  <2>5. \A k \in DOMAIN closedDev' : k.root \in Paths
    BY DEF AddSource, InvalidateExact, Restrict, Types
  <2>6. edits' \in 0..MaxEdits /\ UNCHANGED <<nextTx, request, walk, retained>>
    BY BoundsAreNumbers DEF AddSource, Edit, Types, walkVars
  <2> QED BY <1>6, <2>1, <2>2, <2>3, <2>4, <2>5, <2>6 DEF Types
<1> QED BY <1>12, <1>13

LEMMA ConfigureSound ==
    ASSUME Types, CachesSound, NEW p \in Paths, NEW choice \in ImportChoices[p],
           ConfigureModule(p, choice)
    PROVE  Types' /\ CachesSound'
<1>1. PICK s : SealSound(s)
  BY DEF CachesSound
<1>2. Extends(s, s)
  BY DEF Extends
<1>3. /\ DOMAIN interfaces' = DOMAIN interfaces \ {p}
      /\ \A q \in DOMAIN interfaces' : interfaces'[q] = interfaces[q]
      /\ DOMAIN bindings' = DOMAIN bindings \ {p}
      /\ \A q \in DOMAIN bindings' : bindings'[q] = bindings[q]
  <2>1. interfaces' = Without(interfaces, {p}) /\ bindings' = Without(bindings, {p})
    BY DEF ConfigureModule
  <2> QED BY <2>1 DEF Without, Restrict
<1>4. /\ DOMAIN closed' = DOMAIN closed \ {p}
      /\ \A q \in DOMAIN closed' : closed'[q] = closed[q]
  <2>1. closed' = Without(closed, {p})
    BY DEF ConfigureModule, InvalidateExact
  <2> QED BY <2>1 DEF Without, Restrict
<1>5. /\ imports' = [imports EXCEPT ![p] = choice]
      /\ dirty' = dirty \cup {p}
      /\ renewed' = renewed \cup {p}
      /\ modules[p] # None
      /\ UNCHANGED <<modules, published, nextId>>
  BY DEF ConfigureModule, InvalidateExact
<1>6. choice \subseteq Paths
  BY ModulesConfigured
<1>7. imports'[p] = choice /\ \A q \in Paths : q # p => imports'[q] = imports[q]
  BY <1>5 DEF Types
<1>8. ASSUME NEW q \in Paths, q # p
      PROVE  Same(q)
  BY <1>3, <1>4, <1>5, <1>7, <1>8 DEF Same
<1>9. ASSUME NEW q \in Paths, q # p
      PROVE  PathSound(s, q)'
  BY <1>1, <1>2, <1>8, <1>9, SameSound DEF SealSound
<1>10. Dropped(p)
  BY <1>3, <1>4, <1>5 DEF Dropped
<1>11. PathSound(s, p)'
  BY <1>1, <1>2, <1>10, DroppedSound DEF SealSound
<1>12. DevSound'
  <2>1. \A k \in DOMAIN closedDev' :
            k \in DOMAIN closedDev /\ closedDev'[k] = closedDev[k] /\ k.root # p
    BY DEF ConfigureModule, InvalidateExact, Restrict
  <2>2. \A k \in DOMAIN closedDev' : Same(k.root)
    BY <1>8, <2>1 DEF Types
  <2> QED BY <1>1, <2>1, <2>2, DevSame DEF CachesSound
<1>13. CachesSound'
  BY <1>9, <1>11, <1>12 DEF CachesSound, SealSound
<1>14. Types'
  <2>1. imports' \in [Paths -> SUBSET Paths]
    BY <1>5, <1>6 DEF Types
  <2>2. dirty' \subseteq {q \in Paths : modules'[q] # None} /\ renewed' \subseteq Paths
    BY <1>5 DEF Types
  <2>3. \A q \in DOMAIN interfaces' \cup DOMAIN bindings' \cup DOMAIN closed' :
            q \in Paths /\ modules'[q] # None
    BY <1>3, <1>4, <1>5 DEF Types
  <2>4. \A k \in DOMAIN closedDev' : k.root \in Paths
    BY DEF ConfigureModule, InvalidateExact, Restrict, Types
  <2>5. edits' \in 0..MaxEdits /\ UNCHANGED <<nextTx, request, walk, retained>>
    BY BoundsAreNumbers DEF ConfigureModule, Edit, Types, walkVars
  <2> QED BY <1>5, <2>1, <2>2, <2>3, <2>4, <2>5 DEF Types
<1> QED BY <1>13, <1>14

LEMMA RemoveSound ==
    ASSUME Types, CachesSound, NEW p \in Paths, RemoveModule(p)
    PROVE  Types' /\ CachesSound'
<1> DEFINE gone == Importers(p) \cup {p}
<1>1. PICK s : SealSound(s)
  BY DEF CachesSound
<1>2. Extends(s, s)
  BY DEF Extends
<1>3. /\ DOMAIN interfaces' = DOMAIN interfaces \ gone
      /\ \A q \in DOMAIN interfaces' : interfaces'[q] = interfaces[q]
      /\ DOMAIN bindings' = DOMAIN bindings \ gone
      /\ \A q \in DOMAIN bindings' : bindings'[q] = bindings[q]
      /\ DOMAIN closed' = DOMAIN closed \ gone
      /\ \A q \in DOMAIN closed' : closed'[q] = closed[q]
  <2>1. /\ interfaces' = Without(interfaces, gone)
        /\ bindings' = Without(bindings, gone)
        /\ closed' = Without(closed, gone)
    BY DEF RemoveModule
  <2> HIDE DEF gone
  <2> QED BY <2>1 DEF Without, Restrict
<1>4. /\ modules' = [modules EXCEPT ![p] = None]
      /\ imports' = [imports EXCEPT ![p] = {}]
      /\ published' = [published EXCEPT ![p] = None]
      /\ dirty' = (dirty \cup gone) \ {p}
      /\ renewed' = renewed \cup gone
      /\ UNCHANGED nextId
  BY DEF RemoveModule
<1>5. gone \subseteq Paths /\ \A q \in gone : q = p \/ modules[q] # None
  BY DEF Importers
<1>6. /\ modules'[p] = None /\ imports'[p] = {} /\ published'[p] = None
      /\ \A q \in Paths : q # p =>
            modules'[q] = modules[q] /\ imports'[q] = imports[q] /\ published'[q] = published[q]
  BY <1>4 DEF Types
<1>7. ASSUME NEW q \in Paths, q \notin gone
      PROVE  Same(q)
  <2>1. modules[q] # None => p \notin imports[q]
    BY <1>7 DEF Importers
  <2>2. q # p /\ imports[q] \subseteq Paths
    BY <1>7 DEF Types
  <2>3. modules[q] # None => \A d \in imports[q] : published'[d] = published[d]
    BY <1>6, <2>1, <2>2
  <2> QED BY <1>3, <1>4, <1>6, <1>7, <2>2, <2>3 DEF Same
<1>8. ASSUME NEW q \in gone, q # p
      PROVE  Dropped(q)
  BY <1>3, <1>4, <1>5, <1>6, <1>8 DEF Dropped
<1>9. ASSUME NEW q \in Paths, q # p
      PROVE  PathSound(s, q)'
  <2> HIDE DEF gone
  <2>1. CASE q \in gone
    BY <1>1, <1>2, <1>8, <1>9, <2>1, DroppedSound DEF SealSound
  <2>2. CASE q \notin gone
    BY <1>1, <1>2, <1>7, <2>2, SameSound DEF SealSound
  <2> QED BY <2>1, <2>2
<1>10. PathSound(s, p)'
  BY <1>3, <1>6
     DEF PathSound, BoundarySound, Unpublished, BindingSound, InterfaceSound, LinkSound,
         ProgramSound
<1>11. DevSound'
  <2>1. \A k \in DOMAIN closedDev' :
            k \in DOMAIN closedDev /\ closedDev'[k] = closedDev[k] /\ k.root \notin gone
    BY DEF RemoveModule, Restrict
  <2>2. \A k \in DOMAIN closedDev' : Same(k.root)
    BY <1>7, <2>1 DEF Types
  <2> QED BY <1>1, <2>1, <2>2, DevSame DEF CachesSound
<1>12. CachesSound'
  BY <1>9, <1>10, <1>11 DEF CachesSound, SealSound
<1>13. Types'
  <2>1. /\ modules' \in [Paths -> KnownTexts \cup {None}]
        /\ imports' \in [Paths -> SUBSET Paths]
        /\ published' \in [Paths -> Boundaries \cup {None}]
    BY <1>4 DEF Types
  <2>2. dirty' \subseteq {q \in Paths : modules'[q] # None} /\ renewed' \subseteq Paths
    BY <1>4, <1>5, <1>6 DEF Types
  <2>3. \A q \in DOMAIN interfaces' \cup DOMAIN bindings' \cup DOMAIN closed' :
            q \in Paths /\ modules'[q] # None
    BY <1>3, <1>6 DEF Types
  <2>4. \A q \in Paths : published'[q] # None =>
            published'[q] = published[q] /\ modules'[q] = modules[q] /\ published[q] # None
    BY <1>6
  <2>5. \A k \in DOMAIN closedDev' : k.root \in Paths
    BY DEF RemoveModule, Restrict, Types
  <2>6. edits' \in 0..MaxEdits /\ UNCHANGED <<nextTx, request, walk, retained>>
    BY BoundsAreNumbers DEF RemoveModule, Edit, Types, walkVars
  <2> HIDE DEF gone
  <2>7. \A q \in Paths : published'[q] # None =>
          /\ modules'[q] # None
          /\ published'[q].id \in 1..nextId'
          /\ published'[q].fingerprint # None =>
                \A d \in DOMAIN published'[q].fingerprint.below :
                    published'[q].fingerprint.below[d] \in 1..nextId'
    BY <1>4, <2>4 DEF Types
  <2> QED BY <1>4, <2>1, <2>2, <2>3, <2>5, <2>6, <2>7 DEF Types
<1> QED BY <1>12, <1>13

\* Without MissingInstalls no importer waits for a snapshot unnoticed.
LEMMA InstallSound ==
    ASSUME ~MissingInstalls, Types, CachesSound, NEW p \in Paths,
           NEW text \in SnapshotTexts, InstallSnapshot(p, text)
    PROVE  Types' /\ CachesSound'
<1> DEFINE gone == IF modules[p] # None THEN (Importers(p) \ {p}) \cup {p} ELSE {p}
           view == {[path |-> p, text |-> Seen(text), imports |-> {}]}
           boundary == [id |-> nextId + 1, fingerprint |-> None]
<1>1. PICK s : SealSound(s)
  BY DEF CachesSound
<1>2. nextId \in Nat /\ nextId + 1 \in 1..MaxBoundaryId
  BY BoundsAreNumbers DEF InstallSnapshot, Types
<1>3. PICK t : t = [i \in 1..nextId + 1 |-> IF i = nextId + 1 THEN view ELSE s[i]]
  OBVIOUS
<1>4. Extends(t, s) /\ t[nextId + 1] = view
  BY <1>2, <1>3 DEF Extends
<1>5. gone \subseteq Paths /\ p \in gone /\ \A q \in gone : q = p \/ modules[q] # None
  BY DEF Importers
<1>6. \A q \in Paths : q \notin gone /\ modules[q] # None => p \notin imports[q]
  BY DEF InstallSnapshot, Importers
<1>7. /\ modules' = [modules EXCEPT ![p] = text]
      /\ imports' = [imports EXCEPT ![p] = {}]
      /\ published' = [published EXCEPT ![p] = boundary]
      /\ nextId' = nextId + 1
      /\ dirty' = (dirty \cup gone) \ {p}
      /\ renewed' = renewed \cup gone
      /\ closed' = Without(closed, gone)
      /\ interfaces' = With(Without(interfaces, gone), p, view)
      /\ bindings' = With(Without(bindings, gone), p, {})
  BY DEF InstallSnapshot, InvalidateExact
<1>8. /\ modules'[p] = text /\ imports'[p] = {} /\ published'[p] = boundary
      /\ \A q \in Paths : q # p =>
            modules'[q] = modules[q] /\ imports'[q] = imports[q] /\ published'[q] = published[q]
  BY <1>7 DEF Types
<1> HIDE DEF gone, view
<1>9. /\ DOMAIN interfaces' = (DOMAIN interfaces \ gone) \cup {p}
      /\ interfaces'[p] = view
      /\ \A q \in DOMAIN interfaces' : q # p => interfaces'[q] = interfaces[q]
  BY <1>7 DEF Without, Restrict, With
<1>10. /\ DOMAIN bindings' = (DOMAIN bindings \ gone) \cup {p}
       /\ bindings'[p] = {}
       /\ \A q \in DOMAIN bindings' : q # p => bindings'[q] = bindings[q]
  BY <1>7 DEF Without, Restrict, With
<1>11. /\ DOMAIN closed' = DOMAIN closed \ gone
       /\ \A q \in DOMAIN closed' : closed'[q] = closed[q]
  BY <1>7 DEF Without, Restrict
<1>12. ASSUME NEW q \in Paths, q \notin gone
       PROVE  Same(q)
  <2>1. q # p /\ imports[q] \subseteq Paths
    BY <1>5, <1>12 DEF Types
  <2>2. modules[q] # None => \A d \in imports[q] : published'[d] = published[d]
    BY <1>6, <1>8, <1>12, <2>1
  <2> QED BY <1>7, <1>8, <1>9, <1>10, <1>11, <1>12, <2>1, <2>2 DEF Same
<1>13. ASSUME NEW q \in gone, q # p
       PROVE  Dropped(q)
  BY <1>5, <1>7, <1>8, <1>9, <1>10, <1>11, <1>13 DEF Dropped
<1>14. ASSUME NEW q \in Paths, q # p
       PROVE  PathSound(t, q)'
  <2>1. CASE q \in gone
    BY <1>1, <1>4, <1>13, <1>14, <2>1, DroppedSound DEF SealSound
  <2>2. CASE q \notin gone
    BY <1>1, <1>4, <1>12, <2>2, SameSound DEF SealSound
  <2> QED BY <2>1, <2>2
<1>15. boundary \in Boundaries /\ boundary # None
  <2>1. boundary \in Boundaries
    BY <1>2 DEF Boundaries
  <2> QED BY <2>1, NoneIsNothing
<1>16. text \in KnownTexts /\ text # None /\ text.ok
  BY NoneIsNothing, SnapshotsCheck DEF KnownTexts
<1>17. PathSound(t, p)'
  <2>1. BoundarySound(t, p)'
    BY <1>4, <1>8, <1>9 DEF BoundarySound, SealOf
  <2>2. Unpublished(p)'
    BY <1>8, <1>15 DEF Unpublished
  <2>3. BindingSound(t, p)'
    BY <1>8, <1>10 DEF BindingSound, SealsBelow
  <2>4. InterfaceSound(p)'
    BY <1>8, <1>9, <1>10, <1>16 DEF InterfaceSound, Entry, view
  <2>5. LinkSound(p)'
    BY <1>8 DEF LinkSound
  <2>6. ProgramSound(p)'
    BY <1>5, <1>11 DEF ProgramSound
  <2> QED BY <2>1, <2>2, <2>3, <2>4, <2>5, <2>6 DEF PathSound
<1>18. DevSound'
  <2>1. closedDev' = Restrict(closedDev, {k \in DOMAIN closedDev : k.root \notin gone})
    BY DEF InstallSnapshot, InvalidateExact, gone
  <2>2. \A k \in DOMAIN closedDev' :
            k \in DOMAIN closedDev /\ closedDev'[k] = closedDev[k] /\ k.root \notin gone
    BY <2>1 DEF Restrict
  <2>3. \A k \in DOMAIN closedDev' : Same(k.root)
    BY <1>12, <2>2 DEF Types
  <2> QED BY <1>1, <2>2, <2>3, DevSame DEF CachesSound
<1>19. CachesSound'
  BY <1>14, <1>17, <1>18 DEF CachesSound, SealSound
<1>20. Types'
  <2>1. /\ modules' \in [Paths -> KnownTexts \cup {None}]
        /\ imports' \in [Paths -> SUBSET Paths]
        /\ published' \in [Paths -> Boundaries \cup {None}]
        /\ nextId' \in 0..MaxBoundaryId
    BY <1>2, <1>7, <1>15, <1>16 DEF Types
  <2>2. dirty' \subseteq {q \in Paths : modules'[q] # None} /\ renewed' \subseteq Paths
    BY <1>5, <1>7, <1>8 DEF Types
  <2>3. \A q \in DOMAIN interfaces' \cup DOMAIN bindings' \cup DOMAIN closed' :
            q \in Paths /\ modules'[q] # None
    BY <1>8, <1>9, <1>10, <1>11, <1>16 DEF Types
  <2>4. \A k \in DOMAIN closedDev' : k.root \in Paths
    BY DEF InstallSnapshot, InvalidateExact, Restrict, Types
  <2>5. edits' \in 0..MaxEdits /\ UNCHANGED <<nextTx, request, walk, retained>>
    BY BoundsAreNumbers DEF InstallSnapshot, Edit, Types, walkVars
  <2>6. \A q \in Paths : published'[q] # None =>
          /\ modules'[q] # None
          /\ published'[q].id \in 1..nextId'
          /\ published'[q].fingerprint # None =>
                \A d \in DOMAIN published'[q].fingerprint.below :
                    published'[q].fingerprint.below[d] \in 1..nextId'
    <3> TAKE q \in Paths
    <3>1. CASE q = p
      BY <1>2, <1>7, <1>8, <1>16, <3>1
    <3>2. CASE q # p
      BY <1>2, <1>7, <1>8, <3>2 DEF Types
    <3> QED BY <3>1, <3>2
  <2> QED BY <2>1, <2>2, <2>3, <2>4, <2>5, <2>6 DEF Types
<1> QED BY <1>19, <1>20

-----------------------------------------------------------------------------
(* The walk keeps the caches sound.                                        *)

\* The module on top of the walk is on no cycle, and its imports are settled.
LEMMA SettlingFacts ==
    ASSUME Types, WalkAgrees, NEW p, Settling(p)
    PROVE  /\ p \in Paths /\ request # None /\ request.root \in Paths
           /\ Acyclic(request.root) /\ p \in Reach(request.root)
           /\ Acyclic(p) /\ p \notin imports[p]
           /\ \A d \in imports[p] : Settled(d)
<1>1. /\ walk # << >> /\ Len(walk) \in 1..Len(walk)
      /\ walk[Len(walk)] \in [path : Paths, left : SUBSET Paths]
  <2> DEFINE R == [path : Paths, left : SUBSET Paths]
  <2>1. walk \in Seq(R) /\ walk # << >>
    BY DEF Settling, Types
  <2> HIDE DEF R
  <2>2. Len(walk) \in 1..Len(walk) /\ walk[Len(walk)] \in R
    BY <2>1
  <2> QED BY <2>1, <2>2 DEF R
<1>2. request # None /\ request.root \in Paths
  BY <1>1, RequestsOfModules DEF Types
<1>3. p = walk[Len(walk)].path /\ walk[Len(walk)].left = {} /\ p \in Paths
  BY <1>1 DEF Settling, Top
<1>4. Acyclic(request.root) /\ p \in Reach(request.root)
      /\ \A d \in imports[p] : Settled(d)
  BY <1>1, <1>2, <1>3 DEF WalkAgrees
<1>5. Acyclic(p) /\ p \notin imports[p]
  BY <1>2, <1>3, <1>4, AcyclicFacts DEF Types
<1> QED BY <1>2, <1>3, <1>4, <1>5

LEMMA PopType ==
    ASSUME Types, NEW p, Settling(p)
    PROVE  Pop \in Seq([path : Paths, left : SUBSET Paths])
<1> DEFINE R == [path : Paths, left : SUBSET Paths]
<1>1. walk \in Seq(R) /\ walk # << >>
  BY DEF Settling, Types
<1> HIDE DEF R
<1>2. SubSeq(walk, 1, Len(walk) - 1) \in Seq(R)
  BY <1>1
<1> QED BY <1>2 DEF Pop, R

LEMMA CheckFailsSound ==
    ASSUME Types, CachesSound, WalkAgrees, NEW p \in Paths, CheckFails(p)
    PROVE  Types' /\ CachesSound'
<1> DEFINE gone == Importers(p)
<1>0. /\ Acyclic(p) /\ p \notin imports[p] /\ \A d \in imports[p] : Settled(d)
      /\ p \in dirty /\ ~Checks(p)
  BY SettlingFacts DEF CheckFails
<1>1. PICK s : SealSound(s)
  BY DEF CachesSound
<1>2. Extends(s, s)
  BY DEF Extends
<1>3. gone \subseteq Paths /\ p \notin gone /\ \A q \in gone : modules[q] # None
  BY <1>0 DEF Importers
<1>4. /\ published' = [published EXCEPT ![p] = None]
      /\ dirty' = (dirty \ {p}) \cup gone
      /\ interfaces' = Without(interfaces, gone)
      /\ bindings' = Without(bindings, gone \cup {p})
      /\ UNCHANGED <<modules, imports, nextId, edits, nextTx, retained>>
  BY DEF CheckFails, loadVars
<1>5. /\ renewed' = renewed \cup gone
      /\ DOMAIN closed' = DOMAIN closed \ gone
      /\ \A q \in DOMAIN closed' : closed'[q] = closed[q]
      /\ \A k \in DOMAIN closedDev' :
            k \in DOMAIN closedDev /\ closedDev'[k] = closedDev[k] /\ k.root \notin gone
  <2>1. CASE gone = {}
    <3>1. UNCHANGED <<renewed, closed, closedDev>>
      BY <2>1 DEF CheckFails
    <3> HIDE DEF gone
    <3> QED BY <2>1, <3>1
  <2>2. CASE gone # {}
    <3>1. /\ renewed' = renewed \cup gone
          /\ closed' = Without(closed, gone)
          /\ closedDev' = Restrict(closedDev, {k \in DOMAIN closedDev : k.root \notin gone})
      BY <2>2 DEF CheckFails, InvalidateExact
    <3> HIDE DEF gone
    <3> QED BY <3>1 DEF Without, Restrict
  <2> QED BY <2>1, <2>2
<1>6. /\ published'[p] = None
      /\ \A q \in Paths : q # p => published'[q] = published[q]
  BY <1>4 DEF Types
<1>7. \A q \in Paths : modules[q] # None /\ q \notin gone => p \notin imports[q]
  BY DEF Importers
<1> HIDE DEF gone
<1>8. /\ DOMAIN interfaces' = DOMAIN interfaces \ gone
      /\ \A q \in DOMAIN interfaces' : interfaces'[q] = interfaces[q]
      /\ DOMAIN bindings' = DOMAIN bindings \ (gone \cup {p})
      /\ \A q \in DOMAIN bindings' : bindings'[q] = bindings[q]
  BY <1>4 DEF Without, Restrict
<1>9. ASSUME NEW q \in Paths, q # p, q \notin gone
      PROVE  Same(q)
  <2>1. modules[q] # None => \A d \in imports[q] : published'[d] = published[d]
    BY <1>6, <1>7, <1>9 DEF Types
  <2> QED BY <1>4, <1>5, <1>6, <1>8, <1>9, <2>1 DEF Same
<1>10. ASSUME NEW q \in gone
       PROVE  Dropped(q)
  BY <1>3, <1>4, <1>5, <1>6, <1>8, <1>10 DEF Dropped
<1>11. ASSUME NEW q \in Paths, q # p
       PROVE  PathSound(s, q)'
  <2>1. CASE q \in gone
    BY <1>1, <1>2, <1>10, <1>11, <2>1, DroppedSound DEF SealSound
  <2>2. CASE q \notin gone
    BY <1>1, <1>2, <1>9, <1>11, <2>2, SameSound DEF SealSound
  <2> QED BY <2>1, <2>2
<1>12. p \notin DOMAIN interfaces /\ p \notin DOMAIN closed
  <2>1. p \notin DOMAIN interfaces
    <3>1. p \in DOMAIN interfaces => Unchecked(p) = {}
      BY UncheckedFacts DEF Types
    <3> QED BY <1>0, <3>1 DEF Checks
  <2> QED BY <1>0, <1>1, <2>1 DEF SealSound, PathSound, ProgramSound
<1>13. modules[p] # None /\ modules[p].ok => \E d \in imports[p] : published[d] = None
  <2> SUFFICES ASSUME modules[p] # None, modules[p].ok,
                      \A d \in imports[p] : published[d] # None
               PROVE  FALSE
    OBVIOUS
  <2>1. \A d \in imports[p] : d \in Paths /\ d \in DOMAIN interfaces
    <3> TAKE d \in imports[p]
    <3>1. d \in Paths
      BY DEF Types
    <3>2. d \notin dirty
      BY <1>0, <3>1, SettledFacts DEF Types
    <3> QED BY <1>1, <3>1, <3>2 DEF SealSound, PathSound, BoundarySound
  <2> DEFINE C == {p} \cup imports[p]
             B == imports[p]
  <2>2. {p} \subseteq C /\ {p} \subseteq Paths
    OBVIOUS
  <2>3. \A x \in C : x \in Paths =>
            UncheckedImports[x] \subseteq C /\ UncheckedImports[x] \subseteq Paths
    BY <2>1 DEF UncheckedImports
  <2>4. B \subseteq B /\ B \subseteq Paths
    BY <2>1
  <2>5. \A x \in B : x \in Paths =>
            UncheckedImports[x] \subseteq B /\ UncheckedImports[x] \subseteq Paths
    BY <2>1 DEF UncheckedImports
  <2> HIDE DEF B, C
  <2>6. ReachedBy({p}, UncheckedImports) \subseteq C
    BY <2>2, <2>3, ReachedLeast
  <2>7. ReachedBy(B, UncheckedImports) \subseteq B
    BY <2>4, <2>5, ReachedLeast
  <2> USE DEF B, C
  <2>8. \A q \in Unchecked(p) : q = p
    BY <2>1, <2>6 DEF Unchecked
  <2>9. p \notin ReachedBy(imports[p], UncheckedImports)
    BY <1>0, <2>7
  <2> QED BY <1>0, <2>8, <2>9 DEF Checks
<1>14. PathSound(s, p)'
  <2>1. p \notin DOMAIN interfaces' /\ p \notin DOMAIN bindings' /\ p \notin DOMAIN closed'
    BY <1>5, <1>8, <1>12
  <2>2. Unpublished(p)'
    <3>1. \A d \in imports[p] : published'[d] = published[d]
      BY <1>0, <1>6 DEF Types
    <3> QED BY <1>4, <1>13, <2>1, <3>1 DEF Unpublished
  <2> QED BY <1>6, <2>1, <2>2
          DEF PathSound, BoundarySound, BindingSound, InterfaceSound, LinkSound, ProgramSound
<1>15. DevSound'
  <2>1. \A k \in DOMAIN closedDev' :
            k \in DOMAIN closedDev /\ closedDev'[k] = closedDev[k] /\ Same(k.root)
    BY <1>0, <1>5, <1>9 DEF Types, CachesSound, DevSound
  <2> QED BY <1>1, <2>1, DevSame DEF CachesSound
<1>16. CachesSound'
  BY <1>11, <1>14, <1>15 DEF CachesSound, SealSound
<1>17. Types'
  <2>1. published' \in [Paths -> Boundaries \cup {None}]
    BY <1>4 DEF Types
  <2>2. dirty' \subseteq {q \in Paths : modules'[q] # None} /\ renewed' \subseteq Paths
    BY <1>3, <1>4, <1>5 DEF Types
  <2>3. \A q \in DOMAIN interfaces' \cup DOMAIN bindings' \cup DOMAIN closed' :
            q \in Paths /\ modules'[q] # None
    BY <1>4, <1>5, <1>8 DEF Types
  <2>4. \A q \in Paths : published'[q] # None => published'[q] = published[q] /\ published[q] # None
    BY <1>6
  <2>5. \A k \in DOMAIN closedDev' : k.root \in Paths
    BY <1>5 DEF Types
  <2>6. request' = None /\ walk' = << >>
    BY DEF CheckFails, Fail
  <2>7. walk' \in Seq([path : Paths, left : SUBSET Paths])
    BY <2>6
  <2>8. \A q \in Paths : published'[q] # None =>
          /\ modules'[q] # None
          /\ published'[q].id \in 1..nextId'
          /\ published'[q].fingerprint # None =>
                \A d \in DOMAIN published'[q].fingerprint.below :
                    published'[q].fingerprint.below[d] \in 1..nextId'
    BY <1>4, <2>4 DEF Types
  <2> QED BY <1>4, <2>1, <2>2, <2>3, <2>5, <2>6, <2>7, <2>8 DEF Types
<1> QED BY <1>16, <1>17

\* What p's importers may see depends on a portable text's exports alone.
LEMMA SeenEqual ==
    ASSUME NEW t \in KnownTexts, NEW u \in KnownTexts, t.ok, u.ok,
           t.portable, u.portable, t.exports = u.exports
    PROVE  Seen(t) = Seen(u)
<1> DEFINE rec(x) == [ok |-> x.ok, emits |-> x.emits, portable |-> x.portable,
                      exports |-> x.exports, body |-> x.body, shape |-> x.shape]
           bare(x) == [ok |-> x.ok, emits |-> x.emits, portable |-> x.portable,
                       exports |-> x.exports, body |-> None, shape |-> None]
<1>1. /\ t = rec(t) /\ {t.ok, t.emits, t.portable} \subseteq BOOLEAN
      /\ u = rec(u) /\ {u.ok, u.emits, u.portable} \subseteq BOOLEAN
  BY TextsAreRecords DEF KnownTexts
<1>2. ASSUME NEW x, x = rec(x)
      PROVE  [x EXCEPT !.body = None, !.shape = None] = bare(x)
  <2>1. [rec(x) EXCEPT !.body = None] =
            [ok |-> x.ok, emits |-> x.emits, portable |-> x.portable,
             exports |-> x.exports, body |-> None, shape |-> x.shape]
    OBVIOUS
  <2>2. [[ok |-> x.ok, emits |-> x.emits, portable |-> x.portable,
          exports |-> x.exports, body |-> None, shape |-> x.shape]
            EXCEPT !.shape = None] = bare(x)
    OBVIOUS
  <2> HIDE DEF rec, bare
  <2>3. [x EXCEPT !.body = None, !.shape = None]
            = [[x EXCEPT !.body = None] EXCEPT !.shape = None]
    OBVIOUS
  <2> HIDE DEF rec, bare
  <2> QED BY <1>2, <2>1, <2>2, <2>3
<1>3. Seen(t) = bare(t) /\ Seen(u) = bare(u)
  BY <1>1, <1>2 DEF Seen
<1>4. t.emits = u.emits
  BY PortableByValue DEF KnownTexts
<1>5. t.ok = u.ok /\ t.portable = u.portable
  BY <1>1
<1> QED BY <1>3, <1>4, <1>5

LEMMA FingerprintType ==
    ASSUME Types, NEW p \in Paths, modules[p] # None, BelowPublished(p)
    PROVE  /\ Fingerprint(p) \in Fingerprints /\ Fingerprint(p) # None
           /\ Fingerprint(p).below = [d \in imports[p] |-> published[d].id]
           /\ \A d \in imports[p] : published[d].id \in 1..nextId
<1>1. imports[p] \subseteq Paths /\ modules[p] \in KnownTexts /\ nextId \in Nat
  BY BoundsAreNumbers DEF Types
<1>2. \A d \in imports[p] : published[d].id \in 1..nextId
  BY <1>1 DEF BelowPublished, Types
<1>3. [d \in imports[p] |-> published[d].id] \in [imports[p] -> Nat]
  BY <1>1, <1>2
<1>4. [d \in imports[p] |-> published[d].id] \in UNION {[S -> Nat] : S \in SUBSET Paths}
  BY <1>1, <1>3
<1>5. (IF modules[p].portable THEN None ELSE p) \in Paths \cup {None}
  OBVIOUS
<1>6. modules[p].exports \in {t.exports : t \in KnownTexts}
  BY <1>1
<1>7. Fingerprint(p) \in Fingerprints
  BY <1>4, <1>5, <1>6 DEF Fingerprint, Fingerprints
<1>8. Fingerprint(p).below = [d \in imports[p] |-> published[d].id]
  BY DEF Fingerprint
<1> QED BY <1>2, <1>7, <1>8, NoneIsNothing

\* A boundary whose fingerprint is unchanged has the view it had.
LEMMA SameSeal ==
    ASSUME Types, NEW seal, SealSound(seal), NEW p \in Paths, modules[p] # None,
           modules[p].ok, BelowPublished(p), SameFingerprint(p)
    PROVE  SealOf(seal, p) = {Entry(p, Seen(modules[p]))} \cup SealsBelow(seal, p)
<1> DEFINE f == published[p].fingerprint
<1>1. published[p] # None /\ f = Fingerprint(p) /\ (modules[p].portable \/ p \notin renewed)
  BY DEF SameFingerprint
<1>2. f # None /\ f.below = [d \in imports[p] |-> published[d].id]
  BY <1>1, FingerprintType
<1>3. f.exports = modules[p].exports
      /\ f.revision = IF modules[p].portable THEN None ELSE p
  BY <1>1 DEF Fingerprint
<1>4. Sealed(seal, p)
  BY <1>1, <1>2 DEF SealSound, PathSound, BoundarySound
<1> HIDE DEF f
<1>5. PICK t \in KnownTexts :
          /\ t.ok /\ t.exports = f.exports
          /\ seal[published[p].id] =
                {[path |-> p, text |-> Seen(t), imports |-> DOMAIN f.below]}
                  \cup UNION {seal[f.below[d]] : d \in DOMAIN f.below}
          /\ f.revision = None => t.portable
          /\ f.revision # None /\ p \notin renewed => t = modules[p]
  BY <1>4 DEF Sealed, f
<1>6. Seen(t) = Seen(modules[p])
  <2>1. CASE modules[p].portable
    BY <1>3, <1>5, <2>1, SeenEqual DEF Types
  <2>2. CASE ~modules[p].portable
    BY <1>1, <1>3, <1>5, <2>2, NoneIsNothing
  <2> QED BY <2>1, <2>2
<1>7. DOMAIN f.below = imports[p] /\ \A d \in imports[p] : f.below[d] = published[d].id
  BY <1>2
<1>8. UNION {seal[f.below[d]] : d \in DOMAIN f.below} = SealsBelow(seal, p)
  BY <1>7 DEF SealsBelow, SealOf
<1> QED BY <1>5, <1>6, <1>7, <1>8 DEF SealOf, Entry

\* p has been checked and its interface cached.
CachedNow(s, p) ==
    /\ DOMAIN interfaces' = DOMAIN interfaces \cup {p}
    /\ interfaces'[p] = {Entry(p, Seen(modules[p]))} \cup SealsBelow(s, p)
    /\ \A q \in DOMAIN interfaces \ {p} : interfaces'[q] = interfaces[q]
    /\ DOMAIN bindings' = DOMAIN bindings \cup {p}
    /\ bindings'[p] = SealsBelow(s, p)
    /\ \A q \in DOMAIN bindings \ {p} : bindings'[q] = bindings[q]

LEMMA CachesAre ==
    ASSUME Types, NEW s, SealSound(s), NEW p \in Paths, Acyclic(p), Checks(p),
           \A d \in imports[p] : Settled(d),
           interfaces' = Caches(p), bindings' = Evaluates(p)
    PROVE  CachedNow(s, p) /\ modules[p] # None /\ modules[p].ok
           /\ \A d \in imports[p] : published[d] # None
<1>1. /\ modules[p] # None /\ modules[p].ok
      /\ \A d \in imports[p] : published[d] # None
      /\ CheckedView(p) = {Entry(p, Seen(modules[p]))} \cup SealsBelow(s, p)
  BY SettlingChecked
<1>2. /\ DOMAIN Caches(p) = DOMAIN interfaces \cup {p}
      /\ Caches(p)[p] = CheckedView(p)
      /\ \A q \in DOMAIN interfaces : Caches(p)[q] = interfaces[q]
      /\ DOMAIN Evaluates(p) = DOMAIN bindings \cup {p}
      /\ Evaluates(p)[p] = SealsBelow(s, p)
      /\ \A q \in DOMAIN bindings : Evaluates(p)[q] = bindings[q]
  BY SettlingCaches
<1> QED BY <1>1, <1>2 DEF CachedNow

\* p's interface and bindings are sound once they are cached and its boundary
\* is not a matter any more.
LEMMA CachedSound ==
    ASSUME Types, NEW s, NEW p \in Paths, modules[p] # None, modules[p].ok,
           \A d \in imports[p] : published[d] # None, CachedNow(s, p),
           UNCHANGED <<modules, imports, published>>
    PROVE  BindingSound(s, p)' /\ InterfaceSound(p)'
<1>1. SealsBelow(s, p)' = SealsBelow(s, p)
  BY DEF SealsBelow, SealOf
<1>2. Entry(p, Seen(modules[p]))' = Entry(p, Seen(modules[p]))
  BY DEF Entry, Seen
<1> QED BY <1>1, <1>2 DEF BindingSound, InterfaceSound, CachedNow, Entry, Seen

LEMMA RefusedSound ==
    ASSUME Types, CachesSound, WalkAgrees, NEW p \in Paths, PublishRefused(p)
    PROVE  Types' /\ CachesSound' /\ BelowPublished(p)
<1>0. /\ Acyclic(p) /\ \A d \in imports[p] : Settled(d)
      /\ p \in dirty /\ Checks(p)
  BY SettlingFacts DEF PublishRefused
<1>1. PICK s : SealSound(s)
  BY DEF CachesSound
<1>2. Extends(s, s)
  BY DEF Extends
<1>3. /\ interfaces' = Caches(p) /\ bindings' = Evaluates(p)
      /\ UNCHANGED <<modules, imports, dirty, published, nextId, renewed, closed,
                     closedDev, edits, nextTx, retained>>
  BY DEF PublishRefused, loadVars, devVars
<1>4. /\ CachedNow(s, p) /\ modules[p] # None /\ modules[p].ok
      /\ \A d \in imports[p] : published[d] # None
  BY <1>0, <1>1, <1>3, CachesAre
<1>5. ASSUME NEW q \in Paths, q # p
      PROVE  Same(q)
  BY <1>3, <1>4, <1>5 DEF Same, CachedNow
<1>6. ASSUME NEW q \in Paths, q # p
      PROVE  PathSound(s, q)'
  BY <1>1, <1>2, <1>5, <1>6, SameSound DEF SealSound
<1>7. PathSound(s, p)'
  <2>1. published'[p] # None /\ published'[p].fingerprint # None => Sealed(s, p)'
    BY <1>1, <1>2, <1>3, SealedStays DEF SealSound, PathSound, BoundarySound
  <2>2. BoundarySound(s, p)'
    BY <1>0, <1>3, <2>1 DEF BoundarySound
  <2>3. BindingSound(s, p)' /\ InterfaceSound(p)'
    BY <1>3, <1>4, CachedSound
  <2>4. Unpublished(p)' /\ LinkSound(p)'
    BY <1>0, <1>3 DEF Unpublished, LinkSound
  <2>5. ProgramSound(p)'
    BY <1>0, <1>1, <1>3 DEF SealSound, PathSound, ProgramSound
  <2> QED BY <2>1, <2>2, <2>3, <2>4, <2>5 DEF PathSound
<1>8. DevSound'
  <2>1. \A k \in DOMAIN closedDev' :
            k \in DOMAIN closedDev /\ closedDev'[k] = closedDev[k] /\ Same(k.root)
    BY <1>0, <1>3, <1>5 DEF Types, CachesSound, DevSound
  <2> QED BY <1>1, <2>1, DevSame DEF CachesSound
<1>9. CachesSound'
  BY <1>6, <1>7, <1>8 DEF CachesSound, SealSound
<1>10. Types'
  <2>1. \A q \in DOMAIN interfaces' \cup DOMAIN bindings' \cup DOMAIN closed' :
            q \in Paths /\ modules'[q] # None
    BY <1>3, <1>4 DEF Types, CachedNow
  <2>2. request' = None /\ walk' = << >>
    BY DEF PublishRefused, Fail
  <2>3. walk' \in Seq([path : Paths, left : SUBSET Paths])
    BY <2>2
  <2> QED BY <1>3, <2>1, <2>2, <2>3 DEF Types
<1> QED BY <1>4, <1>9, <1>10 DEF BelowPublished

LEMMA UnchangedSound ==
    ASSUME Types, CachesSound, WalkAgrees, NEW p \in Paths, PublishUnchanged(p)
    PROVE  Types' /\ CachesSound'
<1>0. /\ Acyclic(p) /\ \A d \in imports[p] : Settled(d)
      /\ p \in dirty /\ Checks(p) /\ BelowPublished(p) /\ SameFingerprint(p)
  BY SettlingFacts DEF PublishUnchanged
<1>1. PICK s : SealSound(s)
  BY DEF CachesSound
<1>2. Extends(s, s)
  BY DEF Extends
<1>3. /\ interfaces' = Caches(p) /\ bindings' = Evaluates(p)
      /\ dirty' = dirty \ {p}
      /\ UNCHANGED <<modules, imports, published, nextId, renewed, closed,
                     closedDev, edits, nextTx, retained, request>>
  BY DEF PublishUnchanged, loadVars, devVars
<1>4. /\ CachedNow(s, p) /\ modules[p] # None /\ modules[p].ok
      /\ \A d \in imports[p] : published[d] # None
  BY <1>0, <1>1, <1>3, CachesAre
<1>5. SealOf(s, p) = {Entry(p, Seen(modules[p]))} \cup SealsBelow(s, p)
  BY <1>0, <1>1, <1>4, SameSeal
<1>6. /\ published[p] # None
      /\ published[p].fingerprint.below = [d \in imports[p] |-> published[d].id]
  BY <1>0, <1>4, FingerprintType DEF SameFingerprint
<1>7. ASSUME NEW q \in Paths, q # p
      PROVE  Same(q)
  BY <1>3, <1>4, <1>7 DEF Same, CachedNow
<1>8. ASSUME NEW q \in Paths, q # p
      PROVE  PathSound(s, q)'
  BY <1>1, <1>2, <1>7, <1>8, SameSound DEF SealSound
<1>9. PathSound(s, p)'
  <2>1. published'[p] # None /\ published'[p].fingerprint # None => Sealed(s, p)'
    BY <1>1, <1>2, <1>3, SealedStays DEF SealSound, PathSound, BoundarySound
  <2>2. SealOf(s, p)' = SealOf(s, p)
    BY <1>3 DEF SealOf
  <2>3. BoundarySound(s, p)'
    BY <1>3, <1>4, <1>5, <2>1, <2>2 DEF BoundarySound, CachedNow
  <2>4. BindingSound(s, p)' /\ InterfaceSound(p)'
    BY <1>3, <1>4, CachedSound
  <2>5. Unpublished(p)'
    BY <1>3, <1>6 DEF Unpublished
  <2>6. LinkSound(p)'
    BY <1>3, <1>4, <1>6 DEF LinkSound
  <2>7. ProgramSound(p)'
    BY <1>0, <1>1, <1>3 DEF SealSound, PathSound, ProgramSound
  <2> QED BY <2>3, <2>4, <2>5, <2>6, <2>7 DEF PathSound
<1>10. DevSound'
  <2>1. \A k \in DOMAIN closedDev' :
            k \in DOMAIN closedDev /\ closedDev'[k] = closedDev[k] /\ Same(k.root)
    BY <1>0, <1>3, <1>7 DEF Types, CachesSound, DevSound
  <2> QED BY <1>1, <2>1, DevSame DEF CachesSound
<1>11. CachesSound'
  BY <1>8, <1>9, <1>10 DEF CachesSound, SealSound
<1>12. Types'
  <2>1. \A q \in DOMAIN interfaces' \cup DOMAIN bindings' \cup DOMAIN closed' :
            q \in Paths /\ modules'[q] # None
    BY <1>3, <1>4 DEF Types, CachedNow
  <2>2. walk' \in Seq([path : Paths, left : SUBSET Paths]) /\ request # None
    BY SettlingFacts, PopType DEF PublishUnchanged
  <2>3. dirty' \subseteq {q \in Paths : modules'[q] # None}
    BY <1>3 DEF Types
  <2> QED BY <1>3, <2>1, <2>2, <2>3 DEF Types
<1> QED BY <1>11, <1>12

LEMMA ChangedSound ==
    ASSUME Types, CachesSound, WalkAgrees, NEW p \in Paths, PublishChanged(p)
    PROVE  Types' /\ CachesSound'
<1> DEFINE gone == Importers(p)
           boundary == [id |-> nextId + 1, fingerprint |-> Fingerprint(p)]
<1>0. /\ Acyclic(p) /\ p \notin imports[p] /\ \A d \in imports[p] : Settled(d)
      /\ p \in dirty /\ Checks(p) /\ BelowPublished(p)
  BY SettlingFacts DEF PublishChanged
<1>1. PICK s : SealSound(s)
  BY DEF CachesSound
<1>2. nextId \in Nat /\ nextId + 1 \in 1..MaxBoundaryId
  BY BoundsAreNumbers DEF PublishChanged, Types
<1>3. PICK t : t = [i \in 1..nextId + 1 |-> IF i = nextId + 1 THEN CheckedView(p) ELSE s[i]]
  OBVIOUS
<1>4. Extends(t, s) /\ t[nextId + 1] = CheckedView(p)
  BY <1>2, <1>3 DEF Extends
<1>5. gone \subseteq Paths /\ p \notin gone /\ (\A q \in gone : modules[q] # None)
      /\ \A q \in Paths : modules[q] # None /\ q \notin gone => p \notin imports[q]
  BY <1>0 DEF Importers
<1>6. /\ published' = [published EXCEPT ![p] = boundary]
      /\ nextId' = nextId + 1
      /\ dirty' = (dirty \ {p}) \cup gone
      /\ renewed' = (renewed \ {p}) \cup gone
      /\ interfaces' = Without(Caches(p), gone)
      /\ bindings' = Without(Evaluates(p), gone)
      /\ UNCHANGED <<modules, imports, edits, nextTx, retained, request>>
  BY DEF PublishChanged, loadVars
<1>7. /\ DOMAIN closed' = DOMAIN closed \ gone
      /\ \A q \in DOMAIN closed' : closed'[q] = closed[q]
      /\ \A k \in DOMAIN closedDev' :
            k \in DOMAIN closedDev /\ closedDev'[k] = closedDev[k] /\ k.root \notin gone
  <2>1. CASE gone = {}
    <3>1. UNCHANGED <<closed, closedDev>>
      BY <2>1 DEF PublishChanged
    <3> HIDE DEF gone
    <3> QED BY <2>1, <3>1
  <2>2. CASE gone # {}
    <3>1. /\ closed' = Without(closed, gone)
          /\ closedDev' = Restrict(closedDev, {k \in DOMAIN closedDev : k.root \notin gone})
      BY <2>2 DEF PublishChanged
    <3> HIDE DEF gone
    <3> QED BY <3>1 DEF Without, Restrict
  <2> QED BY <2>1, <2>2
<1> HIDE DEF gone, boundary
<1>8. /\ modules[p] # None /\ modules[p].ok
      /\ \A d \in imports[p] : published[d] # None
      /\ CheckedView(p) = {Entry(p, Seen(modules[p]))} \cup SealsBelow(s, p)
  BY <1>0, <1>1, SettlingChecked
<1>9. /\ DOMAIN Caches(p) = DOMAIN interfaces \cup {p}
      /\ Caches(p)[p] = CheckedView(p)
      /\ \A q \in DOMAIN interfaces : Caches(p)[q] = interfaces[q]
      /\ DOMAIN Evaluates(p) = DOMAIN bindings \cup {p}
      /\ Evaluates(p)[p] = SealsBelow(s, p)
      /\ \A q \in DOMAIN bindings : Evaluates(p)[q] = bindings[q]
  BY <1>0, <1>1, SettlingCaches
<1>10. /\ DOMAIN interfaces' = (DOMAIN interfaces \cup {p}) \ gone
       /\ interfaces'[p] = CheckedView(p)
       /\ \A q \in DOMAIN interfaces' : q # p => interfaces'[q] = interfaces[q]
       /\ DOMAIN bindings' = (DOMAIN bindings \cup {p}) \ gone
       /\ bindings'[p] = SealsBelow(s, p)
       /\ \A q \in DOMAIN bindings' : q # p => bindings'[q] = bindings[q]
  BY <1>5, <1>6, <1>9 DEF Without, Restrict
<1>11. /\ published'[p] = boundary
       /\ \A q \in Paths : q # p => published'[q] = published[q]
  BY <1>6 DEF Types
<1>12. /\ Fingerprint(p) \in Fingerprints /\ Fingerprint(p) # None
       /\ Fingerprint(p).below = [d \in imports[p] |-> published[d].id]
       /\ \A d \in imports[p] : published[d].id \in 1..nextId
  BY <1>0, <1>8, FingerprintType
<1>13. /\ boundary \in Boundaries /\ boundary # None
       /\ boundary.id = nextId + 1 /\ boundary.fingerprint = Fingerprint(p)
  <2>1. boundary \in Boundaries
    BY <1>2, <1>12 DEF Boundaries, boundary
  <2> QED BY <2>1, NoneIsNothing DEF boundary
<1>14. ASSUME NEW q \in Paths, q # p, q \notin gone
       PROVE  Same(q)
  <2>1. modules[q] # None => \A d \in imports[q] : published'[d] = published[d]
    BY <1>5, <1>11, <1>14 DEF Types
  <2> QED BY <1>6, <1>7, <1>10, <1>11, <1>14, <2>1 DEF Same
<1>15. ASSUME NEW q \in gone
       PROVE  Dropped(q)
  BY <1>5, <1>6, <1>7, <1>10, <1>11, <1>15 DEF Dropped
<1>16. ASSUME NEW q \in Paths, q # p
       PROVE  PathSound(t, q)'
  <2>1. CASE q \in gone
    BY <1>1, <1>4, <1>15, <1>16, <2>1, DroppedSound DEF SealSound
  <2>2. CASE q \notin gone
    BY <1>1, <1>4, <1>14, <1>16, <2>2, SameSound DEF SealSound
  <2> QED BY <2>1, <2>2
<1>17. \A d \in imports[p] : published'[d] = published[d] /\ t[published[d].id] = s[published[d].id]
  BY <1>0, <1>4, <1>11, <1>12 DEF Types, Extends
<1>18. SealsBelow(t, p)' = SealsBelow(s, p)
  <2>1. SealsBelow(t, p)' = UNION {t[published'[d].id] : d \in imports[p]}
    BY <1>6 DEF SealsBelow, SealOf
  <2> QED BY <1>17, <2>1 DEF SealsBelow, SealOf
<1>19. PathSound(t, p)'
  <2>1. p \in DOMAIN interfaces' /\ p \in DOMAIN bindings' /\ p \notin DOMAIN closed'
    BY <1>0, <1>1, <1>5, <1>7, <1>10 DEF SealSound, PathSound, ProgramSound
  <2>2. SealOf(t, p)' = CheckedView(p)
    BY <1>4, <1>11, <1>13 DEF SealOf
  <2>3. Sealed(t, p)'
    <3> DEFINE f == published'[p].fingerprint
    <3>1. f = Fingerprint(p) /\ t[published'[p].id] = CheckedView(p)
      BY <1>4, <1>11, <1>13
    <3>2. DOMAIN f.below = imports[p] /\ \A d \in imports[p] : f.below[d] = published[d].id
      BY <1>12, <3>1
    <3>3. f.exports = modules[p].exports
          /\ f.revision = IF modules[p].portable THEN None ELSE p
      BY <3>1 DEF Fingerprint
    <3> HIDE DEF f
    <3>4. UNION {t[f.below[d]] : d \in DOMAIN f.below} = SealsBelow(s, p)
      BY <1>17, <3>2 DEF SealsBelow, SealOf
    <3>5. t[published'[p].id] =
              {[path |-> p, text |-> Seen(modules[p]), imports |-> DOMAIN f.below]}
                \cup UNION {t[f.below[d]] : d \in DOMAIN f.below}
      BY <1>8, <3>1, <3>2, <3>4 DEF Entry
    <3>6. modules[p] \in KnownTexts /\ modules'[p] = modules[p]
      BY <1>6, <1>8 DEF Types
    <3>7. f.revision = None => modules[p].portable
      BY <3>3, NoneIsNothing
    <3> QED BY <1>8, <3>3, <3>5, <3>6, <3>7 DEF Sealed, f
  <2>4. BoundarySound(t, p)'
    BY <1>10, <2>1, <2>2, <2>3 DEF BoundarySound
  <2>5. BindingSound(t, p)'
    BY <1>6, <1>8, <1>10, <1>17, <1>18 DEF BindingSound
  <2>6. InterfaceSound(p)'
    <3>1. Entry(p, Seen(modules[p]))' = Entry(p, Seen(modules[p]))
      BY <1>6 DEF Entry, Seen
    <3> QED BY <1>6, <1>8, <1>10, <2>1, <3>1 DEF InterfaceSound
  <2>7. Unpublished(p)' /\ ProgramSound(p)'
    BY <1>11, <1>13, <2>1 DEF Unpublished, ProgramSound
  <2>8. LinkSound(p)'
    BY <1>6, <1>8, <1>11, <1>12, <1>13, <1>17 DEF LinkSound
  <2> QED BY <2>4, <2>5, <2>6, <2>7, <2>8 DEF PathSound
<1>20. DevSound'
  <2>1. \A k \in DOMAIN closedDev' :
            k \in DOMAIN closedDev /\ closedDev'[k] = closedDev[k] /\ Same(k.root)
    BY <1>0, <1>7, <1>14 DEF Types, CachesSound, DevSound
  <2> QED BY <1>1, <2>1, DevSame DEF CachesSound
<1>21. CachesSound'
  BY <1>16, <1>19, <1>20 DEF CachesSound, SealSound
<1>22. Types'
  <2>1. published' \in [Paths -> Boundaries \cup {None}] /\ nextId' \in 0..MaxBoundaryId
    BY <1>2, <1>6, <1>13 DEF Types
  <2>2. dirty' \subseteq {q \in Paths : modules'[q] # None} /\ renewed' \subseteq Paths
    BY <1>5, <1>6 DEF Types
  <2>3. \A q \in DOMAIN interfaces' \cup DOMAIN bindings' \cup DOMAIN closed' :
            q \in Paths /\ modules'[q] # None
    BY <1>6, <1>7, <1>8, <1>10 DEF Types
  <2>4. \A k \in DOMAIN closedDev' : k.root \in Paths
    BY <1>7 DEF Types
  <2>5. walk' \in Seq([path : Paths, left : SUBSET Paths]) /\ request # None
    BY SettlingFacts, PopType DEF PublishChanged
  <2>6. \A q \in Paths : published'[q] # None =>
          /\ modules'[q] # None
          /\ published'[q].id \in 1..nextId'
          /\ published'[q].fingerprint # None =>
                \A d \in DOMAIN published'[q].fingerprint.below :
                    published'[q].fingerprint.below[d] \in 1..nextId'
    <3> TAKE q \in Paths
    <3>1. CASE q = p
      <4>1. published'[q].id = nextId + 1 /\ published'[q].fingerprint = Fingerprint(p)
        BY <1>11, <1>13, <3>1
      <4>2. \A d \in DOMAIN Fingerprint(p).below : Fingerprint(p).below[d] \in 1..nextId
        BY <1>12
      <4> QED BY <1>2, <1>6, <1>8, <3>1, <4>1, <4>2
    <3>2. CASE q # p
      BY <1>2, <1>6, <1>11, <3>2 DEF Types
    <3> QED BY <3>1, <3>2
  <2> QED BY <1>6, <2>1, <2>2, <2>3, <2>4, <2>5, <2>6 DEF Types
<1> QED BY <1>21, <1>22

-----------------------------------------------------------------------------
(* Requests and answers keep the caches sound.                             *)

\* Nothing is loaded, published or cached, but for programs of modules that
\* have an interface and are not dirty.
Kept ==
    /\ UNCHANGED <<modules, imports, dirty, published, nextId, renewed>>
    /\ DOMAIN interfaces' = DOMAIN interfaces
    /\ \A q \in DOMAIN interfaces : interfaces'[q] = interfaces[q]
    /\ DOMAIN bindings' = DOMAIN bindings
    /\ \A q \in DOMAIN bindings : bindings'[q] = bindings[q]
    /\ \A q \in DOMAIN closed' :
          \/ q \in DOMAIN closed /\ closed'[q] = closed[q]
          \/ q \notin dirty /\ q \in DOMAIN interfaces /\ closed'[q] = ProgramOf(q)
    /\ \A k \in DOMAIN closedDev' :
          \/ k \in DOMAIN closedDev /\ closedDev'[k] = closedDev[k]
          \/ /\ k.root \notin dirty
             /\ k.root \in DOMAIN interfaces
             /\ closedDev'[k] = ProgramOf(k.root)

\* The variables that Kept speaks of, as most steps of a request leave them.
LEMMA StillKept ==
    ASSUME UNCHANGED <<modules, imports, dirty, published, nextId, renewed, cacheVars,
                       closedDev>>
    PROVE  Kept
BY DEF Kept, cacheVars

LEMMA KeptSound ==
    ASSUME Types, CachesSound, Kept
    PROVE  CachesSound'
<1>1. PICK s : SealSound(s)
  BY DEF CachesSound
<1>2. Extends(s, s)
  BY DEF Extends
<1>3. \A q \in DOMAIN interfaces : q \in Paths /\ q \in DOMAIN bindings
  BY <1>1 DEF Types, SealSound, PathSound, InterfaceSound
<1>4. ASSUME NEW q \in DOMAIN bindings
      PROVE  ProgramOf(q)' = ProgramOf(q)
  BY DEF Kept, ProgramOf, Entry
<1>5. ASSUME NEW q \in Paths
      PROVE  PathSound(s, q)'
  <2>1. PathSound(s, q)
    BY <1>1 DEF SealSound
  <2>2. published'[q] # None /\ published'[q].fingerprint # None => Sealed(s, q)'
    BY <1>2, <2>1, SealedStays DEF PathSound, BoundarySound, Kept
  <2>3. SealOf(s, q)' = SealOf(s, q) /\ SealsBelow(s, q)' = SealsBelow(s, q)
    BY DEF SealOf, SealsBelow, Kept
  <2>4. BoundarySound(s, q)'
    BY <2>1, <2>2, <2>3 DEF PathSound, BoundarySound, Kept
  <2>5. Unpublished(q)' /\ LinkSound(q)'
    BY <2>1 DEF PathSound, Unpublished, LinkSound, Kept
  <2>6. BindingSound(s, q)'
    BY <2>1, <2>3 DEF PathSound, BindingSound, Kept
  <2>7. InterfaceSound(q)'
    BY <2>1 DEF PathSound, InterfaceSound, Entry, Kept
  <2>8. ProgramSound(q)'
    <3> SUFFICES ASSUME q \in DOMAIN closed'
                 PROVE  q \notin dirty /\ q \in DOMAIN interfaces /\ closed'[q] = ProgramOf(q)'
      BY DEF ProgramSound, Kept
    <3>1. q \notin dirty /\ q \in DOMAIN interfaces /\ closed'[q] = ProgramOf(q)
      BY <2>1 DEF PathSound, ProgramSound, Kept
    <3> QED BY <1>3, <1>4, <3>1
  <2> QED BY <2>4, <2>5, <2>6, <2>7, <2>8 DEF PathSound
<1>6. DevSound'
  <2> SUFFICES ASSUME NEW k \in DOMAIN closedDev'
               PROVE  /\ k.root \notin dirty' /\ k.root \in DOMAIN interfaces'
                      /\ closedDev'[k] = ProgramOf(k.root)'
    BY DEF DevSound
  <2>1. k.root \notin dirty /\ k.root \in DOMAIN interfaces /\ closedDev'[k] = ProgramOf(k.root)
    BY DEF CachesSound, DevSound, Kept
  <2>2. ProgramOf(k.root)' = ProgramOf(k.root)
    BY <1>3, <1>4, <2>1
  <2> QED BY <2>1, <2>2 DEF Kept
<1> QED BY <1>5, <1>6 DEF CachesSound, SealSound

LEMMA KeptTypes ==
    ASSUME Types, CachesSound, Kept, retained' = [p \in Paths |-> retained'[p]],
           nextTx' \in 1..MaxTransaction + 1, edits' = edits,
           request' \in Requests \cup {None},
           walk' \in Seq([path : Paths, left : SUBSET Paths]),
           walk' # << >> => request' # None
    PROVE  Types'
<1>1. \A q \in DOMAIN closed' : q \in Paths /\ modules[q] # None
  BY DEF Types, Kept
<1>2. \A k \in DOMAIN closedDev' : k.root \in Paths
  BY DEF Types, Kept
<1>3. \A q \in DOMAIN interfaces' \cup DOMAIN bindings' \cup DOMAIN closed' :
          q \in Paths /\ modules'[q] # None
  BY <1>1 DEF Types, Kept
<1>4. UNCHANGED <<modules, imports, dirty, published, nextId, renewed>>
  BY DEF Kept
<1> QED BY <1>2, <1>3, <1>4 DEF Types

\* What a request finds once its walk is over.
LEMMA WalkedFacts ==
    ASSUME Types, WalkAgrees, NEW kind, Walked(kind)
    PROVE  /\ request # None /\ request \in Requests /\ request.root \in Paths
           /\ request.kind = kind
           /\ request.root \notin dirty
           /\ Settled(request.root) /\ Acyclic(request.root)
<1>1. request # None /\ walk = << >> /\ request.kind = kind
  BY DEF Walked
<1>2. request \in Requests /\ request.root \in Paths
  BY <1>1, RequestsOfModules DEF Types
<1>3. Settled(request.root) /\ Acyclic(request.root)
  BY <1>1 DEF WalkAgrees
<1> QED BY <1>1, <1>2, <1>3, SettledFacts DEF Types

\* An answer from a settled module's caches is what a fresh session answers,
\* and adds nothing to what is cached.
LEMMA SettledAnswer ==
    ASSUME Types, CachesSound, NEW root \in Paths, Settled(root), Acyclic(root),
           Checks(root)
    PROVE  /\ root \in DOMAIN interfaces /\ FreshOk(root)
           /\ CheckedView(root) = FreshView(root)
           /\ ClosedFrom(root) = ProgramOf(root) /\ ClosedFrom(root) = FreshProgram(root)
           /\ DOMAIN Caches(root) = DOMAIN interfaces
           /\ \A q \in DOMAIN interfaces : Caches(root)[q] = interfaces[q]
           /\ DOMAIN Evaluates(root) = DOMAIN bindings
           /\ \A q \in DOMAIN bindings : Evaluates(root)[q] = bindings[q]
<1>1. PICK s : SealSound(s)
  BY DEF CachesSound
<1>2. root \in DOMAIN interfaces
  BY <1>1, SettledChecked
<1>3. root \in DOMAIN bindings
  BY <1>1, <1>2 DEF SealSound, PathSound, InterfaceSound
<1>4. FreshOk(root) /\ interfaces[root] = FreshView(root)
  BY <1>1, <1>2, InterfaceFresh
<1>5. ProgramOf(root) = FreshProgram(root)
  BY <1>1, <1>2, ProgramFresh
<1>6. CheckedView(root) = interfaces[root]
  BY <1>2, CachedView
<1>7. ClosedFrom(root) = ProgramOf(root)
  BY <1>3 DEF ClosedFrom, ProgramOf, ImportsSeen
<1>8. \A d \in imports[root] : Settled(d)
  BY SettledFacts DEF Types
<1>9. /\ DOMAIN Caches(root) = DOMAIN interfaces \cup {root}
      /\ \A q \in DOMAIN interfaces : Caches(root)[q] = interfaces[q]
      /\ DOMAIN Evaluates(root) = DOMAIN bindings \cup {root}
      /\ \A q \in DOMAIN bindings : Evaluates(root)[q] = bindings[q]
  BY <1>1, <1>8, SettlingCaches
<1> QED BY <1>2, <1>3, <1>4, <1>5, <1>6, <1>7, <1>9

\* So is a program that was kept.
LEMMA HeldProgram ==
    ASSUME Types, CachesSound, NEW root \in DOMAIN interfaces, Settled(root), Acyclic(root)
    PROVE  FreshOk(root) /\ ProgramOf(root) = FreshProgram(root)
<1>1. PICK s : SealSound(s)
  BY DEF CachesSound
<1> QED BY <1>1, InterfaceFresh, ProgramFresh

-----------------------------------------------------------------------------
(* Answers and preparations, and the texts they were made from.            *)

\* What r may be answered.
Right(r, outcome, value) ==
    /\ outcome # "unpublished"
    /\ outcome = "failed" => ~FreshOk(r.root)
    /\ outcome = "refused" => FreshOk(r.root) /\ ~Emits(FreshProgram(r.root))
    /\ outcome = "ok" =>
          /\ FreshOk(r.root)
          /\ r.kind = "check" => value = FreshView(r.root)
          /\ r.kind = "compile" => value = FreshProgram(r.root)
          /\ r.kind = "develop" =>
                \A u \in r.units :
                    value[u].source = "compiled" =>
                        value[u].code = UnitCode(FreshProgram(r.root), r.root, r.units, u)

\* What a preparation of root may replace.
Replaces(root, replacements) ==
    /\ FreshOk(root)
    /\ \A k \in DOMAIN replacements :
          replacements[k].code = UnitCode(FreshProgram(root), root, k.units, k.unit)

\* Freshness depends on the texts and the imports alone.
LEMMA AnswerRight ==
    ASSUME UNCHANGED <<modules, imports>>, NEW a, answer' = a,
           a # None => Right(a.request, a.outcome, a.value)
    PROVE  AnswersCurrent'
<1>1. a # None => Right(a.request, a.outcome, a.value)'
  <2>1. ASSUME NEW p
        PROVE  /\ FreshOk(p)' <=> FreshOk(p)
               /\ FreshView(p)' = FreshView(p)
               /\ FreshProgram(p)' = FreshProgram(p)
    BY DEF FreshOk, FreshView, FreshProgram, Entry, Acyclic, Reach
  <2> QED BY <2>1 DEF Right
<1>2. AnswersFresh'
  BY <1>1, Zenon DEF AnswersFresh, Right
<1>3. ImportsPublished'
  BY DEF ImportsPublished, Right
<1> QED BY <1>2, <1>3 DEF AnswersCurrent

LEMMA AnswerStays ==
    ASSUME AnswersCurrent, UNCHANGED <<modules, imports, answer>>
    PROVE  AnswersCurrent'
<1>1. PICK a : a = answer
  OBVIOUS
<1>2. a # None => Right(a.request, a.outcome, a.value)
  BY <1>1 DEF AnswersCurrent, AnswersFresh, ImportsPublished, Right
<1> QED BY <1>1, <1>2, AnswerRight

LEMMA PendingRight ==
    ASSUME UNCHANGED <<modules, imports>>, NEW x, pending' = x,
           x # None => Replaces(x.root, x.replacements)
    PROVE  PendingCurrent'
BY DEF PendingCurrent, Replaces, FreshOk, FreshProgram, Entry, Acyclic, Reach

LEMMA PendingStays ==
    ASSUME PreparationsCurrent, PendingAgrees,
           UNCHANGED <<modules, imports, retained>>, pending' \in {pending, None}
    PROVE  PreparationsCurrent' /\ PendingAgrees'
<1>1. CASE pending' = None
  BY <1>1 DEF PreparationsCurrent, PendingCurrent, HostHolds, PendingAgrees
<1>2. CASE pending' = pending
  <2>1. PICK x : x = pending
    OBVIOUS
  <2>2. x # None => Replaces(x.root, x.replacements)
    BY <2>1 DEF PreparationsCurrent, PendingCurrent, Replaces
  <2>3. PendingCurrent'
    BY <1>2, <2>1, <2>2, PendingRight
  <2>4. HostHolds' /\ PendingAgrees'
    BY <1>2 DEF PreparationsCurrent, HostHolds, PendingAgrees
  <2> QED BY <2>3, <2>4 DEF PreparationsCurrent
<1> QED BY <1>1, <1>2

\* A request whose root does not check fails, and rightly.
LEMMA FailedRight ==
    ASSUME Types, NEW r \in Requests, ~Checks(r.root)
    PROVE  Right(r, "failed", {})
BY NotChecked, RequestsOfModules DEF Types, Right

LEMMA CheckAnswered ==
    ASSUME Types, CachesSound, WalkAgrees, AnswerCheck
    PROVE  Kept /\ AnswersCurrent'
<1>1. PICK r : r = request
  OBVIOUS
<1>2. /\ r \in Requests /\ r.root \in Paths /\ r.kind = "check"
      /\ Settled(r.root) /\ Acyclic(r.root)
  BY <1>1, WalkedFacts DEF AnswerCheck
<1>3. UNCHANGED <<modules, imports, dirty, published, nextId, renewed, closed, closedDev>>
  BY DEF AnswerCheck, loadVars, devVars
<1>4. CASE ~Checks(r.root)
  <2>1. /\ UNCHANGED <<interfaces, bindings>>
        /\ answer' = [request |-> r, outcome |-> "failed", value |-> {}]
    BY <1>1, <1>4 DEF AnswerCheck, Fail
  <2>2. Right(r, "failed", {})
    BY <1>2, <1>4, FailedRight
  <2>3. AnswersCurrent'
    BY <1>3, <2>1, <2>2, AnswerRight
  <2> QED BY <1>3, <2>1, <2>3, StillKept DEF cacheVars
<1>5. CASE Checks(r.root)
  <2>1. /\ interfaces' = Caches(r.root) /\ bindings' = Evaluates(r.root)
        /\ answer' = [request |-> r, outcome |-> "ok", value |-> CheckedView(r.root)]
    BY <1>1, <1>5 DEF AnswerCheck
  <2>2. /\ FreshOk(r.root)
        /\ CheckedView(r.root) = FreshView(r.root)
        /\ DOMAIN Caches(r.root) = DOMAIN interfaces
        /\ \A q \in DOMAIN interfaces : Caches(r.root)[q] = interfaces[q]
        /\ DOMAIN Evaluates(r.root) = DOMAIN bindings
        /\ \A q \in DOMAIN bindings : Evaluates(r.root)[q] = bindings[q]
    BY <1>2, <1>5, SettledAnswer
  <2>3. PICK v : v = CheckedView(r.root)
    OBVIOUS
  <2>4. Right(r, "ok", v)
    BY <1>2, <2>2, <2>3 DEF Right
  <2>5. AnswersCurrent'
    BY <1>3, <2>1, <2>3, <2>4, AnswerRight
  <2> QED BY <1>3, <2>1, <2>2, <2>5 DEF Kept
<1> QED BY <1>4, <1>5

LEMMA CompileAnswered ==
    ASSUME Types, CachesSound, WalkAgrees, AnswerCompile
    PROVE  Kept /\ AnswersCurrent'
<1>1. PICK r : r = request
  OBVIOUS
<1> DEFINE root == r.root
           hit == root \in DOMAIN closed
           program == IF hit THEN closed[root] ELSE ClosedFrom(root)
<1>2. /\ r \in Requests /\ root \in Paths /\ r.kind = "compile" /\ root \notin dirty
      /\ Settled(root) /\ Acyclic(root)
  BY <1>1, WalkedFacts DEF AnswerCompile
<1>3. UNCHANGED <<modules, imports, dirty, published, nextId, renewed, closedDev>>
  BY DEF AnswerCompile, loadVars, devVars
<1>4. CASE ~hit /\ ~Checks(root)
  <2>1. /\ UNCHANGED <<interfaces, bindings, closed>>
        /\ answer' = [request |-> r, outcome |-> "failed", value |-> {}]
    BY <1>1, <1>4 DEF AnswerCompile, Fail
  <2>2. Right(r, "failed", {})
    BY <1>2, <1>4, FailedRight
  <2>3. AnswersCurrent'
    BY <1>3, <2>1, <2>2, AnswerRight
  <2> QED BY <1>3, <2>1, <2>3, StillKept DEF cacheVars
<1>5. CASE hit \/ Checks(root)
  <2>1. /\ interfaces' = IF hit THEN interfaces ELSE Caches(root)
        /\ bindings' = IF hit THEN bindings ELSE Evaluates(root)
        /\ \/ /\ ~Emits(program) /\ UNCHANGED closed
              /\ answer' = [request |-> r, outcome |-> "refused", value |-> {}]
           \/ /\ closed' = With(closed, root, program)
              /\ answer' = [request |-> r, outcome |-> "ok", value |-> program]
    BY <1>1, <1>5 DEF AnswerCompile, Fail
  <2>2. /\ root \in DOMAIN interfaces /\ FreshOk(root)
        /\ program = ProgramOf(root) /\ program = FreshProgram(root)
        /\ DOMAIN interfaces' = DOMAIN interfaces
        /\ \A q \in DOMAIN interfaces : interfaces'[q] = interfaces[q]
        /\ DOMAIN bindings' = DOMAIN bindings
        /\ \A q \in DOMAIN bindings : bindings'[q] = bindings[q]
    <3>1. CASE hit
      <4>1. root \in DOMAIN interfaces /\ closed[root] = ProgramOf(root)
        BY <1>2, <3>1 DEF CachesSound, SealSound, PathSound, ProgramSound
      <4> QED BY <1>2, <2>1, <3>1, <4>1, HeldProgram
    <3>2. CASE ~hit
      <4>1. Checks(root)
        BY <1>5, <3>2
      <4>2. /\ root \in DOMAIN interfaces /\ FreshOk(root)
            /\ ClosedFrom(root) = ProgramOf(root) /\ ClosedFrom(root) = FreshProgram(root)
            /\ DOMAIN Caches(root) = DOMAIN interfaces
            /\ \A q \in DOMAIN interfaces : Caches(root)[q] = interfaces[q]
            /\ DOMAIN Evaluates(root) = DOMAIN bindings
            /\ \A q \in DOMAIN bindings : Evaluates(root)[q] = bindings[q]
        BY <1>2, <4>1, SettledAnswer
      <4> QED BY <2>1, <3>2, <4>2
    <3> QED BY <3>1, <3>2
  <2>3. PICK v : v = program
    OBVIOUS
  <2>4. v = ProgramOf(root) /\ v = FreshProgram(root)
    BY <2>2, <2>3
  <2> HIDE DEF hit, program
  <2>5. CASE ~Emits(program) /\ UNCHANGED closed
             /\ answer' = [request |-> r, outcome |-> "refused", value |-> {}]
    <3>1. Right(r, "refused", {})
      BY <2>2, <2>5 DEF Right
    <3>2. AnswersCurrent'
      BY <1>3, <2>5, <3>1, AnswerRight
    <3> QED BY <1>3, <2>2, <2>5, <3>2 DEF Kept
  <2>6. CASE closed' = With(closed, root, v)
             /\ answer' = [request |-> r, outcome |-> "ok", value |-> v]
    <3>1. Right(r, "ok", v)
      BY <1>2, <2>2, <2>4 DEF Right
    <3>2. AnswersCurrent'
      BY <1>3, <2>6, <3>1, AnswerRight
    <3>3. \A q \in DOMAIN closed' :
              \/ q \in DOMAIN closed /\ closed'[q] = closed[q]
              \/ q \notin dirty /\ q \in DOMAIN interfaces /\ closed'[q] = ProgramOf(q)
      BY <1>2, <2>2, <2>4, <2>6 DEF With
    <3> QED BY <1>3, <2>2, <3>2, <3>3 DEF Kept
  <2> QED BY <2>1, <2>3, <2>5, <2>6
<1> QED BY <1>4, <1>5

-----------------------------------------------------------------------------
(* Development programs.                                                   *)

\* A unit that is compiled is compiled from the program, and one that is not
\* has a committed artifact.
LEMMA UnitAnswerFacts ==
    ASSUME NEW program, NEW root, NEW units, NEW u
    PROVE  LET a == UnitAnswer(program, root, units, u)
               key == ArtifactKey(root, units, u)
           IN  /\ a.source \in {"unit-cache", "compiled"}
               /\ a.source = "compiled" => a.code = UnitCode(program, root, units, u)
               /\ a.source = "unit-cache" =>
                     key \in DOMAIN artifacts /\ a.code = artifacts[key].code
BY DEF UnitAnswer

LEMMA DevelopAnswered ==
    ASSUME Types, CachesSound, WalkAgrees, ArtifactsHeld, PreparationsCurrent,
           PendingAgrees, AnswerDevelop
    PROVE  Kept /\ AnswersCurrent' /\ PreparationsCurrent' /\ PendingAgrees'
<1>1. PICK r : r = request
  OBVIOUS
<1> DEFINE root == request.root
           units == request.units
           key == [root |-> root, units |-> units]
           hit == key \in DOMAIN closedDev
           program == IF hit THEN closedDev[key] ELSE ClosedFrom(root)
           reply == [u \in units |-> UnitAnswer(program, root, units, u)]
           compiled == {u \in units : reply[u].source = "compiled"}
           replacements ==
               [k \in {ArtifactKey(root, units, u) : u \in compiled} |->
                  [code |-> reply[k.unit].code,
                   sources |-> SourcePaths(program, root, units, k.unit),
                   partition |-> Partition(program, root, units, k.unit)]]
           prepared == [id |-> nextTx, root |-> root, units |-> units,
                        active |-> {ArtifactKey(root, units, u) : u \in units},
                        reply |-> reply, replacements |-> replacements]
<1>2. /\ r \in Requests /\ root \in Paths /\ r.kind = "develop" /\ root \notin dirty
      /\ Settled(root) /\ Acyclic(root)
  BY <1>1, WalkedFacts DEF AnswerDevelop
<1>3. UNCHANGED <<modules, imports, dirty, published, nextId, renewed, closed, artifacts,
                  retained>>
  BY DEF AnswerDevelop, loadVars
<1>4. CASE ~hit /\ ~Checks(root)
  <2>1. /\ UNCHANGED <<interfaces, bindings, closedDev, pending>>
        /\ answer' = [request |-> request, outcome |-> "failed", value |-> {}]
    BY <1>1, <1>4 DEF AnswerDevelop, Fail
  <2>2. Right(r, "failed", {})
    BY <1>1, <1>2, <1>4, FailedRight
  <2>3. AnswersCurrent'
    BY <1>1, <1>3, <2>1, <2>2, AnswerRight
  <2>4. PreparationsCurrent' /\ PendingAgrees'
    BY <1>3, <2>1, PendingStays
  <2> QED BY <1>3, <2>1, <2>3, <2>4, StillKept DEF cacheVars
<1>5. CASE hit \/ Checks(root)
  <2>1. /\ interfaces' = IF hit THEN interfaces ELSE Caches(root)
        /\ bindings' = IF hit THEN bindings ELSE Evaluates(root)
        /\ \/ /\ ~Emits(program) /\ UNCHANGED <<closedDev, pending>>
              /\ answer' = [request |-> request, outcome |-> "refused", value |-> {}]
           \/ /\ closedDev' = With(closedDev, key, program)
              /\ pending' = prepared
              /\ answer' = [request |-> request, outcome |-> "ok", value |-> reply]
    BY <1>5, Zenon DEF AnswerDevelop, Fail
  <2>2. /\ root \in DOMAIN interfaces /\ FreshOk(root)
        /\ program = ProgramOf(root) /\ program = FreshProgram(root)
        /\ DOMAIN interfaces' = DOMAIN interfaces
        /\ \A q \in DOMAIN interfaces : interfaces'[q] = interfaces[q]
        /\ DOMAIN bindings' = DOMAIN bindings
        /\ \A q \in DOMAIN bindings : bindings'[q] = bindings[q]
    <3>1. CASE hit
      <4>1. root \in DOMAIN interfaces /\ closedDev[key] = ProgramOf(root)
        BY <3>1 DEF CachesSound, DevSound
      <4> QED BY <1>2, <2>1, <3>1, <4>1, HeldProgram
    <3>2. CASE ~hit
      <4>1. Checks(root)
        BY <1>5, <3>2
      <4>2. /\ root \in DOMAIN interfaces /\ FreshOk(root)
            /\ ClosedFrom(root) = ProgramOf(root) /\ ClosedFrom(root) = FreshProgram(root)
            /\ DOMAIN Caches(root) = DOMAIN interfaces
            /\ \A q \in DOMAIN interfaces : Caches(root)[q] = interfaces[q]
            /\ DOMAIN Evaluates(root) = DOMAIN bindings
            /\ \A q \in DOMAIN bindings : Evaluates(root)[q] = bindings[q]
        BY <1>2, <4>1, SettledAnswer
      <4> QED BY <2>1, <3>2, <4>2
    <3> QED BY <3>1, <3>2
  <2>3. \A u \in units :
          /\ reply[u].source \in {"unit-cache", "compiled"}
          /\ reply[u].source = "compiled" =>
                reply[u].code = UnitCode(FreshProgram(root), root, units, u)
          /\ reply[u].source = "unit-cache" =>
                /\ ArtifactKey(root, units, u) \in DOMAIN artifacts
                /\ reply[u].code = artifacts[ArtifactKey(root, units, u)].code
    <3>1. PICK v : v = program
      OBVIOUS
    <3> HIDE DEF hit, program
    <3> QED BY <2>2, <3>1, UnitAnswerFacts
  <2>4. CASE ~Emits(program) /\ UNCHANGED <<closedDev, pending>>
             /\ answer' = [request |-> request, outcome |-> "refused", value |-> {}]
    <3> HIDE DEF hit, program
    <3>1. Right(r, "refused", {})
      BY <1>1, <2>2, <2>4 DEF Right
    <3>2. AnswersCurrent'
      BY <1>1, <1>3, <2>4, <3>1, AnswerRight
    <3>3. PreparationsCurrent' /\ PendingAgrees'
      BY <1>3, <2>4, PendingStays
    <3> QED BY <1>3, <2>2, <2>4, <3>2, <3>3 DEF Kept
  <2>5. CASE closedDev' = With(closedDev, key, program) /\ pending' = prepared
             /\ answer' = [request |-> request, outcome |-> "ok", value |-> reply]
    <3>1. PICK a : a = reply
      OBVIOUS
    <3>2. PICK x : x = prepared
      OBVIOUS
    <3>3. /\ x.root = root /\ x.units = units /\ x.reply = a
          /\ x.active = {ArtifactKey(root, units, u) : u \in units}
          /\ DOMAIN x.replacements = {ArtifactKey(root, units, u) : u \in compiled}
          /\ \A k \in DOMAIN x.replacements : x.replacements[k].code = a[k.unit].code
      BY <3>1, <3>2
    <3>4. \A u \in units : u \in compiled <=> a[u].source = "compiled"
      BY <3>1
    <3> HIDE DEF hit, program, reply, compiled, replacements, prepared
    <3>5. \A u : ArtifactKey(root, units, u).root = root
                 /\ ArtifactKey(root, units, u).units = units
                 /\ ArtifactKey(root, units, u).unit = u
      BY DEF ArtifactKey
    <3>6. compiled \subseteq units
      BY DEF compiled
    <3>7. Right(r, "ok", a)
      BY <1>1, <1>2, <2>2, <2>3, <3>1 DEF Right
    <3>8. AnswersCurrent'
      BY <1>1, <1>3, <2>5, <3>1, <3>7, AnswerRight
    <3>9. Replaces(x.root, x.replacements)
      <4> SUFFICES ASSUME NEW k \in DOMAIN x.replacements
                   PROVE  x.replacements[k].code
                            = UnitCode(FreshProgram(root), root, k.units, k.unit)
        BY <2>2, <3>3 DEF Replaces
      <4>1. PICK u \in compiled : k = ArtifactKey(root, units, u)
        BY <3>3
      <4> QED BY <2>3, <3>1, <3>3, <3>4, <3>5, <3>6, <4>1
    <3>10. PendingCurrent'
      BY <1>3, <2>5, <3>2, <3>9, PendingRight
    <3>11. HostHolds'
      <4> SUFFICES ASSUME NEW u \in units, a[u].source = "unit-cache"
                   PROVE  u \in DOMAIN retained[root] /\ retained[root][u] = a[u].code
        BY <1>3, <2>5, <3>2, <3>3 DEF HostHolds
      <4>1. ArtifactKey(root, units, u) \in DOMAIN artifacts
            /\ a[u].code = artifacts[ArtifactKey(root, units, u)].code
        BY <2>3, <3>1
      <4> QED BY <3>5, <4>1 DEF ArtifactsHeld
    <3>12. PendingAgrees'
      <4>1. DOMAIN x.replacements \subseteq x.active
        BY <3>3, <3>6
      <4>2. ASSUME NEW k \in x.active
            PROVE  /\ k.root = root /\ k.unit \in units
                   /\ IF k \in DOMAIN x.replacements
                      THEN x.replacements[k].code = a[k.unit].code
                      ELSE a[k.unit].source = "unit-cache"
        <5>1. PICK u \in units : k = ArtifactKey(root, units, u)
          BY <3>3
        <5>2. k.root = root /\ k.unit = u
          BY <3>5, <5>1
        <5>3. k \notin DOMAIN x.replacements => u \notin compiled
          BY <3>3, <5>1
        <5> QED BY <2>3, <3>1, <3>3, <3>4, <5>2, <5>3
      <4> QED BY <1>2, <2>5, <3>2, <3>3, <4>1, <4>2 DEF PendingAgrees
    <3>13. \A k \in DOMAIN closedDev' :
              \/ k \in DOMAIN closedDev /\ closedDev'[k] = closedDev[k]
              \/ /\ k.root \notin dirty
                 /\ k.root \in DOMAIN interfaces
                 /\ closedDev'[k] = ProgramOf(k.root)
      <4>1. \A k \in DOMAIN closedDev' :
                IF k = key THEN closedDev'[k] = program
                ELSE k \in DOMAIN closedDev /\ closedDev'[k] = closedDev[k]
        BY <2>5 DEF With
      <4>2. key.root = root
        OBVIOUS
      <4> HIDE DEF key
      <4> QED BY <1>2, <2>2, <4>1, <4>2
    <3>14. Kept
      BY <1>3, <2>2, <3>13 DEF Kept
    <3> QED BY <3>8, <3>10, <3>11, <3>12, <3>14 DEF PreparationsCurrent
  <2> QED BY <2>1, <2>4, <2>5
<1> QED BY <1>4, <1>5

\* What the host retains after a commit is what the session committed.
LEMMA CommitHeld ==
    ASSUME Types, ArtifactsHeld, PreparationsCurrent, PendingAgrees, Commit
    PROVE  ArtifactsHeld' /\ retained' = [p \in Paths |-> retained'[p]]
<1>1. PICK x : x = pending
  OBVIOUS
<1> DEFINE new == DOMAIN x.replacements
           kept == {k \in DOMAIN artifacts : k.root # x.root \/ k \in x.active}
<1>2. /\ x # None
      /\ artifacts' = [k \in kept \cup new |->
             IF k \in new THEN x.replacements[k] ELSE artifacts[k]]
      /\ retained' = [retained EXCEPT ![x.root] = [u \in x.units |-> x.reply[u].code]]
  BY <1>1 DEF Commit
<1>3. /\ x.root \in Paths
      /\ new \subseteq x.active
      /\ \A k \in x.active :
            /\ k.root = x.root
            /\ k.unit \in x.units
            /\ IF k \in new THEN x.replacements[k].code = x.reply[k.unit].code
               ELSE x.reply[k.unit].source = "unit-cache"
  BY <1>1, <1>2 DEF PendingAgrees
<1>4. \A u \in x.units : x.reply[u].source = "unit-cache" =>
          u \in DOMAIN retained[x.root] /\ retained[x.root][u] = x.reply[u].code
  BY <1>1, <1>2 DEF PreparationsCurrent, HostHolds
<1>5. /\ retained' = [p \in Paths |-> retained'[p]]
      /\ DOMAIN retained'[x.root] = x.units
      /\ \A u \in x.units : retained'[x.root][u] = x.reply[u].code
      /\ \A p \in Paths : p # x.root => retained'[p] = retained[p]
  <2>1. PICK m : m = [u \in x.units |-> x.reply[u].code]
    OBVIOUS
  <2>2. PICK old : old = retained
    OBVIOUS
  <2>3. old = [p \in Paths |-> old[p]]
    BY <2>2 DEF Types
  <2>4. retained' = [old EXCEPT ![x.root] = m]
    BY <1>2, <2>1, <2>2
  <2>5. /\ retained' = [p \in Paths |-> retained'[p]]
        /\ retained'[x.root] = m
        /\ \A p \in Paths : p # x.root => retained'[p] = old[p]
    BY <1>3, <2>3, <2>4
  <2> QED BY <2>1, <2>2, <2>5
<1>6. DOMAIN artifacts' = kept \cup new
      /\ \A k \in kept \cup new :
            artifacts'[k] = IF k \in new THEN x.replacements[k] ELSE artifacts[k]
  BY <1>2
<1>7. ASSUME NEW k \in DOMAIN artifacts'
      PROVE  /\ k.root \in Paths
             /\ k.unit \in DOMAIN retained'[k.root]
             /\ retained'[k.root][k.unit] = artifacts'[k].code
  <2>1. CASE k \in new
    <3> HIDE DEF new, kept
    <3> QED BY <1>3, <1>5, <1>6, <2>1
  <2>2. CASE k \notin new /\ k \in x.active
    <3>1. k \in DOMAIN artifacts /\ artifacts'[k] = artifacts[k]
      BY <1>6, <2>2
    <3>2. retained[k.root][k.unit] = artifacts[k].code
      BY <3>1 DEF ArtifactsHeld
    <3> HIDE DEF new, kept
    <3> QED BY <1>3, <1>4, <1>5, <2>2, <3>1, <3>2
  <2>3. CASE k \notin new /\ k \notin x.active
    <3>1. k \in DOMAIN artifacts /\ artifacts'[k] = artifacts[k] /\ k.root # x.root
      BY <1>6, <2>3
    <3> HIDE DEF new, kept
    <3> QED BY <1>5, <3>1 DEF ArtifactsHeld
  <2> QED BY <2>1, <2>2, <2>3
<1> QED BY <1>5, <1>7 DEF ArtifactsHeld

-----------------------------------------------------------------------------
(* The walk.                                                               *)

LEMMA BeginWalk ==
    ASSUME Types, NEW r \in Requests, BeginRequest(r)
    PROVE  WalkAgrees' /\ walk' \in Seq([path : Paths, left : SUBSET Paths])
           /\ request' = r /\ r # None
<1>1. /\ r.root \in Paths /\ r # None
      /\ imports \in [Paths -> SUBSET Paths] /\ imports' = imports
      /\ request' = r
  BY RequestsOfModules, NoneIsNothing DEF BeginRequest, loadVars, Types
<1>2. PICK e : e = [path |-> r.root, left |-> imports[r.root]]
  OBVIOUS
<1>3. e \in [path : Paths, left : SUBSET Paths] /\ e.path = r.root /\ e.left = imports[r.root]
  BY <1>1, <1>2
<1>4. walk' = <<e>>
  BY <1>2 DEF BeginRequest
<1>5. Len(walk') = 1 /\ walk'[1] = e /\ walk' # << >>
  BY <1>4
<1>6. Acyclic(r.root) /\ r.root \in Reach(r.root)
  BY <1>1, ReachFacts DEF BeginRequest
<1>7. WalkAgrees'
  <2>1. Acyclic(request.root)'
    BY <1>1, <1>6 DEF Acyclic, Reach
  <2>2. \A i \in 1..Len(walk') :
          /\ walk'[i].path \in ReachedBy({request'.root}, imports')
          /\ walk'[i].left \subseteq imports'[walk'[i].path]
          /\ imports'[walk'[i].path] \ walk'[i].left = {}
          /\ \A j \in 1..Len(walk') : ~(i < j)
    BY <1>1, <1>3, <1>5, <1>6 DEF Reach
  <2> QED BY <1>1, <1>3, <1>5, <2>1, <2>2 DEF WalkAgrees, Reach
<1>8. walk' \in Seq([path : Paths, left : SUBSET Paths])
  <2> DEFINE R == [path : Paths, left : SUBSET Paths]
  <2>1. e \in R
    BY <1>3
  <2> HIDE DEF R
  <2>2. <<e>> \in Seq(R)
    BY <2>1
  <2> QED BY <1>4, <2>2 DEF R
<1> QED BY <1>1, <1>7, <1>8

\* An import of a module on the walk is not on the walk itself.
LEMMA DescendWalk ==
    ASSUME Types, WalkAgrees, NEW d, Descend(d)
    PROVE  WalkAgrees' /\ walk' \in Seq([path : Paths, left : SUBSET Paths]) /\ request # None
<1> DEFINE R == [path : Paths, left : SUBSET Paths]
           n == Len(walk)
<1>1. PICK w : w = walk
  OBVIOUS
<1>2. PICK m : m = imports
  OBVIOUS
<1>3. PICK r : r = request
  OBVIOUS
<1>4. w \in Seq(R) /\ w # << >> /\ m \in [Paths -> SUBSET Paths]
  BY <1>1, <1>2 DEF Types, Descend
<1>5. r # None /\ r.root \in Paths /\ request' = request /\ imports' = imports /\ dirty' = dirty
  BY <1>3, RequestsOfModules DEF Types, Descend, loadVars
<1>6. n \in Nat /\ n \in 1..n /\ n = Len(w)
  <2> HIDE DEF R
  <2> QED BY <1>1, <1>4
<1>7. \A i \in 1..n : w[i] \in R /\ w[i].path \in Paths /\ w[i].left \subseteq Paths
  <2>1. \A i \in 1..n : w[i] \in R
    <3> HIDE DEF R
    <3> QED BY <1>4, <1>6
  <2> QED BY <2>1
<1>8. /\ Acyclic(r.root)
      /\ w[1].path = r.root
      /\ \A i \in 1..n :
          /\ w[i].path \in Reach(r.root)
          /\ w[i].left \subseteq imports[w[i].path]
          /\ \A x \in imports[w[i].path] \ w[i].left :
                Settled(x) \/ (i < n /\ x = w[i + 1].path)
          /\ \A j \in 1..n : i < j =>
                w[j].path \in ReachedBy(imports[w[i].path], imports)
  BY <1>1, <1>3, <1>4, <1>5 DEF WalkAgrees
<1>9. d \in w[n].left /\ d \in imports[w[n].path] /\ d \in Paths
  <2>1. d \in w[n].left
    BY <1>1 DEF Descend, Top
  <2> QED BY <1>6, <1>7, <1>8, <2>1
<1>10. \A i \in 1..n : d \in ReachedBy(imports[w[i].path], imports)
  <2> TAKE i \in 1..n
  <2>1. CASE i = n
    BY <1>2, <1>4, <1>7, <1>9, <2>1, BelowFacts
  <2>2. CASE i # n
    <3>1. w[n].path \in ReachedBy(imports[w[i].path], imports)
      BY <1>6, <1>8, <2>2
    <3> QED BY <1>2, <1>4, <1>7, <1>9, <3>1, BelowFacts
  <2> QED BY <2>1, <2>2
<1>11. d \in Reach(r.root)
  <2>1. w[n].path \in Reach(r.root)
    BY <1>6, <1>8
  <2> QED BY <1>2, <1>4, <1>5, <1>9, <2>1, ReachFacts
<1>12. d \notin Visiting
  <2> SUFFICES ASSUME NEW i \in 1..n, w[i].path = d PROVE FALSE
    BY <1>1, <1>4, <1>6 DEF Visiting
  <2> QED BY <1>8, <1>10, <1>11 DEF Acyclic
<1> DEFINE here == [w EXCEPT ![n] = [w[n] EXCEPT !.left = w[n].left \ {d}]]
           e == [path |-> d, left |-> m[d]]
<1>13. PICK h : h = here
  OBVIOUS
<1>14. PICK top : top = [w[n] EXCEPT !.left = w[n].left \ {d}]
  OBVIOUS
<1>15. top \in R /\ top.path = w[n].path /\ top.left = w[n].left \ {d}
  BY <1>6, <1>7, <1>14
<1>16. PICK new : new = e
  OBVIOUS
<1>17. new \in R /\ new.path = d /\ new.left = imports[d]
  BY <1>2, <1>4, <1>9, <1>16
<1>18. walk' = Append(h, new)
  <2>1. walk' = Append([walk EXCEPT ![Len(walk)].left = @ \ {d}],
                       [path |-> d, left |-> imports[d]])
    BY <1>12 DEF Descend
  <2> QED BY <1>1, <1>2, <1>13, <1>16, <2>1
<1>19. h = [w EXCEPT ![n] = top]
  BY <1>13, <1>14
<1> HIDE DEF R, here, e
<1>20. h \in Seq(R) /\ Len(h) = n /\ h[n] = top /\ \A i \in 1..n : i # n => h[i] = w[i]
  <2>1. DOMAIN w = 1..n /\ DOMAIN h = 1..n
    BY <1>4, <1>6, <1>19
  <2>2. h[n] = top /\ \A i \in 1..n : i # n => h[i] = w[i]
    BY <1>6, <1>19, <2>1
  <2>3. h \in Seq(R) /\ Len(h) = Len(w)
    BY <1>4, <1>6, <1>15, <1>19, ExceptSeq
  <2> QED BY <1>6, <2>2, <2>3
<1>21. /\ walk' \in Seq(R) /\ Len(walk') = n + 1 /\ walk'[n + 1] = new
       /\ \A i \in 1..n : walk'[i] = h[i]
  BY <1>6, <1>17, <1>18, <1>20
<1>22. /\ \A i \in 1..n : walk'[i].path = w[i].path
       /\ walk'[n + 1].path = d /\ walk'[n + 1].left = imports[d]
       /\ walk'[n].left = w[n].left \ {d}
       /\ \A i \in 1..n : i # n => walk'[i].left = w[i].left
  BY <1>6, <1>15, <1>17, <1>20, <1>21
<1>23. ASSUME NEW i \in 1..n + 1
       PROVE  /\ walk'[i].path \in Reach(r.root)
              /\ walk'[i].left \subseteq imports[walk'[i].path]
              /\ \A x \in imports[walk'[i].path] \ walk'[i].left :
                    Settled(x) \/ (i < n + 1 /\ x = walk'[i + 1].path)
              /\ \A j \in 1..n + 1 : i < j =>
                    walk'[j].path \in ReachedBy(imports[walk'[i].path], imports)
  <2>1. CASE i = n + 1
    BY <1>6, <1>11, <1>22, <2>1
  <2>2. CASE i = n
    <3>1. walk'[i].path = w[n].path /\ walk'[i].left = w[n].left \ {d}
          /\ walk'[i + 1].path = d
      BY <1>6, <1>22, <2>2
    <3>2. \A x \in imports[w[n].path] \ w[n].left : Settled(x)
      BY <1>6, <1>8
    <3>3. \A j \in 1..n + 1 : i < j => walk'[j].path = d
      BY <1>6, <1>22, <2>2
    <3> QED BY <1>6, <1>8, <1>10, <2>2, <3>1, <3>2, <3>3
  <2>3. CASE i # n /\ i # n + 1
    <3>1. i \in 1..n /\ i + 1 \in 1..n /\ i < n
      BY <1>6, <2>3
    <3>2. walk'[i].path = w[i].path /\ walk'[i].left = w[i].left
          /\ walk'[i + 1].path = w[i + 1].path
      BY <1>22, <2>3, <3>1
    <3>3. \A j \in 1..n + 1 : i < j =>
              walk'[j].path \in ReachedBy(imports[w[i].path], imports)
      <4> TAKE j \in 1..n + 1
      <4>1. CASE j = n + 1
        BY <1>10, <1>22, <3>1, <4>1
      <4>2. CASE j # n + 1
        <5>1. j \in 1..n
          BY <1>6, <4>2
        <5> QED BY <1>8, <1>22, <3>1, <5>1
      <4> QED BY <4>1, <4>2
    <3>4. i < n + 1
      BY <1>6, <3>1
    <3> QED BY <1>8, <3>1, <3>2, <3>3, <3>4
  <2> QED BY <2>1, <2>2, <2>3
<1>24. WalkAgrees'
  <2>1. Acyclic(request.root)'
    BY <1>3, <1>5, <1>8 DEF Acyclic, Reach
  <2>2. walk'[1].path = r.root /\ walk' # << >> /\ Len(walk') = n + 1
    BY <1>6, <1>8, <1>21, <1>22
  <2>3. \A i \in 1..Len(walk') :
          /\ walk'[i].path \in ReachedBy({request'.root}, imports')
          /\ walk'[i].left \subseteq imports'[walk'[i].path]
          /\ \A x \in imports'[walk'[i].path] \ walk'[i].left :
                ReachedBy({x}, imports') \cap dirty' = {}
                \/ (i < Len(walk') /\ x = walk'[i + 1].path)
          /\ \A j \in 1..Len(walk') : i < j =>
                walk'[j].path \in ReachedBy(imports'[walk'[i].path], imports')
    BY <1>3, <1>5, <1>23, <2>2 DEF Settled, Reach
  <2>4. walk'[1].path = request'.root
    BY <1>3, <1>5, <2>2
  <2> QED BY <2>1, <2>2, <2>3, <2>4 DEF WalkAgrees, Settled, Reach
<1> QED BY <1>3, <1>5, <1>21, <1>24 DEF R

\* The walk goes back up when the module on top is settled.
LEMMA PopWalk ==
    ASSUME Types, WalkAgrees, NEW p, Settling(p), walk' = Pop,
           UNCHANGED <<request, imports>>, Settled(p)',
           \A x \in Paths : Settled(x) => Settled(x)'
    PROVE  WalkAgrees'
<1> DEFINE R == [path : Paths, left : SUBSET Paths]
           n == Len(walk)
<1>1. PICK w : w = walk
  OBVIOUS
<1>2. PICK r : r = request
  OBVIOUS
<1>3. w \in Seq(R) /\ w # << >> /\ imports \in [Paths -> SUBSET Paths]
  BY <1>1 DEF Types, Settling
<1>4. r # None
  BY <1>1, <1>2, <1>3 DEF Types
<1> HIDE DEF R
<1>5. n \in Nat /\ n \in 1..n /\ n = Len(w) /\ \A i \in 1..n : w[i] \in R
  BY <1>1, <1>3
<1>6. p = w[n].path /\ p \in Paths
  BY <1>1, <1>5 DEF Settling, Top, R
<1>7. /\ Acyclic(r.root)
      /\ w[1].path = r.root
      /\ \A i \in 1..n :
          /\ w[i].path \in Reach(r.root) /\ w[i].path \in Paths
          /\ w[i].left \subseteq imports[w[i].path]
          /\ \A x \in imports[w[i].path] \ w[i].left :
                Settled(x) \/ (i < n /\ x = w[i + 1].path)
          /\ \A j \in 1..n : i < j =>
                w[j].path \in ReachedBy(imports[w[i].path], imports)
  BY <1>1, <1>2, <1>3, <1>4, <1>5 DEF WalkAgrees, R
<1>8. Len(walk') = n - 1 /\ \A i \in 1..n - 1 : walk'[i] = w[i]
  <2>1. walk' = SubSeq(w, 1, n - 1)
    BY <1>1 DEF Pop
  <2>2. 1 \in 1..Len(w) + 1 /\ n - 1 \in 0..Len(w) /\ 1 <= n - 1 + 1
    BY <1>5
  <2> QED BY <1>3, <1>5, <2>1, <2>2, SubSeqProperties
<1> HIDE DEF n
<1>9. \A i \in 1..n - 1 : i \in 1..n /\ i + 1 \in 1..n /\ (i < n - 1 => i + 1 \in 1..n - 1)
  BY <1>5
<1>10. ASSUME NEW i \in 1..n - 1
       PROVE  /\ walk'[i].path \in Reach(r.root)
              /\ walk'[i].left \subseteq imports[walk'[i].path]
              /\ \A x \in imports[walk'[i].path] \ walk'[i].left :
                    Settled(x)' \/ (i < n - 1 /\ x = walk'[i + 1].path)
              /\ \A j \in 1..n - 1 : i < j =>
                    walk'[j].path \in ReachedBy(imports[walk'[i].path], imports)
  <2>1. i \in 1..n /\ walk'[i] = w[i]
    BY <1>8, <1>9
  <2>2. \A x \in imports[w[i].path] : x \in Paths
    BY <1>3, <1>7, <2>1
  <2>3. ASSUME NEW x \in imports[w[i].path] \ w[i].left
        PROVE  Settled(x)' \/ (i < n - 1 /\ x = walk'[i + 1].path)
    <3>1. CASE Settled(x)
      BY <2>2, <3>1
    <3>2. CASE i < n /\ x = w[i + 1].path
      <4>1. CASE i = n - 1
        BY <1>5, <1>6, <3>2, <4>1
      <4>2. CASE i # n - 1
        <5>1. i < n - 1 /\ i + 1 \in 1..n - 1
          BY <1>5, <1>9, <4>2
        <5> QED BY <1>8, <3>2, <5>1
      <4> QED BY <4>1, <4>2
    <3> QED BY <1>7, <2>1, <3>1, <3>2
  <2>4. \A j \in 1..n - 1 : i < j =>
            walk'[j].path \in ReachedBy(imports[w[i].path], imports)
    BY <1>7, <1>8, <1>9, <2>1
  <2> QED BY <1>7, <2>1, <2>3, <2>4
<1>11. walk' = << >> => Settled(r.root)'
  <2> SUFFICES ASSUME walk' = << >> PROVE Settled(r.root)'
    OBVIOUS
  <2>1. 0 = n - 1
    <3>1. Len(walk') = 0
      OBVIOUS
    <3> QED BY <1>8, <3>1
  <2>2. n \in Int
    BY <1>5
  <2>3. n = 1
    BY <2>1, <2>2
  <2> QED BY <1>6, <1>7, <2>3
<1>12. walk' # << >> => walk'[1].path = r.root
  <2> SUFFICES ASSUME walk' # << >> PROVE walk'[1].path = r.root
    OBVIOUS
  <2>1. walk' \in Seq(R)
    BY <1>1, <1>3, <1>5 DEF Pop
  <2>2. 1 \in 1..n - 1
    BY <1>5, <1>8, <2>1
  <2> QED BY <1>7, <1>8, <2>2
<1>13. Acyclic(request.root)'
  BY <1>2, <1>7 DEF Acyclic, Reach
<1>14. \A i \in 1..Len(walk') :
          /\ walk'[i].path \in ReachedBy({request'.root}, imports')
          /\ walk'[i].left \subseteq imports'[walk'[i].path]
          /\ \A x \in imports'[walk'[i].path] \ walk'[i].left :
                ReachedBy({x}, imports') \cap dirty' = {}
                \/ (i < Len(walk') /\ x = walk'[i + 1].path)
          /\ \A j \in 1..Len(walk') : i < j =>
                walk'[j].path \in ReachedBy(imports'[walk'[i].path], imports')
  <2>1. imports' = imports /\ request' = r
    BY <1>2
  <2> SUFFICES ASSUME NEW i \in 1..n - 1
               PROVE  /\ walk'[i].path \in ReachedBy({r.root}, imports)
                      /\ walk'[i].left \subseteq imports[walk'[i].path]
                      /\ \A x \in imports[walk'[i].path] \ walk'[i].left :
                            ReachedBy({x}, imports) \cap dirty' = {}
                            \/ (i < n - 1 /\ x = walk'[i + 1].path)
                      /\ \A j \in 1..n - 1 : i < j =>
                            walk'[j].path \in ReachedBy(imports[walk'[i].path], imports)
    BY <1>8, <2>1
  <2> QED BY <1>10, <2>1 DEF Settled, Reach
<1>15. walk' = << >> => ReachedBy({request'.root}, imports') \cap dirty' = {}
  BY <1>2, <1>11 DEF Settled, Reach
<1>16. walk' # << >> => walk'[1].path = request'.root
  BY <1>2, <1>12
<1> QED BY <1>13, <1>14, <1>15, <1>16 DEF WalkAgrees, Settled, Reach

LEMMA ReuseWalk ==
    ASSUME Types, WalkAgrees, NEW p \in Paths, ReuseInterface(p)
    PROVE  WalkAgrees'
<1>1. Settling(p) /\ p \notin dirty /\ walk' = Pop /\ UNCHANGED <<request, imports, dirty>>
  BY DEF ReuseInterface, loadVars
<1>2. Settled(p)
  BY <1>1, SettlingFacts, SettledFacts DEF Types
<1>3. \A x : Settled(x) => Settled(x)'
  BY <1>1 DEF Settled, Reach
<1> QED BY <1>1, <1>2, <1>3, PopWalk

\* Publishing p makes no module dirty that p's imports reach.
LEMMA PublishWalk ==
    ASSUME Types, WalkAgrees, NEW p \in Paths, Settling(p), p \in dirty,
           dirty' \subseteq (dirty \ {p}) \cup Importers(p),
           walk' = Pop, UNCHANGED <<request, imports>>
    PROVE  WalkAgrees'
<1>1. Acyclic(p) /\ p \notin imports[p] /\ \A d \in imports[p] : Settled(d)
  BY SettlingFacts
<1>2. imports \in [Paths -> SUBSET Paths]
  BY DEF Types
<1>3. \A q \in Importers(p) : q \in Paths /\ p \in imports[q]
  BY DEF Importers
<1>4. ASSUME NEW x \in Paths, Settled(x)
      PROVE  Settled(x)'
  <2>1. ASSUME NEW q \in Reach(x), q \in dirty' PROVE FALSE
    <3>1. q \in Importers(p)
      BY <1>4, <2>1 DEF Settled
    <3>2. p \in Reach(x)
      BY <1>2, <1>3, <3>1, <2>1, ReachFacts
    <3> QED BY <1>4, <3>2 DEF Settled
  <2>2. Reach(x)' = Reach(x)
    BY DEF Reach
  <2> QED BY <2>1, <2>2 DEF Settled
<1>5. Settled(p)'
  <2>1. ASSUME NEW q \in Reach(p), q \in dirty' PROVE FALSE
    <3>1. Reach(p) = {p} \cup ReachedBy(imports[p], imports)
          /\ ReachedBy(imports[p], imports) = UNION {Reach(d) : d \in imports[p]}
          /\ p \notin ReachedBy(imports[p], imports)
      BY <1>1, <1>2, BelowFacts, ReachFacts DEF Acyclic
    <3>2. q \in dirty \ {p} \/ q \in Importers(p)
      BY <2>1
    <3>3. CASE q \in dirty \ {p}
      <4>1. PICK d \in imports[p] : q \in Reach(d)
        BY <2>1, <3>1, <3>3
      <4> QED BY <1>1, <3>3, <4>1 DEF Settled
    <3>4. CASE q \in Importers(p)
      <4>1. q # p /\ p \in imports[q]
        BY <1>1, <1>3, <3>4
      <4>2. q \in ReachedBy(imports[p], imports)
        BY <2>1, <3>1, <4>1
      <4>3. p \in ReachedBy(imports[p], imports)
        BY <1>2, <4>1, <4>2, BelowFacts
      <4> QED BY <3>1, <4>3
    <3> QED BY <3>2, <3>3, <3>4
  <2>2. Reach(p)' = Reach(p)
    BY DEF Reach
  <2> QED BY <2>1, <2>2 DEF Settled
<1> QED BY <1>4, <1>5, PopWalk

\* No request is under way.
LEMMA NoWalk ==
    ASSUME request' = None, walk' = << >>
    PROVE  WalkAgrees'
BY DEF WalkAgrees

-----------------------------------------------------------------------------
(* Every step keeps the invariant.                                         *)

LEMMA Cleared ==
    ASSUME pending' = None, answer' = None
    PROVE  AnswersCurrent' /\ PreparationsCurrent' /\ PendingAgrees'
BY DEF AnswersCurrent, AnswersFresh, ImportsPublished, PreparationsCurrent, PendingCurrent,
       HostHolds, PendingAgrees

LEMMA ArtifactsStay ==
    ASSUME ArtifactsHeld, UNCHANGED retained,
           \A k \in DOMAIN artifacts' : k \in DOMAIN artifacts /\ artifacts'[k] = artifacts[k]
    PROVE  ArtifactsHeld'
BY DEF ArtifactsHeld

\* What a module reaches is fresh when it is.
LEMMA FreshBelow ==
    ASSUME Types, NEW r \in Paths, FreshOk(r), NEW p \in Reach(r)
    PROVE  FreshOk(p)
<1>1. Reach(p) \subseteq Reach(r)
  BY ReachFacts DEF Types
<1> QED BY <1>1 DEF FreshOk, Acyclic

LEMMA EditKeeps ==
    ASSUME IInv, ~MissingInstalls, NEW p \in Paths,
           \/ \E text \in Texts : AddSource(p, text)
           \/ \E choice \in ImportChoices[p] : ConfigureModule(p, choice)
           \/ RemoveModule(p)
           \/ \E text \in SnapshotTexts : InstallSnapshot(p, text)
    PROVE  IInv'
<1>1. Types' /\ CachesSound'
  BY AddSourceSound, ConfigureSound, RemoveSound, InstallSound DEF IInv
<1>2. Edit /\ pending' = None
  BY DEF AddSource, ConfigureModule, RemoveModule, InstallSnapshot, InvalidateExact
<1>3. request' = None /\ walk' = << >> /\ answer' = None
  BY <1>2 DEF Edit, Idle, walkVars, IInv, Types
<1>4. UNCHANGED retained /\ \A k \in DOMAIN artifacts' :
          k \in DOMAIN artifacts /\ artifacts'[k] = artifacts[k]
  BY DEF AddSource, ConfigureModule, RemoveModule, InstallSnapshot, Restrict
<1>5. ArtifactsHeld'
  BY <1>4, ArtifactsStay DEF IInv
<1>6. Numbered'
  BY <1>3 DEF Numbered
<1> QED BY <1>1, <1>2, <1>3, <1>5, <1>6, Cleared, NoWalk DEF IInv

LEMMA BeginKeeps ==
    ASSUME IInv, NEW r \in Requests, BeginRequest(r)
    PROVE  IInv'
<1>1. /\ UNCHANGED <<modules, imports, dirty, published, nextId, renewed, cacheVars, closedDev,
                     edits, nextTx, artifacts, retained>>
      /\ answer' = None /\ pending' \in {pending, None}
      /\ r.kind = "develop" => nextTx <= MaxTransaction
  BY DEF BeginRequest, loadVars
<1>2. Kept
  BY <1>1, StillKept
<1>3. WalkAgrees' /\ walk' \in Seq([path : Paths, left : SUBSET Paths])
      /\ request' = r /\ r # None
  BY BeginWalk DEF IInv
<1>4. Types'
  BY <1>1, <1>2, <1>3, KeptTypes DEF IInv, Types
<1>5. CachesSound'
  BY <1>2, KeptSound DEF IInv
<1>6. PreparationsCurrent' /\ PendingAgrees'
  BY <1>1, PendingStays DEF IInv
<1>7. AnswersCurrent'
  BY <1>1 DEF AnswersCurrent, AnswersFresh, ImportsPublished
<1>8. ArtifactsHeld' /\ Numbered'
  BY <1>1, <1>3 DEF IInv, ArtifactsHeld, Numbered
<1> QED BY <1>3, <1>4, <1>5, <1>6, <1>7, <1>8 DEF IInv

LEMMA WalkKeeps ==
    ASSUME IInv, NEW p \in Paths, Descend(p) \/ ReuseInterface(p)
    PROVE  IInv'
<1>1. UNCHANGED <<modules, imports, dirty, published, nextId, renewed, cacheVars, closedDev,
                  edits, nextTx, artifacts, pending, retained, request, answer>>
  BY DEF Descend, ReuseInterface, loadVars, devVars
<1>2. Kept
  BY <1>1, StillKept
<1>3. WalkAgrees' /\ walk' \in Seq([path : Paths, left : SUBSET Paths]) /\ request # None
  <2>1. CASE Descend(p)
    BY <2>1, DescendWalk DEF IInv
  <2>2. CASE ReuseInterface(p)
    <3>1. Settling(p) /\ walk' = Pop
      BY <2>2 DEF ReuseInterface
    <3> QED BY <2>2, <3>1, ReuseWalk, PopType, SettlingFacts DEF IInv
  <2> QED BY <2>1, <2>2
<1>4. Types'
  BY <1>1, <1>2, <1>3, KeptTypes DEF IInv, Types
<1>5. CachesSound'
  BY <1>2, KeptSound DEF IInv
<1>6. PreparationsCurrent' /\ PendingAgrees'
  BY <1>1, PendingStays DEF IInv
<1>7. AnswersCurrent'
  BY <1>1, AnswerStays DEF IInv
<1>8. ArtifactsHeld' /\ Numbered'
  BY <1>1 DEF IInv, ArtifactsHeld, Numbered
<1> QED BY <1>3, <1>4, <1>5, <1>6, <1>7, <1>8 DEF IInv

LEMMA CheckFailsKeeps ==
    ASSUME IInv, NEW p \in Paths, CheckFails(p)
    PROVE  IInv'
<1>1. Types' /\ CachesSound'
  BY CheckFailsSound DEF IInv
<1>2. PICK r : r = request
  OBVIOUS
<1>3. /\ Settling(p) /\ ~Checks(p)
      /\ UNCHANGED <<modules, imports, artifacts, nextTx, retained>>
      /\ pending' \in {pending, None}
      /\ answer' = [request |-> r, outcome |-> "failed", value |-> {}]
      /\ request' = None /\ walk' = << >>
  BY <1>2 DEF CheckFails, Fail, InvalidateExact, loadVars
<1>4. r.root \in Paths /\ p \in Reach(r.root)
  BY <1>2, <1>3, SettlingFacts DEF IInv
<1>5. ~FreshOk(r.root)
  <2>1. ~FreshOk(p)
    BY <1>3, NotChecked DEF IInv, Types
  <2> QED BY <1>4, <2>1, FreshBelow DEF IInv
<1>6. Right(r, "failed", {})
  BY <1>5 DEF Right
<1>7. AnswersCurrent'
  BY <1>3, <1>6, AnswerRight
<1>8. PreparationsCurrent' /\ PendingAgrees'
  BY <1>3, PendingStays DEF IInv
<1>9. ArtifactsHeld' /\ Numbered'
  BY <1>3 DEF IInv, ArtifactsHeld, Numbered
<1> QED BY <1>1, <1>3, <1>7, <1>8, <1>9, NoWalk DEF IInv

LEMMA RefusedKeeps ==
    ASSUME IInv, NEW p \in Paths, PublishRefused(p)
    PROVE  IInv'
<1>1. Types' /\ CachesSound' /\ BelowPublished(p)
  BY RefusedSound DEF IInv
<1>2. PICK r : r = request
  OBVIOUS
<1>3. /\ UNCHANGED <<modules, imports, artifacts, pending, nextTx, retained>>
      /\ answer' = [request |-> r, outcome |-> "exhausted", value |-> {}]
      /\ request' = None /\ walk' = << >>
  BY <1>1, <1>2 DEF PublishRefused, Fail, loadVars, devVars
<1>4. Right(r, "exhausted", {})
  BY DEF Right
<1>5. AnswersCurrent'
  <2>1. PICK a : a = [request |-> r, outcome |-> "exhausted", value |-> {}]
    OBVIOUS
  <2>2. Right(a.request, a.outcome, a.value)
    BY <1>4, <2>1
  <2>3. answer' = a
    BY <1>3, <2>1
  <2> QED BY <1>3, <2>2, <2>3, AnswerRight
<1>6. PreparationsCurrent' /\ PendingAgrees'
  BY <1>3, PendingStays DEF IInv
<1>7. ArtifactsHeld' /\ Numbered'
  BY <1>3 DEF IInv, ArtifactsHeld, Numbered
<1> QED BY <1>1, <1>3, <1>5, <1>6, <1>7, NoWalk DEF IInv

LEMMA PublishKeeps ==
    ASSUME IInv, NEW p \in Paths, PublishUnchanged(p) \/ PublishChanged(p)
    PROVE  IInv'
<1>1. Types' /\ CachesSound'
  BY UnchangedSound, ChangedSound DEF IInv
<1>2. /\ Settling(p) /\ p \in dirty /\ walk' = Pop
      /\ dirty' \subseteq (dirty \ {p}) \cup Importers(p)
      /\ UNCHANGED <<modules, imports, request, answer, artifacts, nextTx, retained>>
      /\ pending' \in {pending, None}
  BY DEF PublishUnchanged, PublishChanged, loadVars, devVars
<1>3. WalkAgrees'
  BY <1>2, PublishWalk DEF IInv
<1>4. PreparationsCurrent' /\ PendingAgrees'
  BY <1>2, PendingStays DEF IInv
<1>5. AnswersCurrent'
  BY <1>2, AnswerStays DEF IInv
<1>6. ArtifactsHeld' /\ Numbered'
  BY <1>2 DEF IInv, ArtifactsHeld, Numbered
<1> QED BY <1>1, <1>3, <1>4, <1>5, <1>6 DEF IInv

LEMMA AnswerKeeps ==
    ASSUME IInv, AnswerCheck \/ AnswerCompile \/ AnswerDevelop
    PROVE  IInv'
<1>1. request' = None /\ walk' = << >>
  BY DEF AnswerCheck, AnswerCompile, AnswerDevelop, Fail, Walked
<1>2. UNCHANGED <<edits, artifacts, retained>>
  BY DEF AnswerCheck, AnswerCompile, AnswerDevelop, loadVars, devVars
<1>3. nextTx' \in 1..MaxTransaction + 1
  <2>1. nextTx \in 1..MaxTransaction + 1 /\ MaxTransaction \in Nat
    BY BoundsAreNumbers DEF IInv, Types
  <2>2. CASE AnswerCheck \/ AnswerCompile
    BY <2>1, <2>2 DEF AnswerCheck, AnswerCompile, devVars
  <2>3. CASE AnswerDevelop
    <3>1. nextTx' = nextTx \/ nextTx' = nextTx + 1
      BY <2>3 DEF AnswerDevelop
    <3>2. nextTx <= MaxTransaction
      BY <2>3 DEF AnswerDevelop, Walked, IInv, Numbered
    <3> QED BY <2>1, <3>1, <3>2
  <2> QED BY <2>2, <2>3
<1>4. Kept /\ AnswersCurrent' /\ PreparationsCurrent' /\ PendingAgrees'
  <2>1. CASE AnswerCheck \/ AnswerCompile
    <3>1. Kept /\ AnswersCurrent'
      BY <2>1, CheckAnswered, CompileAnswered DEF IInv
    <3>2. UNCHANGED <<modules, imports, retained, pending>>
      BY <2>1 DEF AnswerCheck, AnswerCompile, loadVars, devVars
    <3> QED BY <3>1, <3>2, PendingStays DEF IInv
  <2>2. CASE AnswerDevelop
    BY <2>2, DevelopAnswered DEF IInv
  <2> QED BY <2>1, <2>2
<1>5. walk' \in Seq([path : Paths, left : SUBSET Paths])
  BY <1>1
<1>6. retained' = [p \in Paths |-> retained'[p]]
  BY <1>2 DEF IInv, Types
<1>7. Types'
  BY <1>1, <1>2, <1>3, <1>4, <1>5, <1>6, KeptTypes DEF IInv
<1>8. CachesSound'
  BY <1>4, KeptSound DEF IInv
<1>9. ArtifactsHeld' /\ Numbered'
  BY <1>1, <1>2 DEF IInv, ArtifactsHeld, Numbered
<1> QED BY <1>1, <1>4, <1>7, <1>8, <1>9, NoWalk DEF IInv

LEMMA CommitKeeps ==
    ASSUME IInv, Commit
    PROVE  IInv'
<1>1. /\ UNCHANGED <<modules, imports, dirty, published, nextId, renewed, cacheVars, closedDev,
                     edits, nextTx, request, walk>>
      /\ pending' = None /\ answer' = None /\ request = None
  BY DEF Commit, Idle, loadVars, walkVars
<1>2. ArtifactsHeld' /\ retained' = [p \in Paths |-> retained'[p]]
  BY CommitHeld DEF IInv
<1>3. Kept
  BY <1>1, StillKept
<1>4. Types'
  BY <1>1, <1>2, <1>3, KeptTypes DEF IInv, Types
<1>5. CachesSound'
  BY <1>3, KeptSound DEF IInv
<1>6. WalkAgrees' /\ Numbered'
  BY <1>1, NoWalk DEF IInv, Types, Numbered
<1> QED BY <1>1, <1>2, <1>4, <1>5, <1>6, Cleared DEF IInv

LEMMA StutterKeeps ==
    ASSUME IInv, UNCHANGED vars
    PROVE  IInv'
<1>1. UNCHANGED <<modules, imports, dirty, published, nextId, renewed, cacheVars, closedDev,
                  edits, nextTx, artifacts, pending, retained, request, walk, answer>>
  BY DEF vars, loadVars, devVars, walkVars
<1>2. Kept
  BY <1>1, StillKept
<1>3. WalkAgrees'
  BY <1>1 DEF IInv, WalkAgrees, Settled, Acyclic, Reach
<1>4. Types'
  BY <1>1, <1>2, KeptTypes DEF IInv, Types
<1>5. CachesSound'
  BY <1>2, KeptSound DEF IInv
<1>6. PreparationsCurrent' /\ PendingAgrees'
  BY <1>1, PendingStays DEF IInv
<1>7. AnswersCurrent'
  BY <1>1, AnswerStays DEF IInv
<1>8. ArtifactsHeld' /\ Numbered'
  BY <1>1 DEF IInv, ArtifactsHeld, Numbered
<1> QED BY <1>3, <1>4, <1>5, <1>6, <1>7, <1>8 DEF IInv

LEMMA InitHolds == Init => IInv
<1> SUFFICES ASSUME Init PROVE IInv
  OBVIOUS
<1>1. Types
  <2>1. modules \in [Paths -> KnownTexts \cup {None}] /\ imports \in [Paths -> SUBSET Paths]
    BY ModulesConfigured DEF Init, KnownTexts
  <2>2. published \in [Paths -> Boundaries \cup {None}] /\ \A p \in Paths : published[p] = None
    BY DEF Init
  <2>3. /\ DOMAIN interfaces = {} /\ DOMAIN bindings = {} /\ DOMAIN closed = {}
        /\ DOMAIN closedDev = {}
    BY DEF Init
  <2>4. nextId \in 0..MaxBoundaryId /\ nextTx \in 1..MaxTransaction + 1 /\ edits \in 0..MaxEdits
    BY BoundsAreNumbers DEF Init
  <2>5. walk \in Seq([path : Paths, left : SUBSET Paths]) /\ walk = << >>
    BY DEF Init
  <2>6. retained = [p \in Paths |-> retained[p]]
    BY DEF Init
  <2>7. /\ dirty \subseteq {p \in Paths : modules[p] # None} /\ renewed \subseteq Paths
        /\ request \in Requests \cup {None}
    BY DEF Init
  <2> QED BY <2>1, <2>2, <2>3, <2>4, <2>5, <2>6, <2>7 DEF Types
<1>2. CachesSound
  <2>1. \A p \in Paths : published[p] = None
    BY DEF Init
  <2>2. /\ DOMAIN interfaces = {} /\ DOMAIN bindings = {} /\ DOMAIN closed = {}
        /\ DOMAIN closedDev = {}
    BY DEF Init
  <2>3. \A p \in Paths : p \notin dirty => modules[p] = None
    BY DEF Init
  <2>4. PICK s : s = {}
    OBVIOUS
  <2>5. ASSUME NEW p \in Paths PROVE PathSound(s, p)
    BY <2>1, <2>2, <2>3
       DEF PathSound, BoundarySound, Unpublished, BindingSound, InterfaceSound, LinkSound,
           ProgramSound
  <2>6. DevSound
    BY <2>2 DEF DevSound
  <2> QED BY <2>5, <2>6 DEF CachesSound, SealSound
<1>3. WalkAgrees /\ ArtifactsHeld /\ Numbered
  BY DEF Init, WalkAgrees, ArtifactsHeld, Numbered
<1>4. PendingAgrees /\ PreparationsCurrent /\ AnswersCurrent
  BY DEF Init, PendingAgrees, PreparationsCurrent, PendingCurrent, HostHolds, AnswersCurrent,
         AnswersFresh, ImportsPublished
<1> QED BY <1>1, <1>2, <1>3, <1>4 DEF IInv

LEMMA StepKeeps ==
    ASSUME ~MissingInstalls, IInv, [Next]_vars
    PROVE  IInv'
<1>1. CASE UNCHANGED vars
  BY <1>1, StutterKeeps
<1>2. CASE Next
  <2>1. ASSUME NEW p \in Paths,
               \/ \E text \in Texts : AddSource(p, text)
               \/ \E choice \in ImportChoices[p] : ConfigureModule(p, choice)
               \/ RemoveModule(p)
               \/ \E text \in SnapshotTexts : InstallSnapshot(p, text)
        PROVE  IInv'
    BY <2>1, EditKeeps
  <2>2. ASSUME NEW p \in Paths, Descend(p) \/ ReuseInterface(p)
        PROVE  IInv'
    BY <2>2, WalkKeeps
  <2>3. ASSUME NEW p \in Paths, CheckFails(p)
        PROVE  IInv'
    BY <2>3, CheckFailsKeeps
  <2>4. ASSUME NEW p \in Paths, PublishRefused(p)
        PROVE  IInv'
    BY <2>4, RefusedKeeps
  <2>5. ASSUME NEW p \in Paths, PublishUnchanged(p) \/ PublishChanged(p)
        PROVE  IInv'
    BY <2>5, PublishKeeps
  <2>6. ASSUME NEW r \in Requests, BeginRequest(r)
        PROVE  IInv'
    BY <2>6, BeginKeeps
  <2>7. CASE AnswerCheck \/ AnswerCompile \/ AnswerDevelop
    BY <2>7, AnswerKeeps
  <2>8. CASE Commit
    BY <2>8, CommitKeeps
  <2> QED BY <1>2, <2>1, <2>2, <2>3, <2>4, <2>5, <2>6, <2>7, <2>8 DEF Next
<1> QED BY <1>1, <1>2

-----------------------------------------------------------------------------
(* The theorems.  A session in which no snapshot is installed where an     *)
(* import is missing keeps everything it holds current.                    *)

\* What the caches, the walk, the artifacts and the preparation hold relates
\* them to the boundaries published, whatever the host loads, configures,
\* removes, asks for and commits, in any order (session.rs).
THEOREM Invariant == ~MissingInstalls => (Spec => []IInv)
<1> SUFFICES ASSUME ~MissingInstalls PROVE Spec => []IInv
  OBVIOUS
<1>1. Init => IInv
  BY InitHolds
<1>2. IInv /\ [Next]_vars => IInv'
  BY StepKeeps
<1> QED BY <1>1, <1>2, PTL DEF Spec

\* What is cached is what the boundaries say, and so fresh where nothing below
\* it is dirty.
LEMMA InvariantCaches == IInv => CachesCurrent
<1> SUFFICES ASSUME IInv PROVE CachesCurrent
  OBVIOUS
<1>1. PICK s : SealSound(s)
  BY DEF IInv, CachesSound
<1>2. Types
  BY DEF IInv
<1>3. TypeOK
  BY <1>2 DEF Types, TypeOK, KnownTexts
<1>4. LinksCurrent
  BY <1>1 DEF LinksCurrent, SealSound, PathSound, LinkSound
<1>5. SettledFresh
  <2> SUFFICES ASSUME NEW p \in Paths, Settled(p), Acyclic(p)
               PROVE  /\ p \in DOMAIN interfaces => FreshOk(p) /\ interfaces[p] = FreshView(p)
                      /\ p \in DOMAIN closed => FreshOk(p) /\ closed[p] = FreshProgram(p)
    BY DEF SettledFresh, Settled
  <2>1. p \in DOMAIN closed => p \in DOMAIN interfaces /\ closed[p] = ProgramOf(p)
    BY <1>1 DEF SealSound, PathSound, ProgramSound
  <2> QED BY <1>1, <1>2, <2>1, InterfaceFresh, ProgramFresh
<1> QED BY <1>3, <1>4, <1>5 DEF CachesCurrent

\* A boundary that is not about to be checked again was sealed over the
\* boundaries its imports have now, and an interface or a program that is kept
\* where nothing below is dirty is what a session without caches would compute
\* (ensure_current, publish_boundary, invalidate_exact).
THEOREM CachesAlwaysCurrent == ~MissingInstalls => (Spec => []CachesCurrent)
BY Invariant, InvariantCaches, PTL

\* A preparation that can be committed was made from the texts loaded now, and
\* the host holds every unit it was told to keep (compile_development_program,
\* commit_development_program).
THEOREM PreparationsAlwaysCurrent == ~MissingInstalls => (Spec => []PreparationsCurrent)
<1>1. IInv => PreparationsCurrent
  BY DEF IInv
<1> QED BY <1>1, Invariant, PTL

\* A request is answered as a session that never cached anything would answer
\* it, and no module that checks meets an import without a boundary
\* (begin_semantic_request and the requests built on it).
THEOREM AnswersAlwaysCurrent == ~MissingInstalls => (Spec => []AnswersCurrent)
<1>1. IInv => AnswersCurrent
  BY DEF IInv
<1> QED BY <1>1, Invariant, PTL

=============================================================================
