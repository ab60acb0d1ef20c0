-------------------------- MODULE HostScopeProofs --------------------------
(***************************************************************************)
(* Proofs about HostScope for every number of scopes and items and every   *)
(* set of uses.                                                            *)
(***************************************************************************)
EXTENDS HostScope, QueueProofs, FiniteSetTheorems

\* A list of scopes: parents and owners come before, and a scope between a
\* scope and one above it is a child of that one.
TreeAgrees ==
  \A s \in ScopeIds :
    /\ scope[s].stage = "unused" <=> s > scopes
    /\ s > scopes => scope[s].parent = NoScope /\ scope[s].above = {}
    /\ scope[s].above \subseteq 1..(s - 1)
    /\ scope[s].parent # NoScope => scope[s].parent \in scope[s].above
    /\ scope[s].owner # NoScope => scope[s].owner \in scope[s].above
    /\ \A a \in scope[s].above :
         /\ scope[a].above \subseteq scope[s].above
         /\ scope[a].owner # NoScope =>
              /\ scope[s].owner # NoScope
              /\ IsWithin(scope[s].owner, scope[a].owner)
         /\ \E c \in ScopeIds : scope[c].parent = a /\ IsWithin(s, c)

\* What has been reclaimed or is closing is cancelled, and a scope inherits
\* a trap and its end from those above it.
MarksAgree ==
  \A s \in ScopeIds :
    /\ ~scope[s].guest => scope[s].aborted
    /\ scope[s].stage \notin {"unused", "open"} => scope[s].aborted
    /\ \A a \in scope[s].above :
         /\ ~scope[a].guest => ~scope[s].guest
         /\ scope[a].stage = "closed" => scope[s].stage = "closed"

\* The states of the three kinds of items, and what is known in each.
ItemAgrees(i) ==
  /\ i > items => item[i] = NoItemRecord
  /\ i <= items => item[i].state # "none" /\ item[i].scope \in 1..scopes
  /\ item[i].state \in {"requested", "creating", "discarding", "live",
                        "releasing"} => item[i].kind = "lease"
  /\ item[i].state \in {"registered", "closing"} => item[i].kind = "finalizer"
  /\ item[i].state = "owned" => item[i].kind = "closer"
  /\ item[i].state = "running" => item[i].kind \in {"finalizer", "closer"}
  /\ item[i].exit => /\ item[i].state \in {"releasing", "running", "closing", "over"}
                     /\ item[i].kind # "closer"
  /\ item[i].late => item[i].state \in {"releasing", "over"}
  /\ item[i].older # {} => /\ item[i].state \in {"live", "registered", "releasing",
                                                "running", "closing"}
                           /\ item[i].kind # "closer"
  /\ item[i].failed => item[i].state \in {"closing", "over"}
  /\ item[i].mask # NoScope => /\ item[i].state \in {"running", "closing"}
                              /\ item[i].kind = "finalizer"

ItemsAgree == \A i \in ItemIds : ItemAgrees(i)

\* What close() has not ended.
Spared(i) ==
  ~item[i].exit /\ item[i].state \in {"live", "registered", "releasing", "over"}

\* What an item is before it can be in a list.
Unlisted == {"none", "requested", "creating", "discarding", "owned"}

\* What was registered before an item is above it and was not ended by
\* close(), unless the release of the item came late; in a list it comes first.
OrderAgrees ==
  /\ \A i, k \in ItemIds : i \in item[k].older =>
       /\ i # k /\ item[i].scope \in Chain(item[k].scope)
       /\ item[i].state \notin Unlisted
       /\ item[k].late \/ Spared(i)
  /\ \A s \in ScopeIds : \A a, b \in 1..Len(cleanups[s]) :
       cleanups[s][a] \in item[cleanups[s][b]].older => a < b

\* The scope of a finalizer that runs.
MaskAgrees(i) ==
  /\ item[i].mask \in ScopeIds
  /\ scope[item[i].mask].stage # "unused"
  /\ scope[item[i].mask].parent = item[i].scope
  /\ scope[item[i].mask].owner = item[i].scope
  /\ item[i].state = "running" =>
       /\ scope[item[i].mask].stage = "open"
       /\ scope[item[i].mask].aborted => ~scope[item[i].mask].guest

\* close() looks at #releases no more, or not before the next cleanup.
Looked(s) == scope[s].stage \in {"drained", "closed"}

\* How far close() of its scope lets an item come.
ItemStage(i) ==
  LET s == item[i].scope IN
  /\ item[i].state = "owned" => scope[s].stage \in {"open", "scheduled"}
  /\ item[i].kind = "closer" /\ item[i].state = "running" =>
       scope[s].stage = "closers" /\ i \in waits[s]
  /\ InProgress(i) =>
       \/ scope[s].stage \in {"open", "scheduled", "closers", "children"}
       \/ scope[s].stage = "pending" /\ i \in waits[s]
  /\ item[i].state \in {"live", "registered"} => scope[s].stage # "closed"
  /\ item[i].state = "releasing" /\ Looked(s) => item[i].late
  /\ item[i].kind = "finalizer" /\ item[i].state \in {"running", "closing"} =>
       current[s] = i /\ MaskAgrees(i)
  /\ item[i].failed =>
       \/ scope[s].failed
       \/ scope[s].stage = "closers" /\ i \in waits[s]
       \/ scope[s].stage # "open" /\ i \in releases[s] /\ (Looked(s) => item[i].late)
       \/ i = current[s]

\* What close() waits for, and the children it leaves.
ScopeStage(s) ==
  /\ current[s] # NoItem <=> scope[s].stage = "finalizing"
  /\ current[s] # NoItem =>
       /\ item[current[s]].scope = s
       /\ item[current[s]].state \in {"releasing", "running", "closing", "over"}
       /\ item[current[s]].kind # "closer"
  /\ \A c \in Children(s) :
       \/ /\ Masked(c) /\ current[s] # NoItem /\ item[current[s]].mask = c
       \/ /\ ~Masked(c)
          /\ \/ scope[s].stage \in {"open", "scheduled", "closers"}
             \/ scope[s].stage = "children" /\ c \in waits[s]

StagesAgree ==
  /\ \A i \in ItemIds : item[i].scope # NoScope => ItemStage(i)
  /\ \A s \in ScopeIds : ScopeStage(s)

\* The finalizers that wait have a scope left for each.
Waiting == {i \in ItemIds : item[i].state = "registered"}
RoomAgrees == scopes + Cardinality(Waiting) <= MaxScopes

IInv ==
  /\ ScopesAgree /\ TreeAgrees /\ MarksAgree /\ ItemsAgree /\ OrderAgrees
  /\ StagesAgree /\ RoomAgrees

\* A step keeps the tree.
SameTree ==
  /\ scopes' = scopes
  /\ \A s \in ScopeIds :
       /\ scope'[s].parent = scope[s].parent /\ scope'[s].above = scope[s].above
       /\ scope'[s].owner = scope[s].owner
       /\ scope'[s].stage = "unused" <=> scope[s].stage = "unused"

-----------------------------------------------------------------------------
(* Scope tables.                                                           *)

(* Cancelling scopes marks what it reaches and changes nothing else.       *)
LEMMA AbortFields ==
  ASSUME NEW table \in [ScopeIds -> Scope], NEW S \in SUBSET ScopeIds
  PROVE  /\ Abort(table, S) \in [ScopeIds -> Scope]
         /\ \A d \in ScopeIds :
              /\ Abort(table, S)[d].parent = table[d].parent
              /\ Abort(table, S)[d].above = table[d].above
              /\ Abort(table, S)[d].owner = table[d].owner
              /\ Abort(table, S)[d].stage = table[d].stage
              /\ Abort(table, S)[d].guest = table[d].guest
              /\ Abort(table, S)[d].failed = table[d].failed
              /\ Abort(table, S)[d].aborted <=>
                   table[d].aborted \/ \E s \in S : d \in Reached(s)
<1> DEFINE r == Abort(table, S)
<1>1. ASSUME NEW d \in ScopeIds
      PROVE  /\ r[d] \in Scope
             /\ r[d].parent = table[d].parent /\ r[d].above = table[d].above
             /\ r[d].owner = table[d].owner /\ r[d].stage = table[d].stage
             /\ r[d].guest = table[d].guest /\ r[d].failed = table[d].failed
             /\ r[d].aborted <=> table[d].aborted \/ \E s \in S : d \in Reached(s)
  <2>1. table[d] \in Scope OBVIOUS
  <2>2. d \in UNION {Reached(s) : s \in S} <=> \E s \in S : d \in Reached(s)
    OBVIOUS
  <2>3. CASE d \in UNION {Reached(s) : s \in S}
    <3>1. r[d] = [table[d] EXCEPT !.aborted = TRUE] BY <2>3 DEF Abort
    <3> QED BY <2>1, <2>2, <2>3, <3>1 DEF Scope
  <2>4. CASE d \notin UNION {Reached(s) : s \in S}
    <3>1. r[d] = table[d] BY <2>4 DEF Abort
    <3> QED BY <2>1, <2>2, <2>4, <3>1
  <2> QED BY <2>3, <2>4
<1>2. r = [d \in ScopeIds |-> r[d]] BY DEF Abort
<1> HIDE DEF r
<1>3. r \in [ScopeIds -> Scope] BY <1>1, <1>2
<1> QED BY <1>1, <1>3 DEF r

(* A scope is within itself and reached by its own cancellation.           *)
LEMMA ReachesItself ==
  ASSUME TreeAgrees, NEW s \in ScopeIds
  PROVE  s \in Reached(s) /\ s \notin scope[s].above /\ IsWithin(s, s)
<1>1. s \notin scope[s].above BY DEF TreeAgrees, ScopeIds
<1>2. ASSUME NEW x \in Chain(s) PROVE s \notin scope[x].above
  <2>1. x \in ScopeIds /\ (x = s \/ scope[x].above \subseteq scope[s].above)
    BY BoundAssumption DEF Chain, TreeAgrees, ScopeIds
  <2> QED BY <1>1, <2>1
<1> QED BY <1>1, <1>2 DEF Reached, IsWithin

(* close() begins by cancelling the scope, so what is closing is cancelled.*)
LEMMA BeginCloseFields ==
  ASSUME TypeOK, TreeAgrees, NEW S \in SUBSET ScopeIds
  PROVE  /\ BeginClose(S) \in [ScopeIds -> Scope]
         /\ \A d \in ScopeIds :
              /\ BeginClose(S)[d].parent = scope[d].parent
              /\ BeginClose(S)[d].above = scope[d].above
              /\ BeginClose(S)[d].owner = scope[d].owner
              /\ BeginClose(S)[d].guest = scope[d].guest
              /\ BeginClose(S)[d].failed = scope[d].failed
              /\ d \in S => /\ BeginClose(S)[d].stage = "scheduled"
                            /\ BeginClose(S)[d].aborted
              /\ d \notin S => BeginClose(S)[d].stage = scope[d].stage
              /\ BeginClose(S)[d].aborted <=>
                   scope[d].aborted \/ \E s \in S : d \in Reached(s)
<1> DEFINE t == [d \in ScopeIds |-> IF d \in S
                   THEN [scope[d] EXCEPT !.stage = "scheduled"] ELSE scope[d]]
<1>1. ASSUME NEW d \in ScopeIds
      PROVE  /\ t[d] \in Scope
             /\ t[d].parent = scope[d].parent /\ t[d].above = scope[d].above
             /\ t[d].owner = scope[d].owner /\ t[d].guest = scope[d].guest
             /\ t[d].failed = scope[d].failed /\ t[d].aborted = scope[d].aborted
             /\ d \in S => t[d].stage = "scheduled"
             /\ d \notin S => t[d].stage = scope[d].stage
  <2>1. scope[d] \in Scope BY DEF TypeOK
  <2>2. CASE d \in S
    <3>1. t[d] = [scope[d] EXCEPT !.stage = "scheduled"] BY <2>2
    <3> QED BY <2>1, <2>2, <3>1 DEF Scope, Stage
  <2>3. CASE d \notin S BY <2>1, <2>3
  <2> QED BY <2>2, <2>3
<1>2. t = [d \in ScopeIds |-> t[d]] OBVIOUS
<1>3. BeginClose(S) = Abort(t, S) BY DEF BeginClose
<1> HIDE DEF t
<1>4. t \in [ScopeIds -> Scope] BY <1>1, <1>2
<1>5. \A d \in S : d \in Reached(d) BY ReachesItself
<1> QED BY <1>1, <1>3, <1>4, <1>5, AbortFields

(* A scope that goes on to a stage keeps everything else, and remembers    *)
(* that something failed.                                                  *)
LEMMA EnterFields ==
  ASSUME NEW table \in [ScopeIds -> Scope], NEW s \in ScopeIds,
         NEW stage \in Stage, NEW fails \in BOOLEAN
  PROVE  /\ Enter(table, s, stage, fails) \in [ScopeIds -> Scope]
         /\ \A d \in ScopeIds :
              /\ d # s => Enter(table, s, stage, fails)[d] = table[d]
              /\ Enter(table, s, stage, fails)[d].parent = table[d].parent
              /\ Enter(table, s, stage, fails)[d].above = table[d].above
              /\ Enter(table, s, stage, fails)[d].owner = table[d].owner
              /\ Enter(table, s, stage, fails)[d].guest = table[d].guest
              /\ Enter(table, s, stage, fails)[d].aborted = table[d].aborted
         /\ Enter(table, s, stage, fails)[s].stage = stage
         /\ Enter(table, s, stage, fails)[s].failed <=> table[s].failed \/ fails
<1>1. table[s] \in Scope OBVIOUS
<1>2. Enter(table, s, stage, fails) =
        [table EXCEPT ![s] = [table[s] EXCEPT !.stage = stage,
                                              !.failed = table[s].failed \/ fails]]
  BY DEF Enter
<1>3. PICK r : r = [table[s] EXCEPT !.stage = stage,
                                    !.failed = table[s].failed \/ fails]
  OBVIOUS
<1>4. /\ r \in Scope /\ r.stage = stage /\ (r.failed <=> table[s].failed \/ fails)
      /\ r.parent = table[s].parent /\ r.above = table[s].above
      /\ r.owner = table[s].owner /\ r.guest = table[s].guest
      /\ r.aborted = table[s].aborted
  BY <1>1, <1>3 DEF Scope
<1>5. Enter(table, s, stage, fails) = [table EXCEPT ![s] = r] BY <1>2, <1>3
<1> QED BY <1>4, <1>5

(* A trap marks a scope and everything below.                              *)
LEMMA ReclaimedFields ==
  ASSUME TypeOK, NEW s \in ScopeIds
  PROVE  /\ Reclaimed(s) \in [ScopeIds -> Scope]
         /\ \A d \in ScopeIds :
              /\ Reclaimed(s)[d].parent = scope[d].parent
              /\ Reclaimed(s)[d].above = scope[d].above
              /\ Reclaimed(s)[d].owner = scope[d].owner
              /\ Reclaimed(s)[d].stage = scope[d].stage
              /\ Reclaimed(s)[d].failed = scope[d].failed
              /\ IsWithin(d, s) => ~Reclaimed(s)[d].guest /\ Reclaimed(s)[d].aborted
              /\ ~IsWithin(d, s) => Reclaimed(s)[d] = scope[d]
<1> DEFINE r == Reclaimed(s)
<1>1. ASSUME NEW d \in ScopeIds
      PROVE  /\ r[d] \in Scope
             /\ r[d].parent = scope[d].parent /\ r[d].above = scope[d].above
             /\ r[d].owner = scope[d].owner /\ r[d].stage = scope[d].stage
             /\ r[d].failed = scope[d].failed
             /\ IsWithin(d, s) => ~r[d].guest /\ r[d].aborted
             /\ ~IsWithin(d, s) => r[d] = scope[d]
  <2>1. scope[d] \in Scope BY DEF TypeOK
  <2>2. CASE IsWithin(d, s)
    <3>1. r[d] = [scope[d] EXCEPT !.guest = FALSE, !.aborted = TRUE]
      BY <2>2 DEF Reclaimed
    <3> QED BY <2>1, <2>2, <3>1 DEF Scope
  <2>3. CASE ~IsWithin(d, s) BY <2>1, <2>3 DEF Reclaimed
  <2> QED BY <2>2, <2>3
<1>2. r = [d \in ScopeIds |-> r[d]] BY DEF Reclaimed
<1> HIDE DEF r
<1>3. r \in [ScopeIds -> Scope] BY <1>1, <1>2
<1> QED BY <1>1, <1>3 DEF r

\* The table with a new scope below p.
Grown(table, n, p, owner) == [table EXCEPT ![n] = NewScopeRecord(p, owner)]

(* A new scope changes no other.                                           *)
LEMMA GrownFields ==
  ASSUME TypeOK, NEW table \in [ScopeIds -> Scope], NEW p \in ScopeIds,
         NEW owner \in ScopeIds \union {NoScope}, NEW n \in ScopeIds
  PROVE  /\ Grown(table, n, p, owner) \in [ScopeIds -> Scope]
         /\ \A d \in ScopeIds : d # n => Grown(table, n, p, owner)[d] = table[d]
         /\ Grown(table, n, p, owner)[n] =
              [parent |-> p, owner |-> owner, stage |-> "open",
               above |-> scope[p].above \union {p},
               aborted |-> FALSE, guest |-> TRUE, failed |-> FALSE]
<1>1. p # NoScope BY DEF ScopeIds, NoScope
<1>2. PICK r : r = NewScopeRecord(p, owner) OBVIOUS
<1>3. r = [parent |-> p, owner |-> owner, stage |-> "open",
           above |-> scope[p].above \union {p},
           aborted |-> FALSE, guest |-> TRUE, failed |-> FALSE]
  BY <1>1, <1>2 DEF NewScopeRecord
<1>4. scope[p].above \in SUBSET ScopeIds /\ "open" \in Stage
  BY DEF TypeOK, Scope, Stage
<1>5. r \in Scope BY <1>3, <1>4 DEF Scope
<1>6. Grown(table, n, p, owner) = [table EXCEPT ![n] = r] BY <1>2 DEF Grown
<1>7. /\ Grown(table, n, p, owner) \in [ScopeIds -> Scope]
      /\ Grown(table, n, p, owner)[n] = r
      /\ \A d \in ScopeIds : d # n => Grown(table, n, p, owner)[d] = table[d]
  BY <1>5, <1>6
<1> QED BY <1>3, <1>7

\* p gets a new child n; close() of p may have gone on to a finalizer.
Grows(p, owner, n) ==
  /\ scope[p].stage \in {"open", "drained"} /\ scope[p].guest
  /\ owner \in {scope[p].owner, p}
  /\ n \in ScopeIds /\ n = scopes + 1 /\ scopes' = n
  /\ scope' \in [ScopeIds -> Scope]
  /\ \A d \in ScopeIds : d # n =>
       /\ scope'[d].parent = scope[d].parent /\ scope'[d].above = scope[d].above
       /\ scope'[d].owner = scope[d].owner /\ scope'[d].guest = scope[d].guest
       /\ scope'[d].aborted = scope[d].aborted /\ scope'[d].failed = scope[d].failed
       /\ \/ scope'[d].stage = scope[d].stage
          \/ d = p /\ scope[d].stage = "drained" /\ scope'[d].stage = "finalizing"
  /\ scope'[n].parent = p /\ scope'[n].owner = owner /\ scope'[n].stage = "open"
  /\ scope'[n].above = scope[p].above \union {p}
  /\ scope'[n].guest /\ ~scope'[n].aborted

-----------------------------------------------------------------------------
(* The tree.                                                               *)

(* Scopes are numbers, those above a scope are scopes.                     *)
LEMMA ScopeNumbers ==
  ASSUME TypeOK
  PROVE  /\ scopes \in ScopeIds /\ MaxScopes \in Nat /\ NoScope \notin ScopeIds
         /\ \A s \in ScopeIds : s \in Nat /\ s >= 1 /\ scope[s] \in Scope
         /\ \A s \in ScopeIds : scope[s].above \subseteq ScopeIds
<1>1. \A s \in ScopeIds : scope[s] \in Scope BY DEF TypeOK
<1> QED BY <1>1, BoundAssumption DEF TypeOK, ScopeIds, NoScope, Scope

(* Steps that keep the tree keep what is known of it.                      *)
LEMMA TreeStays ==
  ASSUME TypeOK, TreeAgrees, SameTree
  PROVE  TreeAgrees'
<1>1. \A s, a : IsWithin(s, a)' <=> a = s \/ a \in scope'[s].above
  BY DEF IsWithin
<1>2. \A s \in ScopeIds : scope[s].above \subseteq ScopeIds
  BY ScopeNumbers
<1> SUFFICES ASSUME NEW s \in ScopeIds
             PROVE /\ scope'[s].stage = "unused" <=> s > scopes'
                   /\ s > scopes' => scope'[s].parent = NoScope /\ scope'[s].above = {}
                   /\ scope'[s].above \subseteq 1..(s - 1)
                   /\ scope'[s].parent # NoScope => scope'[s].parent \in scope'[s].above
                   /\ scope'[s].owner # NoScope => scope'[s].owner \in scope'[s].above
                   /\ \A a \in scope'[s].above :
                        /\ scope'[a].above \subseteq scope'[s].above
                        /\ scope'[a].owner # NoScope =>
                             /\ scope'[s].owner # NoScope
                             /\ IsWithin(scope[s].owner, scope[a].owner)'
                        /\ \E c \in ScopeIds : scope'[c].parent = a /\ IsWithin(s, c)'
  BY DEF TreeAgrees
<1>3. /\ scope[s].stage = "unused" <=> s > scopes
      /\ s > scopes => scope[s].parent = NoScope /\ scope[s].above = {}
      /\ scope[s].above \subseteq 1..(s - 1)
      /\ scope[s].parent # NoScope => scope[s].parent \in scope[s].above
      /\ scope[s].owner # NoScope => scope[s].owner \in scope[s].above
  BY DEF TreeAgrees
<1>4. ASSUME NEW a \in scope'[s].above
      PROVE  /\ scope'[a].above \subseteq scope'[s].above
             /\ scope'[a].owner # NoScope =>
                  /\ scope'[s].owner # NoScope
                  /\ IsWithin(scope[s].owner, scope[a].owner)'
             /\ \E c \in ScopeIds : scope'[c].parent = a /\ IsWithin(s, c)'
  <2>1. a \in scope[s].above /\ a \in ScopeIds BY <1>2 DEF SameTree
  <2>2. /\ scope[a].above \subseteq scope[s].above
        /\ scope[a].owner # NoScope =>
             /\ scope[s].owner # NoScope
             /\ IsWithin(scope[s].owner, scope[a].owner)
        /\ \E c \in ScopeIds : scope[c].parent = a /\ IsWithin(s, c)
    BY <2>1 DEF TreeAgrees
  <2>3. scope[s].owner # NoScope => scope[s].owner \in ScopeIds BY <1>2, <1>3
  <2> QED BY <1>1, <2>1, <2>2, <2>3 DEF SameTree, IsWithin
<1> QED BY <1>3, <1>4 DEF SameTree

(* A new scope below p belongs to the owner of p, or to p itself when it   *)
(* is the scope of a finalizer of p.                                       *)
LEMMA TreeGrows ==
  ASSUME TypeOK, TreeAgrees, NEW p \in ScopeIds, NEW owner, NEW n \in ScopeIds,
         Grows(p, owner, n)
  PROVE  TreeAgrees'
<1>1. n = scopes + 1 /\ scopes' = scopes + 1 /\ owner \in {scope[p].owner, p}
      /\ scope[p].stage # "unused"
  BY DEF Grows
<1>2. /\ \A d \in ScopeIds : d \in Nat /\ d >= 1 /\ scope[d].above \subseteq ScopeIds
      /\ scopes \in Nat /\ NoScope \notin ScopeIds
  BY ScopeNumbers
<1>4. /\ \A d \in ScopeIds : d # n =>
           /\ scope'[d].parent = scope[d].parent /\ scope'[d].above = scope[d].above
           /\ scope'[d].owner = scope[d].owner
           /\ scope'[d].stage = "unused" <=> scope[d].stage = "unused"
      /\ scope'[n].parent = p /\ scope'[n].owner = owner
      /\ scope'[n].above = scope[p].above \union {p}
      /\ scope'[n].stage = "open"
  BY DEF Grows
<1>3. \A d \in ScopeIds : d # n => scope'[d].above = scope[d].above BY <1>4
<1>5. p <= scopes /\ p < n /\ p # n
  <2>1. ~(p > scopes) BY <1>1 DEF TreeAgrees
  <2>2. p \in Nat /\ scopes \in Nat BY <1>2
  <2> QED BY <1>1, <2>1, <2>2
<1>6. \A d \in ScopeIds : n \notin scope[d].above
  BY <1>1, <1>2 DEF TreeAgrees
<1>7. scope[n].parent = NoScope BY <1>1, <1>2 DEF TreeAgrees
<1>8. \A s, a : IsWithin(s, a)' <=> a = s \/ a \in scope'[s].above
  BY DEF IsWithin
<1>9. ASSUME NEW s \in ScopeIds, s # n, NEW a \in scope'[s].above
      PROVE  /\ scope'[a].above \subseteq scope'[s].above
             /\ scope'[a].owner # NoScope =>
                  /\ scope'[s].owner # NoScope
                  /\ IsWithin(scope[s].owner, scope[a].owner)'
             /\ \E c \in ScopeIds : scope'[c].parent = a /\ IsWithin(s, c)'
  <2>1. a \in scope[s].above /\ a \in ScopeIds /\ a # n
    BY <1>2, <1>4, <1>6, <1>9
  <2>2. /\ scope[a].above \subseteq scope[s].above
        /\ scope[a].owner # NoScope =>
             /\ scope[s].owner # NoScope
             /\ IsWithin(scope[s].owner, scope[a].owner)
        /\ \E c \in ScopeIds : scope[c].parent = a /\ IsWithin(s, c)
    BY <2>1 DEF TreeAgrees
  <2>3. scope[s].owner # NoScope => scope[s].owner \in scope[s].above
    BY DEF TreeAgrees
  <2>4. scope[s].owner # NoScope => scope[s].owner \in ScopeIds /\ scope[s].owner # n
    BY <1>2, <1>6, <2>3
  <2>5. \E c \in ScopeIds : scope'[c].parent = a /\ IsWithin(s, c)'
    BY <1>2, <1>4, <1>7, <1>8, <1>9, <2>1, <2>2 DEF IsWithin
  <2> QED BY <1>4, <1>8, <1>9, <2>1, <2>2, <2>4, <2>5 DEF IsWithin
<1>10. ASSUME NEW a \in scope'[n].above
       PROVE  /\ scope'[a].above \subseteq scope'[n].above
              /\ scope'[a].owner # NoScope =>
                   owner # NoScope /\ IsWithin(owner, scope[a].owner)'
              /\ \E c \in ScopeIds : scope'[c].parent = a /\ IsWithin(n, c)'
  <2>1. a \in ScopeIds /\ (a = p \/ a \in scope[p].above) /\ a # n
    BY <1>2, <1>4, <1>5, <1>6, <1>10
  <2>2. scope[a].above \subseteq scope[p].above BY <2>1 DEF TreeAgrees
  <2>3. scope[a].owner # NoScope => scope[a].owner \in scope[a].above
    BY <2>1 DEF TreeAgrees
  <2>4. scope[p].owner # NoScope => scope[p].owner \in scope[p].above
    BY DEF TreeAgrees
  <2>5. scope[a].owner # NoScope => owner # NoScope /\ IsWithin(owner, scope[a].owner)'
    <3> SUFFICES ASSUME scope[a].owner # NoScope
                 PROVE  owner # NoScope /\ IsWithin(owner, scope[a].owner)'
      OBVIOUS
    <3>1. scope[a].owner \in scope[p].above BY <2>2, <2>3
    <3>2. scope'[p].above = scope[p].above BY <1>3, <1>5
    <3>5. scope'[a].owner = scope[a].owner BY <1>4, <2>1
    <3>6. IsWithin(owner, scope[a].owner)' <=>
            scope'[a].owner = owner \/ scope'[a].owner \in scope'[owner].above
      BY DEF IsWithin
    <3>3. CASE owner = p
      <4>1. owner # NoScope BY <1>2, <3>3
      <4> QED BY <3>1, <3>2, <3>3, <3>5, <3>6, <4>1
    <3>4. CASE owner = scope[p].owner
      <4>1. scope[p].owner # NoScope /\ IsWithin(scope[p].owner, scope[a].owner)
        BY <2>1, <3>4 DEF TreeAgrees, IsWithin
      <4>2. owner \in ScopeIds /\ scope'[owner].above = scope[owner].above
        BY <1>2, <1>3, <1>6, <2>4, <3>4, <4>1
      <4> QED BY <3>4, <3>5, <3>6, <4>1, <4>2 DEF IsWithin
    <3> QED BY <1>1, <3>3, <3>4
  <2>6. \E c \in ScopeIds : scope'[c].parent = a /\ IsWithin(n, c)'
    <3>1. CASE a = p BY <1>4, <1>8, <3>1
    <3>2. CASE a # p
      <4>1. PICK c \in ScopeIds : scope[c].parent = a /\ IsWithin(p, c)
        BY <2>1, <3>2 DEF TreeAgrees
      <4>2. c # n BY <1>2, <1>7, <2>1, <4>1
      <4> QED BY <1>4, <1>8, <4>1, <4>2 DEF IsWithin
    <3> QED BY <3>1, <3>2
  <2> QED BY <1>4, <2>1, <2>2, <2>5, <2>6
<1>11. ASSUME NEW s \in ScopeIds
       PROVE  /\ scope'[s].stage = "unused" <=> s > scopes'
              /\ s > scopes' => scope'[s].parent = NoScope /\ scope'[s].above = {}
              /\ scope'[s].above \subseteq 1..(s - 1)
              /\ scope'[s].parent # NoScope => scope'[s].parent \in scope'[s].above
              /\ scope'[s].owner # NoScope => scope'[s].owner \in scope'[s].above
  <2>1. CASE s = n
    <3>1. scope[p].above \subseteq 1..(p - 1)
          /\ (scope[p].owner # NoScope => scope[p].owner \in scope[p].above)
      BY DEF TreeAgrees
    <3>2. scope'[n].above \subseteq 1..(n - 1) BY <1>2, <1>4, <1>5, <3>1
    <3> QED BY <1>1, <1>2, <1>4, <2>1, <3>1, <3>2
  <2>2. CASE s # n
    <3>1. /\ scope'[s].parent = scope[s].parent /\ scope'[s].above = scope[s].above
          /\ scope'[s].owner = scope[s].owner
          /\ scope'[s].stage = "unused" <=> scope[s].stage = "unused"
      BY <1>4, <2>2
    <3>4. s \in Nat /\ scopes \in Nat /\ n = scopes + 1 /\ scopes' = scopes + 1
      BY <1>1, <1>2
    <3>2. s > scopes' => s > scopes BY <3>4
    <3>3. s > scopes => s > scopes' BY <2>2, <3>4
    <3> QED BY <3>1, <3>2, <3>3 DEF TreeAgrees
  <2> QED BY <2>1, <2>2
<1> QED BY <1>4, <1>9, <1>10, <1>11 DEF TreeAgrees

-----------------------------------------------------------------------------
(* What a step does to the scopes.                                         *)

\* Scopes are cancelled or go on, and none ends.
Proceeds ==
  /\ scope' \in [ScopeIds -> Scope] /\ SameTree
  /\ \A s \in ScopeIds :
       /\ scope'[s].guest = scope[s].guest
       /\ scope[s].aborted => scope'[s].aborted
       /\ scope[s].failed => scope'[s].failed
       /\ scope'[s].stage \notin {"unused", "open"} => scope'[s].aborted
       /\ scope'[s].stage = "closed" <=> scope[s].stage = "closed"

(* The finalizers that wait are finitely many.                             *)
LEMMA WaitingFinite ==
  ASSUME TypeOK
  PROVE  /\ IsFiniteSet(ItemIds) /\ IsFiniteSet(Waiting)
         /\ Cardinality(Waiting) \in Nat
         /\ \A i \in Waiting : Cardinality(Waiting) >= 1
<1>1. IsFiniteSet(ItemIds) BY BoundAssumption, FS_Interval DEF ItemIds
<1>2. Waiting \subseteq ItemIds BY DEF Waiting
<1>3. IsFiniteSet(Waiting) BY <1>1, <1>2, FS_Subset
<1>4. Cardinality(Waiting) \in Nat BY <1>3, FS_CardinalityType
<1>5. Waiting # {} => Cardinality(Waiting) # 0 BY <1>3, FS_EmptySet
<1> QED BY <1>1, <1>3, <1>4, <1>5

(* There is room for the scope of a waiting finalizer.                     *)
LEMMA RoomForMask ==
  ASSUME TypeOK, RoomAgrees, Waiting # {} \/ RoomForScope
  PROVE  scopes + 1 \in ScopeIds
<1>1. scopes \in Nat /\ scopes >= 1 /\ MaxScopes \in Nat BY ScopeNumbers
<1>2. Cardinality(Waiting) \in Nat BY WaitingFinite
<1>3. CASE Waiting # {}
  <2>1. Cardinality(Waiting) >= 1 BY <1>3, WaitingFinite
  <2> QED BY <1>1, <1>2, <2>1 DEF RoomAgrees, ScopeIds
<1>4. CASE RoomForScope
  BY <1>1, <1>2, <1>4 DEF RoomForScope, Waiting, ScopeIds
<1> QED BY <1>3, <1>4

(* A stage of close() follows another.                                     *)
LEMMA EnterProceeds ==
  ASSUME TypeOK, TreeAgrees, MarksAgree, NEW s \in ScopeIds, NEW stage \in Stage,
         NEW fails \in BOOLEAN, stage \notin {"unused", "open", "closed"},
         scope[s].stage \notin {"unused", "open", "closed"},
         scopes' = scopes, scope' = Enter(scope, s, stage, fails)
  PROVE  Proceeds
<1>1. scope \in [ScopeIds -> Scope] BY DEF TypeOK
<1>2. /\ scope' \in [ScopeIds -> Scope]
      /\ \A d \in ScopeIds :
           /\ d # s => scope'[d] = scope[d]
           /\ scope'[d].parent = scope[d].parent /\ scope'[d].above = scope[d].above
           /\ scope'[d].owner = scope[d].owner /\ scope'[d].guest = scope[d].guest
           /\ scope'[d].aborted = scope[d].aborted
      /\ scope'[s].stage = stage /\ (scope[s].failed => scope'[s].failed)
  BY <1>1, EnterFields
<1> QED BY <1>2 DEF Proceeds, SameTree, MarksAgree

(* close() of open scopes begins.                                          *)
LEMMA BeginProceeds ==
  ASSUME TypeOK, TreeAgrees, MarksAgree, NEW S \in SUBSET ScopeIds,
         \A d \in S : scope[d].stage = "open",
         scopes' = scopes, scope' = BeginClose(S)
  PROVE  Proceeds
<1>1. /\ scope' \in [ScopeIds -> Scope]
      /\ \A d \in ScopeIds :
           /\ scope'[d].parent = scope[d].parent /\ scope'[d].above = scope[d].above
           /\ scope'[d].owner = scope[d].owner /\ scope'[d].guest = scope[d].guest
           /\ scope'[d].failed = scope[d].failed
           /\ d \in S => scope'[d].stage = "scheduled" /\ scope'[d].aborted
           /\ d \notin S => scope'[d].stage = scope[d].stage
           /\ scope[d].aborted => scope'[d].aborted
  BY BeginCloseFields
<1> QED BY <1>1 DEF Proceeds, SameTree, MarksAgree

(* What the loop of close() takes is the newest thing in the list.         *)
LEMMA FinalizesLast ==
  ASSUME IInv, NEW s \in ScopeIds, NEW i \in ItemIds, Finalizes(s, i)
  PROVE  /\ scope[s].stage = "drained" /\ current[s] = NoItem
         /\ cleanups[s] # <<>> /\ i = cleanups[s][Len(cleanups[s])]
         /\ Linked(cleanups[s], i) /\ item[i].scope = s
         /\ item[i].kind = "lease" => item[i].state = "live"
         /\ item[i].kind = "finalizer" => item[i].state = "registered"
         /\ current' = [current EXCEPT ![s] = i]
<1>1. /\ scope[s].stage = "drained" /\ cleanups[s] # <<>>
      /\ i = cleanups[s][Len(cleanups[s])] /\ current' = [current EXCEPT ![s] = i]
  BY DEF Finalizes, LastCleanup
<1>2. cleanups[s] \in Seq(ItemIds) BY DEF IInv, ScopesAgree, TypeOK
<1>3. Linked(cleanups[s], i) BY <1>1, <1>2 DEF Linked
<1>4. item[i].scope = s /\ item[i].state \in {"live", "registered"}
  BY <1>3 DEF IInv, ScopesAgree, ListsAgree
<1>5. /\ item[i].kind = "lease" => item[i].state = "live"
      /\ item[i].kind = "finalizer" => item[i].state = "registered"
  BY <1>4 DEF IInv, ItemsAgree, ItemAgrees
<1>6. current[s] = NoItem BY <1>1 DEF IInv, StagesAgree, ScopeStage
<1> QED BY <1>1, <1>3, <1>4, <1>5, <1>6

(* A task makes a child scope.                                             *)
LEMMA NewScopeGrows ==
  ASSUME IInv, NEW s \in ScopeIds, NewScope(s)
  PROVE  /\ scopes + 1 \in ScopeIds /\ Grows(s, scope[s].owner, scopes + 1)
         /\ \A d \in ScopeIds : d # scopes + 1 => scope'[d] = scope[d]
<1> USE DEF IInv, ScopesAgree
<1>1. /\ scope[s].stage = "open" /\ ~scope[s].aborted
      /\ RoomForScope /\ scopes' = scopes + 1
      /\ scope' = Grown(scope, scopes + 1, s, scope[s].owner)
  BY DEF NewScope, AssertOpen, Grown
<1>2. scope[s].guest BY <1>1 DEF MarksAgree
<1>3. PICK n \in ScopeIds : n = scopes + 1 BY <1>1, RoomForMask
<1>4. scope[s].owner \in ScopeIds \union {NoScope} /\ scope \in [ScopeIds -> Scope]
  BY DEF TypeOK, Scope
<1>5. scope' = Grown(scope, n, s, scope[s].owner) BY <1>1, <1>3
<1>6. /\ scope' \in [ScopeIds -> Scope]
      /\ \A d \in ScopeIds : d # n => scope'[d] = scope[d]
      /\ scope'[n] = [parent |-> s, owner |-> scope[s].owner, stage |-> "open",
                      above |-> scope[s].above \union {s},
                      aborted |-> FALSE, guest |-> TRUE, failed |-> FALSE]
  BY <1>4, <1>5, GrownFields
<1>7. Grows(s, scope[s].owner, n) BY <1>1, <1>2, <1>3, <1>6 DEF Grows
<1> QED BY <1>3, <1>6, <1>7

(* The loop of close() makes the masked scope of a finalizer.              *)
LEMMA FinalizeGuestGrows ==
  ASSUME IInv, NEW s \in ScopeIds, FinalizeGuest(s)
  PROVE  /\ scopes + 1 \in ScopeIds /\ Grows(s, s, scopes + 1)
         /\ scope[s].stage = "drained" /\ scope'[s].stage = "finalizing"
         /\ s # scopes + 1
         /\ \A d \in ScopeIds : d \notin {s, scopes + 1} => scope'[d] = scope[d]
<1> USE DEF IInv, ScopesAgree
<1>1. PICK i \in ItemIds :
        /\ Finalizes(s, i) /\ item[i].kind = "finalizer" /\ scope[s].guest
        /\ scopes' = scopes + 1
        /\ scope' = Grown(Enter(scope, s, "finalizing", FALSE), scopes + 1, s, s)
  BY DEF FinalizeGuest, Grown
<1>2. scope[s].stage = "drained" /\ item[i].state = "registered"
  BY <1>1, FinalizesLast
<1>3. i \in Waiting BY <1>2 DEF Waiting
<1>4. PICK n \in ScopeIds : n = scopes + 1 BY <1>3, RoomForMask
<1>5. "finalizing" \in Stage /\ scope \in [ScopeIds -> Scope]
  BY DEF Stage, TypeOK
<1> PICK f \in BOOLEAN : f = FALSE BY FALSE \in BOOLEAN
<1>6. PICK t : t = Enter(scope, s, "finalizing", f) OBVIOUS
<1>7. /\ t \in [ScopeIds -> Scope]
      /\ \A d \in ScopeIds :
           /\ d # s => t[d] = scope[d]
           /\ t[d].parent = scope[d].parent /\ t[d].above = scope[d].above
           /\ t[d].owner = scope[d].owner /\ t[d].guest = scope[d].guest
           /\ t[d].aborted = scope[d].aborted
      /\ t[s].stage = "finalizing" /\ (t[s].failed <=> scope[s].failed)
  BY <1>5, <1>6, EnterFields
<1>8. scope' = Grown(t, n, s, s) BY <1>1, <1>4, <1>6
<1>9. /\ scope' \in [ScopeIds -> Scope]
      /\ \A d \in ScopeIds : d # n => scope'[d] = t[d]
      /\ scope'[n] = [parent |-> s, owner |-> s, stage |-> "open",
                      above |-> scope[s].above \union {s},
                      aborted |-> FALSE, guest |-> TRUE, failed |-> FALSE]
  BY <1>7, <1>8, GrownFields
<1>10. s # n
  <2>1. scopes \in Nat BY ScopeNumbers
  <2>2. scope[n].stage = "unused" BY <1>4, <2>1 DEF TreeAgrees
  <2> QED BY <1>2, <2>2
<1>11. t[s].failed = scope[s].failed
  <2>1. t[s] \in Scope /\ scope[s] \in Scope BY <1>5, <1>7
  <2>2. t[s].failed \in BOOLEAN /\ scope[s].failed \in BOOLEAN BY <2>1 DEF Scope
  <2> QED BY <1>7, <2>2
<1>12. ASSUME NEW d \in ScopeIds, d # n
       PROVE  /\ scope'[d].parent = scope[d].parent /\ scope'[d].above = scope[d].above
              /\ scope'[d].owner = scope[d].owner /\ scope'[d].guest = scope[d].guest
              /\ scope'[d].aborted = scope[d].aborted /\ scope'[d].failed = scope[d].failed
              /\ \/ scope'[d].stage = scope[d].stage
                 \/ d = s /\ scope[d].stage = "drained" /\ scope'[d].stage = "finalizing"
  BY <1>2, <1>7, <1>9, <1>11, <1>12
<1>13. /\ scope'[n].parent = s /\ scope'[n].owner = s /\ scope'[n].stage = "open"
       /\ scope'[n].above = scope[s].above \union {s}
       /\ scope'[n].guest /\ ~scope'[n].aborted
  BY <1>9
<1>15. scopes' = n /\ scope[s].guest BY <1>1, <1>4
<1>16. \A d \in ScopeIds : d # n =>
         /\ scope'[d].parent = scope[d].parent /\ scope'[d].above = scope[d].above
         /\ scope'[d].owner = scope[d].owner /\ scope'[d].guest = scope[d].guest
         /\ scope'[d].aborted = scope[d].aborted /\ scope'[d].failed = scope[d].failed
         /\ \/ scope'[d].stage = scope[d].stage
            \/ d = s /\ scope[d].stage = "drained" /\ scope'[d].stage = "finalizing"
  BY <1>12
<1>14. Grows(s, s, n) BY <1>2, <1>4, <1>9, <1>13, <1>15, <1>16 DEF Grows
<1> QED BY <1>2, <1>4, <1>7, <1>9, <1>10, <1>14

(* Each step adds a scope, cancels scopes or brings some further, reclaims *)
(* after a trap, ends a scope, or leaves the scopes alone.                 *)
LEMMA ScopeSteps ==
  ASSUME IInv, Next
  PROVE  \/ UNCHANGED <<scopes, scope>>
         \/ \E p \in ScopeIds, owner \in ScopeIds \union {NoScope}, n \in ScopeIds :
              Grows(p, owner, n)
         \/ Proceeds
         \/ \E s \in ScopeIds : Trap(s) \/ Closed(s)
<1> USE DEF IInv, ScopesAgree
<1> DEFINE Goal == \/ UNCHANGED <<scopes, scope>>
                   \/ \E p \in ScopeIds, owner \in ScopeIds \union {NoScope},
                        n \in ScopeIds : Grows(p, owner, n)
                   \/ Proceeds
                   \/ \E s \in ScopeIds : Trap(s) \/ Closed(s)
<1>0. /\ \A s \in ScopeIds : scope[s].owner \in ScopeIds \union {NoScope}
      /\ \A s \in ScopeIds : scope[s].guest \in BOOLEAN
  BY DEF TypeOK, Scope
<1>1. ASSUME NEW s \in ScopeIds, NewScope(s) PROVE Goal
  BY <1>0, <1>1, NewScopeGrows
<1>2. ASSUME NEW s \in ScopeIds, FinalizeGuest(s) PROVE Goal
  BY <1>2, FinalizeGuestGrows
<1>3. ASSUME NEW s \in ScopeIds, Cancel(s) PROVE Goal
  <2>1. scopes' = scopes /\ scope' = Abort(scope, {s}) BY <1>3 DEF Cancel
  <2>2. scope \in [ScopeIds -> Scope] /\ {s} \in SUBSET ScopeIds BY DEF TypeOK
  <2>3. /\ scope' \in [ScopeIds -> Scope]
        /\ \A d \in ScopeIds :
             /\ scope'[d].parent = scope[d].parent /\ scope'[d].above = scope[d].above
             /\ scope'[d].owner = scope[d].owner /\ scope'[d].stage = scope[d].stage
             /\ scope'[d].guest = scope[d].guest
             /\ scope'[d].failed = scope[d].failed
             /\ scope[d].aborted => scope'[d].aborted
    BY <2>1, <2>2, AbortFields
  <2>4. Proceeds BY <2>1, <2>3 DEF Proceeds, SameTree, MarksAgree
  <2> QED BY <2>4
<1>4. ASSUME NEW S \in SUBSET ScopeIds, \A d \in S : scope[d].stage = "open",
             scopes' = scopes, scope' = BeginClose(S)
      PROVE  Goal
  BY <1>4, BeginProceeds
<1>5. ASSUME NEW s \in ScopeIds, Close(s) PROVE Goal
  BY <1>4, <1>5 DEF Close
<1>6. ASSUME NEW i \in ItemIds, NEW fails, FinalizerEnds(i, fails) PROVE Goal
  <2>1. /\ item[i].kind = "finalizer" /\ item[i].state = "running"
        /\ scopes' = scopes /\ scope' = BeginClose({item[i].mask})
    BY <1>6 DEF FinalizerEnds
  <2>2. item[i].scope # NoScope
    BY <2>1 DEF ItemsAgree, ItemAgrees, NoItemRecord, TypeOK, ItemIds, NoScope
  <2>3. item[i].mask \in ScopeIds /\ scope[item[i].mask].stage = "open"
    BY <2>1, <2>2 DEF StagesAgree, ItemStage, MaskAgrees
  <2>4. {item[i].mask} \in SUBSET ScopeIds
        /\ \A d \in {item[i].mask} : scope[d].stage = "open"
    BY <2>3
  <2> QED BY <1>4, <2>1, <2>4
<1>7. ASSUME NEW s \in ScopeIds, NEW stage \in Stage, NEW fails \in BOOLEAN,
             stage \notin {"unused", "open", "closed"},
             scope[s].stage \notin {"unused", "open", "closed"},
             scopes' = scopes, scope' = Enter(scope, s, stage, fails)
      PROVE  Goal
  BY <1>7, EnterProceeds
<1>8. ASSUME NEW s \in ScopeIds, CloseChildren(s) PROVE Goal
  <2> DEFINE S == {c \in Children(s) : scope[c].stage = "open"}
  <2>1. /\ scope[s].stage = "closers" /\ scopes' = scopes
        /\ scope' = Enter(BeginClose(S), s, "children", Failures(waits[s]))
    BY <1>8 DEF CloseChildren
  <2>2. S \in SUBSET ScopeIds /\ s \notin S /\ (\A c \in S : scope[c].stage = "open")
    BY <2>1 DEF Children
  <2> HIDE DEF S
  <2>3. PICK t : t = BeginClose(S) OBVIOUS
  <2>4. /\ t \in [ScopeIds -> Scope]
        /\ \A d \in ScopeIds :
             /\ t[d].parent = scope[d].parent /\ t[d].above = scope[d].above
             /\ t[d].owner = scope[d].owner /\ t[d].guest = scope[d].guest
             /\ t[d].failed = scope[d].failed
             /\ d \in S => t[d].stage = "scheduled" /\ t[d].aborted
             /\ d \notin S => t[d].stage = scope[d].stage
             /\ scope[d].aborted => t[d].aborted
    BY <2>2, <2>3, BeginCloseFields
  <2>5. "children" \in Stage /\ Failures(waits[s]) \in BOOLEAN
    BY DEF Stage, Failures
  <2>6. PICK f \in BOOLEAN : f = Failures(waits[s]) BY <2>5
  <2>7. scope' = Enter(t, s, "children", f) BY <2>1, <2>3, <2>6
  <2>8. /\ scope' \in [ScopeIds -> Scope]
        /\ \A d \in ScopeIds :
             /\ d # s => scope'[d] = t[d]
             /\ scope'[d].parent = t[d].parent /\ scope'[d].above = t[d].above
             /\ scope'[d].owner = t[d].owner /\ scope'[d].guest = t[d].guest
             /\ scope'[d].aborted = t[d].aborted
        /\ scope'[s].stage = "children" /\ (t[s].failed => scope'[s].failed)
    BY <2>4, <2>5, <2>7, EnterFields
  <2>9. Proceeds
    BY <2>1, <2>2, <2>4, <2>8 DEF Proceeds, SameTree, MarksAgree
  <2> QED BY <2>9
<1>9. ASSUME NEW s \in ScopeIds,
             \/ RunClosers(s) \/ AwaitPending(s) \/ AwaitReleases(s)
             \/ FinalizeLease(s) \/ SkipGuest(s) \/ Finalized(s) \/ Drains(s)
      PROVE  Goal
  <2>1. "closers" \in Stage /\ "pending" \in Stage /\ "releases" \in Stage
        /\ "drained" \in Stage /\ "finalizing" \in Stage /\ FALSE \in BOOLEAN
    BY DEF Stage
  <2>2. CASE RunClosers(s) BY <1>7, <2>1, <2>2 DEF RunClosers
  <2>3. CASE AwaitPending(s)
    <3>1. PICK f \in BOOLEAN : f = (\E c \in waits[s] : scope[c].failed) OBVIOUS
    <3> QED BY <1>7, <2>1, <2>3, <3>1 DEF AwaitPending
  <2>4. CASE AwaitReleases(s) BY <1>7, <2>1, <2>4 DEF AwaitReleases
  <2>5. CASE FinalizeLease(s) \/ SkipGuest(s)
    BY <1>7, <2>1, <2>5 DEF FinalizeLease, SkipGuest, Finalizes
  <2>6. CASE Finalized(s)
    <3>1. current[s] \in ItemIds /\ scope[s].stage = "finalizing"
      BY <2>6 DEF Finalized, TypeOK, StagesAgree, ScopeStage
    <3>2. item[current[s]].failed \in BOOLEAN BY <3>1 DEF TypeOK, Item
    <3> QED BY <1>7, <2>1, <2>6, <3>1, <3>2 DEF Finalized
  <2>7. CASE Drains(s)
    <3>1. PICK f \in BOOLEAN : f = Collected(s) BY DEF Collected, Failures
    <3> QED BY <1>7, <2>1, <2>7, <3>1 DEF Drains
  <2> QED BY <1>9, <2>2, <2>3, <2>4, <2>5, <2>6, <2>7
<1>10. ASSUME NEW s \in ScopeIds,
              \/ Grant(s) \/ OnExit(s) \/ Own(s) \/ Acquire(s)
       PROVE  Goal
  BY <1>10 DEF Grant, OnExit, Own, Acquire
<1>11. ASSUME NEW i \in ItemIds,
              \/ Disown(i) \/ Release(i) \/ AbortAcquire(i)
              \/ \E registers \in BOOLEAN : Created(i, registers)
              \/ Creates(i) \/ AcquireFails(i) \/ MaskCloses(i)
              \/ \E fails \in Fails : Disposed(i, fails) \/ CloserEnds(i, fails)
       PROVE  Goal
  BY <1>11 DEF Disown, Release, AbortAcquire, Created, Creates, AcquireFails,
               MaskCloses, Disposed, CloserEnds
<1>12. ASSUME NEW s \in ScopeIds, Trap(s) \/ Closed(s) PROVE Goal BY <1>12
<1> HIDE DEF Goal
<1>13. Goal
  BY <1>1, <1>2, <1>3, <1>5, <1>6, <1>8, <1>9, <1>10, <1>11, <1>12
  DEF Next, Closing, Ending
<1> QED BY <1>13 DEF Goal

(* When the loop of close() takes another cleanup, everything below the     *)
(* scope has been closed.                                                  *)
LEMMA BelowClosed ==
  ASSUME TypeOK, TreeAgrees, MarksAgree, StagesAgree, NEW s \in ScopeIds,
         scope[s].stage = "drained", NEW d \in ScopeIds, s \in scope[d].above
  PROVE  scope[d].stage = "closed"
<1>1. PICK c \in ScopeIds : scope[c].parent = s /\ IsWithin(d, c)
  BY DEF TreeAgrees
<1>2. c \notin Children(s) BY DEF StagesAgree, ScopeStage
<1>3. scope[c].stage = "closed" BY <1>1, <1>2 DEF Children
<1> QED BY <1>1, <1>3 DEF IsWithin, MarksAgree

(* Every step keeps the tree, and the type of the scopes.                  *)
LEMMA NextTree ==
  ASSUME IInv, Next
  PROVE  /\ TreeAgrees' /\ scopes' \in ScopeIds /\ scope' \in [ScopeIds -> Scope]
         /\ scopes <= scopes'
<1> USE DEF IInv, ScopesAgree
<1>1. scopes \in ScopeIds /\ scopes <= scopes /\ scope \in [ScopeIds -> Scope]
  BY ScopeNumbers DEF TypeOK
<1>2. CASE UNCHANGED <<scopes, scope>>
  <2>1. SameTree BY <1>2 DEF SameTree
  <2> QED BY <1>1, <1>2, <2>1, TreeStays
<1>3. ASSUME NEW p \in ScopeIds, NEW owner \in ScopeIds \union {NoScope},
             NEW n \in ScopeIds, Grows(p, owner, n)
      PROVE  /\ TreeAgrees' /\ scopes' \in ScopeIds
             /\ scope' \in [ScopeIds -> Scope] /\ scopes <= scopes'
  <2>1. TreeAgrees' BY <1>3, TreeGrows
  <2>2. n = scopes + 1 /\ scopes' = n /\ scope' \in [ScopeIds -> Scope]
    BY <1>3 DEF Grows
  <2>3. scopes \in Nat BY ScopeNumbers
  <2> QED BY <2>1, <2>2, <2>3
<1>4. CASE Proceeds BY <1>1, <1>4, TreeStays DEF Proceeds, SameTree
<1>5. ASSUME NEW s \in ScopeIds, Trap(s)
      PROVE  scopes' = scopes /\ scope' \in [ScopeIds -> Scope] /\ SameTree
  <2>1. scopes' = scopes /\ scope' = Reclaimed(s) BY <1>5 DEF Trap
  <2> QED BY <2>1, ReclaimedFields DEF SameTree
<1>6. ASSUME NEW s \in ScopeIds, Closed(s)
      PROVE  scopes' = scopes /\ scope' \in [ScopeIds -> Scope] /\ SameTree
  <2>0. PICK f \in BOOLEAN : ~f BY FALSE \in BOOLEAN
  <2>1. /\ scopes' = scopes /\ scope' = Enter(scope, s, "closed", f)
        /\ scope[s].stage = "drained" /\ "closed" \in Stage
    BY <1>6, <2>0 DEF Closed, Stage
  <2>2. /\ scope' \in [ScopeIds -> Scope]
        /\ \A d \in ScopeIds :
             /\ d # s => scope'[d] = scope[d]
             /\ scope'[d].parent = scope[d].parent /\ scope'[d].above = scope[d].above
             /\ scope'[d].owner = scope[d].owner
        /\ scope'[s].stage = "closed"
    BY <1>1, <2>1, EnterFields
  <2> QED BY <2>1, <2>2 DEF SameTree
<1> QED BY <1>1, <1>2, <1>3, <1>4, <1>5, <1>6, ScopeSteps, TreeStays

(* Every step keeps the marks: what is below a reclaimed scope is reclaimed*)
(* with it, and nothing is made there.                                     *)
LEMMA NextMarks ==
  ASSUME IInv, Next
  PROVE  MarksAgree'
<1> USE DEF IInv, ScopesAgree
<1>0. /\ \A s \in ScopeIds : scope[s].above \subseteq ScopeIds
      /\ scope \in [ScopeIds -> Scope]
  BY ScopeNumbers DEF TypeOK
<1>1. CASE UNCHANGED <<scopes, scope>> BY <1>1 DEF MarksAgree
<1>2. ASSUME NEW p \in ScopeIds, NEW owner \in ScopeIds \union {NoScope},
             NEW n \in ScopeIds, Grows(p, owner, n)
      PROVE  MarksAgree'
  <2>2. /\ scope[p].stage \in {"open", "drained"} /\ scope[p].guest
        /\ n = scopes + 1
    BY <1>2 DEF Grows
  <2>3. \A d \in ScopeIds : d # n =>
          /\ scope'[d].above = scope[d].above /\ scope'[d].guest = scope[d].guest
          /\ scope'[d].aborted = scope[d].aborted
          /\ \/ scope'[d].stage = scope[d].stage
             \/ scope[d].stage = "drained" /\ scope'[d].stage = "finalizing"
    BY <1>2 DEF Grows
  <2>4. /\ scope'[n].stage = "open" /\ scope'[n].guest
        /\ scope'[n].above = scope[p].above \union {p}
    BY <1>2 DEF Grows
  <2>5. \A d \in ScopeIds : n \notin scope[d].above
    <3>1. scopes \in Nat /\ \A d \in ScopeIds : d \in Nat BY ScopeNumbers
    <3>2. scope[n].stage = "unused" BY <2>2, <3>1 DEF TreeAgrees
    <3> QED BY <2>2, <3>1, <3>2 DEF TreeAgrees
  <2>6. p # n
    <3>1. scopes \in Nat BY ScopeNumbers
    <3>2. scope[n].stage = "unused" BY <2>2, <3>1 DEF TreeAgrees
    <3> QED BY <2>2, <3>2
  <2>7. \A a \in scope[p].above : scope[a].guest /\ scope[a].stage # "closed"
    BY <2>2 DEF MarksAgree
  <2>8. \A a \in scope'[n].above :
          a \in ScopeIds /\ a # n /\ scope'[a].guest /\ scope'[a].stage # "closed"
    BY <1>0, <2>2, <2>3, <2>4, <2>5, <2>6, <2>7
  <2>9. ASSUME NEW s \in ScopeIds, s # n
        PROVE  /\ ~scope'[s].guest => scope'[s].aborted
               /\ scope'[s].stage \notin {"unused", "open"} => scope'[s].aborted
               /\ \A a \in scope'[s].above :
                    /\ ~scope'[a].guest => ~scope'[s].guest
                    /\ scope'[a].stage = "closed" => scope'[s].stage = "closed"
    <3>1. \A a \in scope[s].above :
            /\ scope'[a].guest = scope[a].guest
            /\ scope'[a].stage = "closed" => scope[a].stage = "closed"
      BY <1>0, <2>3, <2>5
    <3> QED BY <2>3, <2>9, <3>1 DEF MarksAgree
  <2> QED BY <2>4, <2>8, <2>9 DEF MarksAgree
<1>3. CASE Proceeds
  BY <1>0, <1>3 DEF Proceeds, SameTree, MarksAgree
<1>4. ASSUME NEW s \in ScopeIds, Trap(s) PROVE MarksAgree'
  <2>1. /\ scope' = Reclaimed(s) /\ scope[s].stage # "unused" BY <1>4 DEF Trap
  <2>2. \A d \in ScopeIds :
          /\ scope'[d].above = scope[d].above /\ scope'[d].stage = scope[d].stage
          /\ IsWithin(d, s) => ~scope'[d].guest /\ scope'[d].aborted
          /\ ~IsWithin(d, s) => scope'[d] = scope[d]
    BY <2>1, ReclaimedFields
  <2>3. \A d \in ScopeIds : \A a \in scope[d].above :
          a \in ScopeIds /\ (IsWithin(a, s) => IsWithin(d, s))
    BY <1>0 DEF TreeAgrees, IsWithin
  <2>4. \A d \in ScopeIds : \A a \in scope[d].above :
          ~scope'[a].guest => ~scope'[d].guest
    BY <2>2, <2>3 DEF MarksAgree
  <2>5. \A d \in ScopeIds : ~scope'[d].guest => scope'[d].aborted
    BY <2>2 DEF MarksAgree
  <2>6. \A d \in ScopeIds : scope'[d].stage \notin {"unused", "open"} =>
                              scope'[d].aborted
    BY <2>2 DEF MarksAgree
  <2>7. \A d \in ScopeIds : \A a \in scope[d].above :
          scope'[a].stage = "closed" => scope'[d].stage = "closed"
    BY <2>2, <2>3 DEF MarksAgree
  <2> QED BY <2>2, <2>4, <2>5, <2>6, <2>7 DEF MarksAgree
<1>5. ASSUME NEW s \in ScopeIds, Closed(s) PROVE MarksAgree'
  <2>0. PICK f \in BOOLEAN : ~f BY FALSE \in BOOLEAN
  <2>1. /\ scope' = Enter(scope, s, "closed", f)
        /\ scope[s].stage = "drained" /\ "closed" \in Stage
    BY <1>5, <2>0 DEF Closed, Stage
  <2>2. /\ \A d \in ScopeIds :
             /\ d # s => scope'[d] = scope[d]
             /\ scope'[d].above = scope[d].above
             /\ scope'[d].guest = scope[d].guest
             /\ scope'[d].aborted = scope[d].aborted
        /\ scope'[s].stage = "closed"
    BY <1>0, <2>1, EnterFields
  <2>3. \A d \in ScopeIds : s \in scope[d].above => scope[d].stage = "closed"
    BY <2>1, BelowClosed
  <2>4. \A d \in ScopeIds : scope'[d].stage \notin {"unused", "open"} =>
                              scope'[d].aborted
    BY <2>1, <2>2 DEF MarksAgree
  <2>5. ASSUME NEW d \in ScopeIds, NEW a \in scope[d].above
        PROVE  /\ ~scope'[a].guest => ~scope'[d].guest
               /\ scope'[a].stage = "closed" => scope'[d].stage = "closed"
    <3>1. a \in ScopeIds BY <1>0
    <3>2. a # s => scope'[a] = scope[a] BY <2>2, <3>1
    <3>3. d # s => scope'[d] = scope[d] BY <2>2
    <3> QED BY <2>2, <2>3, <3>1, <3>2, <3>3 DEF MarksAgree
  <2> QED BY <2>2, <2>4, <2>5 DEF MarksAgree
<1> QED BY <1>1, <1>2, <1>3, <1>4, <1>5, ScopeSteps

-----------------------------------------------------------------------------
(* Item tables.                                                            *)

\* Only item i changes, and neither its kind nor its scope.
OneItem(i) ==
  /\ item' \in [ItemIds -> Item]
  /\ \A k \in ItemIds : k # i => item'[k] = item[k]
  /\ item'[i].kind = item[i].kind /\ item'[i].scope = item[i].scope

(* The fields of an item.                                                  *)
LEMMA ItemTypes ==
  ASSUME TypeOK
  PROVE  /\ item \in [ItemIds -> Item] /\ items \in 0..MaxItems /\ MaxItems \in Nat
         /\ NoItem \notin ItemIds
         /\ \A i \in ItemIds :
              /\ i \in Nat /\ i >= 1 /\ item[i] \in Item
              /\ item[i].scope \in ScopeIds \union {NoScope}
              /\ item[i].mask \in ScopeIds \union {NoScope}
              /\ item[i].failed \in BOOLEAN /\ item[i].exit \in BOOLEAN
              /\ item[i].late \in BOOLEAN /\ item[i].older \subseteq ItemIds
BY BoundAssumption DEF TypeOK, Item, ItemIds, NoItem

(* An item that ends keeps its kind, its scope and its failure.            *)
LEMMA EndedFields ==
  ASSUME TypeOK, NEW i \in ItemIds, NEW fails \in BOOLEAN, item' = Ended(i, fails)
  PROVE  /\ OneItem(i) /\ item'[i].state = "over" /\ item'[i].older = {}
         /\ item'[i].mask = NoScope /\ (item'[i].failed <=> fails)
         /\ item'[i].exit = item[i].exit /\ item'[i].late = item[i].late
<1>1. item \in [ItemIds -> Item] /\ item[i] \in Item BY ItemTypes
<1>2. PICK r : r = [item[i] EXCEPT !.state = "over", !.failed = fails, !.older = {},
                                   !.mask = NoScope, !.aborted = FALSE]
  OBVIOUS
<1>3. item' = [item EXCEPT ![i] = r] BY <1>2 DEF Ended
<1>4. /\ r \in Item /\ r.kind = item[i].kind /\ r.scope = item[i].scope
      /\ r.state = "over" /\ r.older = {} /\ r.mask = NoScope
      /\ (r.failed <=> fails) /\ r.exit = item[i].exit
      /\ r.late = item[i].late
  BY <1>1, <1>2 DEF Item
<1>5. item' \in [ItemIds -> Item] /\ item'[i] = r
      /\ \A k \in ItemIds : k # i => item'[k] = item[k]
  BY <1>1, <1>3, <1>4
<1> QED BY <1>4, <1>5 DEF OneItem

(* A finalizer that is dropped after a trap ends as if close() had run it. *)
LEMMA SkippedFields ==
  ASSUME TypeOK, NEW i \in ItemIds, item' = [Ended(i, FALSE) EXCEPT ![i].exit = TRUE]
  PROVE  /\ OneItem(i) /\ item'[i].state = "over" /\ item'[i].older = {}
         /\ item'[i].mask = NoScope /\ ~item'[i].failed
         /\ item'[i].late = item[i].late
<1>1. item \in [ItemIds -> Item] /\ item[i] \in Item BY ItemTypes
<1>2. PICK e : e = [item[i] EXCEPT !.state = "over", !.failed = FALSE, !.older = {},
                                   !.mask = NoScope, !.aborted = FALSE]
  OBVIOUS
<1>3. Ended(i, FALSE) = [item EXCEPT ![i] = e] BY <1>2 DEF Ended
<1>4. /\ e \in Item /\ e.kind = item[i].kind /\ e.scope = item[i].scope
      /\ e.state = "over" /\ e.older = {} /\ e.mask = NoScope /\ ~e.failed
      /\ e.late = item[i].late
  BY <1>1, <1>2 DEF Item
<1>5. PICK r : r = [e EXCEPT !.exit = TRUE] OBVIOUS
<1>6. /\ r \in Item /\ r.kind = item[i].kind /\ r.scope = item[i].scope
      /\ r.state = "over" /\ r.older = {} /\ r.mask = NoScope /\ ~r.failed
      /\ r.late = item[i].late
  BY <1>4, <1>5 DEF Item
<1>7. PICK t : t = Ended(i, FALSE) OBVIOUS
<1>8. t \in [ItemIds -> Item] /\ t[i] = e
      /\ \A k \in ItemIds : k # i => t[k] = item[k]
  BY <1>1, <1>3, <1>4, <1>7
<1>9. item' = [t EXCEPT ![i] = r] BY <1>5, <1>7, <1>8
<1>10. item' \in [ItemIds -> Item] /\ item'[i] = r
       /\ \A k \in ItemIds : k # i => item'[k] = item[k]
  BY <1>6, <1>8, <1>9
<1> QED BY <1>6, <1>10 DEF OneItem

(* A lease that is released keeps what it knows.                           *)
LEMMA ReleasedFields ==
  ASSUME TypeOK, NEW i \in ItemIds, NEW byExit \in BOOLEAN,
         ReleaseResource(i, byExit), item[i].scope \in ScopeIds
  PROVE  /\ OneItem(i) /\ item'[i].state = "releasing"
         /\ (item'[i].exit <=> byExit) /\ item'[i].older = item[i].older
         /\ item'[i].failed = item[i].failed /\ item'[i].mask = item[i].mask
         /\ (item'[i].late <=> ~byExit /\ scope[item[i].scope].stage = "drained")
         /\ cleanups' = Unlinked(i)
         /\ releases' \in [ScopeIds -> SUBSET ItemIds]
         /\ \A s \in ScopeIds : releases'[s] =
              IF s = item[i].scope THEN releases[s] \union {i} ELSE releases[s]
<1>1. item \in [ItemIds -> Item] /\ item[i] \in Item BY ItemTypes
<1> PICK late \in BOOLEAN :
       late <=> ~byExit /\ scope[item[i].scope].stage = "drained"
  OBVIOUS
<1>0. late = (~byExit /\ scope[item[i].scope].stage = "drained") OBVIOUS
<1>2. PICK r : r = [item[i] EXCEPT !.state = "releasing", !.exit = byExit,
                                   !.late = late]
  OBVIOUS
<1>3. /\ item' = [item EXCEPT ![i] = r] /\ cleanups' = Unlinked(i)
      /\ releases' = [releases EXCEPT ![item[i].scope] =
                        releases[item[i].scope] \union {i}]
  BY <1>0, <1>2 DEF ReleaseResource
<1>4. /\ r \in Item /\ r.kind = item[i].kind /\ r.scope = item[i].scope
      /\ r.state = "releasing" /\ r.older = item[i].older /\ r.mask = item[i].mask
      /\ r.failed = item[i].failed /\ (r.exit <=> byExit)
      /\ r.late = late
  BY <1>1, <1>2 DEF Item
<1>5. item' \in [ItemIds -> Item] /\ item'[i] = r
      /\ \A k \in ItemIds : k # i => item'[k] = item[k]
  BY <1>1, <1>3, <1>4
<1>6. releases \in [ScopeIds -> SUBSET ItemIds] BY DEF TypeOK
<1> QED BY <1>3, <1>4, <1>5, <1>6 DEF OneItem

\* The first record of an item of scope s.
Admitted(s, kind, state, older) ==
  [kind |-> kind, scope |-> s, state |-> state, aborted |-> FALSE,
   failed |-> FALSE, exit |-> FALSE, late |-> FALSE, older |-> older,
   mask |-> NoScope]

\* What an item may begin as.
BeginsAs(kind, state) ==
  \/ kind = "lease" /\ state \in {"live", "requested"}
  \/ kind = "finalizer" /\ state = "registered"
  \/ kind = "closer" /\ state = "owned"

(* What a new item begins with, registered or not.                         *)
LEMMA AdmittedRecords ==
  ASSUME NEW s, NEW kind, NEW state, NEW older
  PROVE  /\ [Make(s, kind, state) EXCEPT !.older = older]
              = Admitted(s, kind, state, older)
         /\ Make(s, kind, state) = Admitted(s, kind, state, {})
<1>1. PICK r : r = [Make(s, kind, state) EXCEPT !.older = older] OBVIOUS
<1>2. r = [kind |-> kind, scope |-> s, state |-> state, aborted |-> FALSE,
           failed |-> FALSE, exit |-> FALSE, late |-> FALSE, older |-> older,
           mask |-> NoScope]
  BY <1>1 DEF Make, NoItemRecord
<1>3. PICK m : m = Make(s, kind, state) OBVIOUS
<1>4. m = [kind |-> kind, scope |-> s, state |-> state, aborted |-> FALSE,
           failed |-> FALSE, exit |-> FALSE, late |-> FALSE, older |-> {},
           mask |-> NoScope]
  BY <1>3 DEF Make, NoItemRecord
<1> QED BY <1>1, <1>2, <1>3, <1>4 DEF Admitted

(* An acquisition goes on in one step.                                     *)
LEMMA AcquiringFields ==
  ASSUME TypeOK, NEW i \in ItemIds,
         NEW state \in {"requested", "creating", "discarding"}, NEW aborted \in BOOLEAN,
         item' = [item EXCEPT ![i] = [item[i] EXCEPT !.state = state,
                                                     !.aborted = aborted]]
  PROVE  /\ OneItem(i) /\ item'[i].state = state
         /\ item'[i].exit = item[i].exit /\ item'[i].older = item[i].older
         /\ item'[i].failed = item[i].failed /\ item'[i].mask = item[i].mask
         /\ item'[i].late = item[i].late
<1>1. item \in [ItemIds -> Item] /\ item[i] \in Item BY ItemTypes
<1>2. PICK r : r = [item[i] EXCEPT !.state = state, !.aborted = aborted]
  OBVIOUS
<1>3. item' = [item EXCEPT ![i] = r] BY <1>2
<1>4. /\ r \in Item /\ r.kind = item[i].kind /\ r.scope = item[i].scope
      /\ r.state = state /\ r.older = item[i].older /\ r.mask = item[i].mask
      /\ r.failed = item[i].failed /\ r.exit = item[i].exit
      /\ r.late = item[i].late
  BY <1>1, <1>2 DEF Item
<1>5. item' \in [ItemIds -> Item] /\ item'[i] = r
      /\ \A k \in ItemIds : k # i => item'[k] = item[k]
  BY <1>1, <1>3, <1>4
<1> QED BY <1>4, <1>5 DEF OneItem

(* What is registered in a scope and above it.                             *)
LEMMA RegisteredType ==
  ASSUME NEW s \in ScopeIds
  PROVE  Registered(s) \in SUBSET ItemIds
BY DEF Registered

(* An acquisition becomes a lease.                                         *)
LEMMA LiveFields ==
  ASSUME TypeOK, NEW i \in ItemIds, NEW s \in ScopeIds,
         AppendCleanup(i, s, [item[i] EXCEPT !.state = "live"])
  PROVE  /\ OneItem(i) /\ item'[i].state = "live" /\ item'[i].older = Registered(s)
         /\ item'[i].exit = item[i].exit /\ item'[i].failed = item[i].failed
         /\ item'[i].mask = item[i].mask /\ item'[i].late = item[i].late
<1>1. item \in [ItemIds -> Item] /\ item[i] \in Item BY ItemTypes
<1>2. PICK r : r = [[item[i] EXCEPT !.state = "live"] EXCEPT !.older = Registered(s)]
  OBVIOUS
<1>3. item' = [item EXCEPT ![i] = r] BY <1>2 DEF AppendCleanup
<1>4. PICK o \in SUBSET ItemIds : o = Registered(s) BY RegisteredType
<1>5. /\ r \in Item /\ r.kind = item[i].kind /\ r.scope = item[i].scope
      /\ r.state = "live" /\ r.older = o /\ r.mask = item[i].mask
      /\ r.failed = item[i].failed /\ r.exit = item[i].exit
      /\ r.late = item[i].late
  BY <1>1, <1>2, <1>4 DEF Item
<1>6. item' \in [ItemIds -> Item] /\ item'[i] = r
      /\ \A k \in ItemIds : k # i => item'[k] = item[k]
  BY <1>1, <1>3, <1>5
<1> QED BY <1>4, <1>5, <1>6 DEF OneItem

(* A finalizer starts in its own scope.                                    *)
LEMMA StartedFields ==
  ASSUME TypeOK, NEW i \in ItemIds, NEW n \in ScopeIds,
         item' = [item EXCEPT ![i].state = "running", ![i].exit = TRUE, ![i].mask = n]
  PROVE  /\ OneItem(i) /\ item'[i].state = "running" /\ item'[i].older = item[i].older
         /\ item'[i].exit /\ item'[i].failed = item[i].failed /\ item'[i].mask = n
         /\ item'[i].late = item[i].late
<1>1. item \in [ItemIds -> Item] /\ item[i] \in Item BY ItemTypes
<1>2. PICK r : r = [item[i] EXCEPT !.state = "running", !.exit = TRUE, !.mask = n]
  OBVIOUS
<1>3. item' = [item EXCEPT ![i] = r] BY <1>2
<1>4. /\ r \in Item /\ r.kind = item[i].kind /\ r.scope = item[i].scope
      /\ r.state = "running" /\ r.older = item[i].older /\ r.mask = n
      /\ r.failed = item[i].failed /\ r.exit
      /\ r.late = item[i].late
  BY <1>1, <1>2 DEF Item
<1>5. item' \in [ItemIds -> Item] /\ item'[i] = r
      /\ \A k \in ItemIds : k # i => item'[k] = item[k]
  BY <1>1, <1>3, <1>4
<1> QED BY <1>4, <1>5 DEF OneItem

(* A finalizer returns or throws.                                          *)
LEMMA ReturnedFields ==
  ASSUME TypeOK, NEW i \in ItemIds, NEW fails \in BOOLEAN,
         item' = [item EXCEPT ![i].state = "closing", ![i].failed = fails]
  PROVE  /\ OneItem(i) /\ item'[i].state = "closing" /\ item'[i].older = item[i].older
         /\ item'[i].exit = item[i].exit /\ (item'[i].failed <=> fails)
         /\ item'[i].mask = item[i].mask /\ item'[i].late = item[i].late
<1>1. item \in [ItemIds -> Item] /\ item[i] \in Item BY ItemTypes
<1>2. PICK r : r = [item[i] EXCEPT !.state = "closing", !.failed = fails]
  OBVIOUS
<1>3. item' = [item EXCEPT ![i] = r] BY <1>2
<1>4. /\ r \in Item /\ r.kind = item[i].kind /\ r.scope = item[i].scope
      /\ r.state = "closing" /\ r.older = item[i].older /\ r.mask = item[i].mask
      /\ (r.failed <=> fails) /\ r.exit = item[i].exit
      /\ r.late = item[i].late
  BY <1>1, <1>2 DEF Item
<1>5. item' \in [ItemIds -> Item] /\ item'[i] = r
      /\ \A k \in ItemIds : k # i => item'[k] = item[k]
  BY <1>1, <1>3, <1>4
<1> QED BY <1>4, <1>5 DEF OneItem

\* The closers of s that nobody has disowned.
Owned(s) == {i \in ItemIds : item[i].scope = s /\ item[i].state = "owned"}

(* All closers of a scope start together.                                  *)
LEMMA ClosersFields ==
  ASSUME TypeOK, NEW s \in ScopeIds, RunClosers(s)
  PROVE  /\ item' \in [ItemIds -> Item]
         /\ \A k \in ItemIds :
              /\ k \notin Owned(s) => item'[k] = item[k]
              /\ k \in Owned(s) => /\ item[k].state = "owned" /\ item[k].scope = s
                                   /\ item'[k].state = "running"
              /\ item'[k].kind = item[k].kind /\ item'[k].scope = item[k].scope
              /\ item'[k].older = item[k].older /\ item'[k].exit = item[k].exit
              /\ item'[k].failed = item[k].failed /\ item'[k].mask = item[k].mask
              /\ item'[k].late = item[k].late
         /\ waits' = [waits EXCEPT ![s] = Owned(s)]
<1>1. item \in [ItemIds -> Item] /\ \A k \in ItemIds : item[k] \in Item BY ItemTypes
<1>2. /\ item' = [k \in ItemIds |-> IF k \in Owned(s)
                    THEN [item[k] EXCEPT !.state = "running"] ELSE item[k]]
      /\ waits' = [waits EXCEPT ![s] = Owned(s)]
  BY DEF RunClosers, Owned
<1>3. ASSUME NEW k \in ItemIds
      PROVE  /\ item'[k] \in Item
             /\ k \notin Owned(s) => item'[k] = item[k]
             /\ k \in Owned(s) => /\ item[k].state = "owned" /\ item[k].scope = s
                                  /\ item'[k].state = "running"
             /\ item'[k].kind = item[k].kind /\ item'[k].scope = item[k].scope
             /\ item'[k].older = item[k].older /\ item'[k].exit = item[k].exit
             /\ item'[k].failed = item[k].failed /\ item'[k].mask = item[k].mask
             /\ item'[k].late = item[k].late
  <2>1. CASE k \in Owned(s)
    <3>1. item'[k] = [item[k] EXCEPT !.state = "running"] BY <1>2, <2>1
    <3>2. item[k].state = "owned" /\ item[k].scope = s BY <2>1 DEF Owned
    <3> QED BY <1>1, <2>1, <3>1, <3>2 DEF Item
  <2>2. CASE k \notin Owned(s)
    <3>1. item'[k] = item[k] BY <1>2, <2>2
    <3> QED BY <1>1, <2>2, <3>1
  <2> QED BY <2>1, <2>2
<1> QED BY <1>2, <1>3

-----------------------------------------------------------------------------
(* Cleanup lists.                                                          *)

\* What two lists have in common comes in the same order.
KeepsOrder(old, new) ==
  \A a, b \in 1..Len(new) : \E c, d \in 1..Len(old) :
    new[a] = old[c] /\ new[b] = old[d] /\ (c < d => a < b)

\* The same of a list that x may have been added to.
AddsLast(old, new, x) ==
  \A a, b \in 1..Len(new) :
    \/ new[a] = x
    \/ new[b] = x /\ a < b
    \/ \E c, d \in 1..Len(old) :
         new[a] = old[c] /\ new[b] = old[d] /\ (c < d => a < b)

(* Taking entries out of a list is a way of not adding any.                *)
LEMMA KeepsAdds ==
  ASSUME NEW old, NEW new, NEW x, KeepsOrder(old, new)
  PROVE  AddsLast(old, new, x)
BY DEF KeepsOrder, AddsLast

(* Removing the cleanup of an item keeps the others in their order.        *)
LEMMA Unlinking ==
  ASSUME TypeOK, ListsAgree, NEW i \in ItemIds, item[i].scope \in ScopeIds,
         cleanups' = Unlinked(i)
  PROVE  /\ cleanups' \in [ScopeIds -> Seq(ItemIds)]
         /\ \A s \in ScopeIds :
              /\ Distinct(cleanups'[s])
              /\ \A k \in ItemIds :
                   Linked(cleanups'[s], k) <=> Linked(cleanups[s], k) /\ k # i
              /\ KeepsOrder(cleanups[s], cleanups'[s])
<1>1. PICK t \in ScopeIds : t = item[i].scope OBVIOUS
<1>2. cleanups \in [ScopeIds -> Seq(ItemIds)] BY DEF TypeOK
<1>3. PICK u : u = Unlink(cleanups[t], i) OBVIOUS
<1>4. cleanups' = [cleanups EXCEPT ![t] = u] BY <1>1, <1>3 DEF Unlinked
<1>5. /\ u \in Seq(ItemIds) /\ Distinct(u)
      /\ \A k \in ItemIds : Linked(u, k) <=> Linked(cleanups[t], k) /\ k # i
      /\ KeepsOrder(cleanups[t], u)
  <2>1. cleanups[t] \in Seq(ItemIds) /\ Distinct(cleanups[t])
    BY <1>2 DEF ListsAgree
  <2>2. u \in Seq(ItemIds) /\ Distinct(u)
    BY <1>3, <2>1, UnlinkType, UnlinkDistinct
  <2>3. \A k \in ItemIds : Linked(u, k) <=> Linked(cleanups[t], k) /\ k # i
    BY <1>3, <2>1, UnlinkLinked
  <2>4. KeepsOrder(cleanups[t], u)
    <3>1. PICK q \in Seq(ItemIds) : q = cleanups[t] BY <2>1
    <3>2. \A a, b \in 1..Len(Unlink(q, i)) : \E c, d \in 1..Len(q) :
            /\ Unlink(q, i)[a] = q[c]
            /\ Unlink(q, i)[b] = q[d]
            /\ c < d => a < b
      BY UnlinkOrder
    <3> QED BY <1>3, <3>1, <3>2 DEF KeepsOrder
  <2> QED BY <2>2, <2>3, <2>4
<1>6. /\ cleanups' \in [ScopeIds -> Seq(ItemIds)] /\ cleanups'[t] = u
      /\ \A s \in ScopeIds : s # t => cleanups'[s] = cleanups[s]
  BY <1>2, <1>4, <1>5
<1>7. \A s \in ScopeIds : s # t => ~Linked(cleanups[s], i)
  BY <1>1 DEF ListsAgree
<1>8. \A s \in ScopeIds : Distinct(cleanups[s]) BY DEF ListsAgree
<1>9. ASSUME NEW s \in ScopeIds
      PROVE  /\ Distinct(cleanups'[s])
             /\ \A k \in ItemIds :
                  Linked(cleanups'[s], k) <=> Linked(cleanups[s], k) /\ k # i
             /\ KeepsOrder(cleanups[s], cleanups'[s])
  <2>1. CASE s = t
    <3>1. cleanups'[s] = u /\ cleanups[s] = cleanups[t] BY <1>6, <2>1
    <3> QED BY <1>5, <3>1
  <2>2. CASE s # t
    <3>1. cleanups'[s] = cleanups[s] BY <1>6, <2>2
    <3>2. cleanups[s] \in Seq(ItemIds) BY <1>2
    <3>3. KeepsOrder(cleanups[s], cleanups[s]) BY <3>2 DEF KeepsOrder
    <3> QED BY <1>7, <1>8, <2>2, <3>1, <3>3
  <2> QED BY <2>1, <2>2
<1> QED BY <1>6, <1>9

(* A cleanup is added behind all others.                                   *)
LEMMA Appending ==
  ASSUME TypeOK, ListsAgree, NEW i \in ItemIds, NEW t \in ScopeIds,
         ~Linked(cleanups[t], i),
         cleanups' = [cleanups EXCEPT ![t] = Push(@, i)]
  PROVE  /\ cleanups' \in [ScopeIds -> Seq(ItemIds)]
         /\ \A s \in ScopeIds :
              /\ Distinct(cleanups'[s])
              /\ \A k \in ItemIds : Linked(cleanups'[s], k) <=>
                   Linked(cleanups[s], k) \/ (k = i /\ s = t)
              /\ AddsLast(cleanups[s], cleanups'[s], i)
<1>1. cleanups \in [ScopeIds -> Seq(ItemIds)] BY DEF TypeOK
<1>2. PICK u : u = Push(cleanups[t], i) OBVIOUS
<1>3. cleanups' = [cleanups EXCEPT ![t] = u] BY <1>2
<1>4. cleanups[t] \in Seq(ItemIds) /\ Distinct(cleanups[t]) BY <1>1 DEF ListsAgree
<1>5. /\ u \in Seq(ItemIds) /\ Distinct(u)
      /\ \A k \in ItemIds : Linked(u, k) <=> Linked(cleanups[t], k) \/ k = i
  BY <1>2, <1>4, PushType, PushDistinct, PushLinked
<1>6. /\ Len(u) = Len(cleanups[t]) + 1 /\ u[Len(cleanups[t]) + 1] = i
      /\ \A a \in 1..Len(cleanups[t]) : u[a] = cleanups[t][a]
      /\ Len(cleanups[t]) \in Nat
  BY <1>2, <1>4 DEF Push
<1>7. ASSUME NEW a \in 1..Len(u), NEW b \in 1..Len(u)
      PROVE  \/ u[a] = i
             \/ u[b] = i /\ a < b
             \/ \E c, d \in 1..Len(cleanups[t]) :
                  u[a] = cleanups[t][c] /\ u[b] = cleanups[t][d] /\ (c < d => a < b)
  <2>1. CASE a = Len(cleanups[t]) + 1 BY <1>6, <2>1
  <2>2. CASE a # Len(cleanups[t]) + 1 /\ b = Len(cleanups[t]) + 1
    BY <1>6, <2>2
  <2>3. CASE a # Len(cleanups[t]) + 1 /\ b # Len(cleanups[t]) + 1
    <3>1. a \in 1..Len(cleanups[t]) /\ b \in 1..Len(cleanups[t]) BY <1>6, <2>3
    <3> QED BY <1>6, <3>1
  <2> QED BY <2>1, <2>2, <2>3
<1>8. /\ cleanups' \in [ScopeIds -> Seq(ItemIds)] /\ cleanups'[t] = u
      /\ \A s \in ScopeIds : s # t => cleanups'[s] = cleanups[s]
  BY <1>1, <1>3, <1>5
<1>9. ASSUME NEW s \in ScopeIds
      PROVE  /\ Distinct(cleanups'[s])
             /\ \A k \in ItemIds : Linked(cleanups'[s], k) <=>
                  Linked(cleanups[s], k) \/ (k = i /\ s = t)
             /\ AddsLast(cleanups[s], cleanups'[s], i)
  <2>1. CASE s = t
    <3>1. cleanups'[s] = u BY <1>8, <2>1
    <3>2. AddsLast(cleanups[t], u, i) BY <1>7 DEF AddsLast
    <3> QED BY <1>5, <2>1, <3>1, <3>2
  <2>2. CASE s # t
    <3>1. cleanups'[s] = cleanups[s] BY <1>8, <2>2
    <3>2. AddsLast(cleanups[s], cleanups[s], i)
      <4>1. cleanups[s] \in Seq(ItemIds) BY <1>1
      <4> QED BY <4>1 DEF AddsLast
    <3> QED BY <2>2, <3>1, <3>2 DEF ListsAgree
  <2> QED BY <2>1, <2>2
<1> QED BY <1>8, <1>9

(* When the loop of close() takes the last cleanup of a scope, nothing     *)
(* that was registered after it is left but a release that came late: not  *)
(* in the scope, where it would come later in the list, and not below,     *)
(* where everything is closed.                                             *)
LEMMA LastIsUnneeded ==
  ASSUME IInv, NEW s \in ScopeIds, NEW i \in ItemIds, Finalizes(s, i),
         NEW k \in ItemIds, i \in item[k].older
  PROVE  item[k].late
<1> SUFFICES ASSUME ~item[k].late PROVE FALSE OBVIOUS
<1> USE DEF IInv, ScopesAgree
<1>1. /\ scope[s].stage = "drained" /\ current[s] = NoItem
      /\ i = cleanups[s][Len(cleanups[s])] /\ cleanups[s] # <<>>
  BY FinalizesLast
<1>2. Linked(cleanups[s], i) /\ item[i].scope = s BY FinalizesLast
<1>3. /\ item[i].scope \in Chain(item[k].scope)
      /\ item[k].state \in {"live", "registered", "releasing", "running", "closing"}
      /\ item[k].kind # "closer"
  BY DEF OrderAgrees, ItemsAgree, ItemAgrees
<1>4. PICK d \in ScopeIds : d = item[k].scope
  <2>1. k <= items BY <1>3, ItemTypes DEF ItemsAgree, ItemAgrees, NoItemRecord
  <2> QED BY <2>1, ScopeNumbers DEF ItemsAgree, ItemAgrees, ScopeIds
<1>5. d # NoScope /\ ItemStage(k) BY <1>4, ScopeNumbers DEF StagesAgree
<1>6. CASE d = s
  <2>1. item[k].state # "releasing" BY <1>1, <1>4, <1>5, <1>6 DEF ItemStage, Looked
  <2>2. item[k].kind = "finalizer" /\ item[k].state \in {"running", "closing"} =>
          current[s] = k
    BY <1>4, <1>5, <1>6 DEF ItemStage
  <2>3. item[k].state \in {"running", "closing"} => item[k].kind = "finalizer"
    BY <1>3 DEF ItemsAgree, ItemAgrees
  <2>4. NoItem \notin ItemIds BY ItemTypes
  <2>5. item[k].state \in {"live", "registered"}
    BY <1>1, <1>3, <2>1, <2>2, <2>3, <2>4
  <2>6. Linked(cleanups[s], k) BY <1>4, <1>6, <2>5 DEF ListsAgree
  <2>7. PICK b \in 1..Len(cleanups[s]) : cleanups[s][b] = k BY <2>6 DEF Linked
  <2>8. cleanups[s] \in Seq(ItemIds) BY DEF TypeOK
  <2>9. Len(cleanups[s]) \in 1..Len(cleanups[s]) /\ Len(cleanups[s]) \in Nat
        /\ cleanups[s][Len(cleanups[s])] = i
    BY <1>1, <2>8
  <2>10. Len(cleanups[s]) < b BY <1>1, <2>7, <2>9 DEF OrderAgrees
  <2> QED BY <2>7, <2>9, <2>10
<1>7. CASE d # s
  <2>1. s \in scope[d].above BY <1>2, <1>3, <1>4, <1>7 DEF Chain
  <2>2. scope[d].stage = "closed" BY <1>1, <2>1, BelowClosed
  <2>3. item[k].state \notin {"live", "registered", "releasing"}
    BY <1>4, <1>5, <2>2 DEF ItemStage, Looked
  <2>4. item[k].kind = "finalizer" /\ current[d] = k
    BY <1>3, <1>4, <1>5, <2>3 DEF ItemStage, ItemsAgree, ItemAgrees
  <2>5. current[d] = NoItem BY <2>2 DEF StagesAgree, ScopeStage
  <2> QED BY <2>4, <2>5, ItemTypes
<1> QED BY <1>6, <1>7

-----------------------------------------------------------------------------
(* What a step does to the items.                                          *)

\* The lists follow the change of item x.
ListsFollow(x) ==
  /\ cleanups' \in [ScopeIds -> Seq(ItemIds)]
  /\ \A s \in ScopeIds :
       /\ Distinct(cleanups'[s])
       /\ \A k \in ItemIds : k # x =>
            (Linked(cleanups'[s], k) <=> Linked(cleanups[s], k))
       /\ Linked(cleanups'[s], x) <=>
            item'[x].scope = s /\ item'[x].state \in {"live", "registered"}
       /\ AddsLast(cleanups[s], cleanups'[s], x)
       /\ (\E k \in ItemIds : x \in item[k].older) =>
            KeepsOrder(cleanups[s], cleanups'[s])

\* #releases has every release in progress, that of x included.
ReleasesFollow(x) ==
  /\ releases' \in [ScopeIds -> SUBSET ItemIds]
  /\ \A s \in ScopeIds : \A k \in releases[s] : k # x => k \in releases'[s]
  /\ item'[x].state = "releasing" => x \in releases'[item'[x].scope]

\* Only what is over is taken out of #releases.
ReleasesKept ==
  /\ releases' \in [ScopeIds -> SUBSET ItemIds]
  /\ \A s \in ScopeIds : \A k \in releases[s] : k \in releases'[s] \/ Over(k)

\* Item x is made or goes on, and no other item changes.
Changes(x) ==
  /\ item' \in [ItemIds -> Item] /\ items' \in 0..MaxItems
  /\ items' = items \/ (items' = items + 1 /\ x = items')
  /\ x <= items'
  /\ \A k \in ItemIds : k # x => item'[k] = item[k]
  /\ x <= items => item'[x].scope = item[x].scope /\ item'[x].kind = item[x].kind
  /\ item'[x].scope \in ScopeIds /\ scope[item'[x].scope].stage # "unused"
  /\ ItemAgrees(x)'
  /\ ListsFollow(x) /\ ReleasesFollow(x)
  /\ item'[x].state = "registered" => RoomForScope /\ scopes' = scopes
  /\ x \notin item'[x].older
  /\ \/ item'[x].older \subseteq item[x].older
     \/ /\ item'[x].older = Registered(item'[x].scope)
        /\ \A s \in ScopeIds : ~Linked(cleanups[s], x)
  /\ item[x].late => item'[x].late
  /\ \A k \in ItemIds : x \in item[k].older =>
       item'[x].state \notin Unlisted /\ (item[k].late \/ Spared(x)')

(* Items that are made belong to scopes that are made.                     *)
LEMMA MadeInScope ==
  ASSUME IInv, NEW i \in ItemIds, i <= items \/ item[i].state # "none"
                                    \/ item[i].scope # NoScope
  PROVE  /\ i <= items /\ item[i].scope \in ScopeIds /\ item[i].scope # NoScope
         /\ scope[item[i].scope].stage # "unused"
<1> USE DEF IInv, ScopesAgree
<1>1. i <= items BY ItemTypes DEF ItemsAgree, ItemAgrees, NoItemRecord
<1>2. item[i].scope \in 1..scopes BY <1>1 DEF ItemsAgree, ItemAgrees
<1> QED BY <1>1, <1>2, ScopeNumbers DEF TreeAgrees, ScopeIds

(* Nothing is registered after an item that has not been in a list.        *)
LEMMA NotOlder ==
  ASSUME IInv, NEW x \in ItemIds, item[x].state \in Unlisted
  PROVE  /\ \A k \in ItemIds : x \notin item[k].older
         /\ \A s \in ScopeIds : ~Linked(cleanups[s], x)
BY DEF IInv, ScopesAgree, ListsAgree, OrderAgrees, Unlisted

(* An item that is in no list goes on, and stays outside.                  *)
LEMMA QuietChange ==
  ASSUME IInv, NEW x \in ItemIds, OneItem(x), items' = items, cleanups' = cleanups,
         item[x].state \notin {"live", "registered", "over", "none"},
         item'[x].state \notin {"live", "registered"},
         item[x].state = "releasing" =>
           item'[x].state = "over" /\ item'[x].exit = item[x].exit,
         item'[x].state \in Unlisted => item[x].state \in Unlisted,
         item'[x].late = item[x].late,
         item'[x].older \in {{}, item[x].older}, ItemAgrees(x)', ReleasesFollow(x)
  PROVE  Changes(x)
<1> USE DEF IInv, ScopesAgree
<1>1. /\ x <= items /\ item[x].scope \in ScopeIds
      /\ scope[item[x].scope].stage # "unused"
  BY MadeInScope
<1>2. items' \in 0..MaxItems BY DEF TypeOK
<1>3. x \notin item[x].older BY DEF OrderAgrees
<1>4. ListsFollow(x)
  <2>1. \A s \in ScopeIds : ~Linked(cleanups[s], x) BY DEF ListsAgree
  <2>2. \A s \in ScopeIds : Distinct(cleanups[s]) BY DEF ListsAgree
  <2>3. cleanups' \in [ScopeIds -> Seq(ItemIds)] BY DEF TypeOK
  <2>4. \A s \in ScopeIds : KeepsOrder(cleanups[s], cleanups[s])
    BY DEF TypeOK, KeepsOrder
  <2>5. \A s \in ScopeIds : AddsLast(cleanups[s], cleanups[s], x)
    BY <2>4, KeepsAdds
  <2> QED BY <2>1, <2>2, <2>3, <2>4, <2>5 DEF ListsFollow
<1>5. \A k \in ItemIds : x \in item[k].older =>
        item'[x].state \notin Unlisted /\ (item[k].late \/ Spared(x)')
  BY NotOlder DEF OrderAgrees, Spared
<1> QED BY <1>1, <1>2, <1>3, <1>4, <1>5 DEF Changes, OneItem

(* A cleanup is taken from its list.                                       *)
LEMMA UnlinkChange ==
  ASSUME IInv, NEW x \in ItemIds, OneItem(x), items' = items,
         item[x].state \in {"live", "registered"}, cleanups' = Unlinked(x),
         item'[x].state \notin {"live", "registered"},
         item'[x].state \notin Unlisted, item[x].late => item'[x].late,
         \/ \A k \in ItemIds : x \in item[k].older => item[k].late
         \/ item'[x].state = "releasing" /\ item'[x].exit = item[x].exit,
         item'[x].older \in {{}, item[x].older}, ItemAgrees(x)', ReleasesFollow(x)
  PROVE  Changes(x)
<1> USE DEF IInv, ScopesAgree
<1>1. /\ x <= items /\ item[x].scope \in ScopeIds
      /\ scope[item[x].scope].stage # "unused"
  BY MadeInScope
<1>2. items' \in 0..MaxItems BY DEF TypeOK
<1>3. x \notin item[x].older BY DEF OrderAgrees
<1>4. ListsFollow(x)
  <2>1. /\ cleanups' \in [ScopeIds -> Seq(ItemIds)]
        /\ \A s \in ScopeIds :
             /\ Distinct(cleanups'[s])
             /\ \A k \in ItemIds :
                  Linked(cleanups'[s], k) <=> Linked(cleanups[s], k) /\ k # x
             /\ KeepsOrder(cleanups[s], cleanups'[s])
    BY <1>1, Unlinking
  <2>2. \A s \in ScopeIds : AddsLast(cleanups[s], cleanups'[s], x)
    BY <2>1, KeepsAdds
  <2> QED BY <2>1, <2>2 DEF ListsFollow
<1>5. \A k \in ItemIds : x \in item[k].older =>
        item'[x].state \notin Unlisted /\ (item[k].late \/ Spared(x)')
  BY DEF OrderAgrees, Spared
<1> QED BY <1>1, <1>2, <1>3, <1>4, <1>5 DEF Changes, OneItem

(* An item becomes a cleanup of its scope, behind all that are registered  *)
(* there and above.                                                        *)
LEMMA PushChange ==
  ASSUME IInv, NEW x \in ItemIds, NEW t \in ScopeIds, scope[t].stage # "unused",
         item' \in [ItemIds -> Item],
         \A k \in ItemIds : k # x => item'[k] = item[k],
         items' \in 0..MaxItems, x <= items',
         items' = items \/ (items' = items + 1 /\ x = items'),
         x <= items => item'[x].scope = item[x].scope /\ item'[x].kind = item[x].kind,
         item[x].state \in {"none", "creating"},
         item'[x].state \in {"live", "registered"}, item'[x].scope = t,
         item'[x].older = Registered(t), ItemAgrees(x)', ReleasesFollow(x),
         item'[x].state = "registered" => RoomForScope /\ scopes' = scopes,
         cleanups' = [cleanups EXCEPT ![t] = Push(@, x)]
  PROVE  Changes(x)
<1> USE DEF IInv, ScopesAgree
<1>1. /\ \A k \in ItemIds : x \notin item[k].older
      /\ \A s \in ScopeIds : ~Linked(cleanups[s], x)
  BY NotOlder DEF Unlisted
<1>2. ListsFollow(x)
  <2>1. /\ cleanups' \in [ScopeIds -> Seq(ItemIds)]
        /\ \A s \in ScopeIds :
             /\ Distinct(cleanups'[s])
             /\ \A k \in ItemIds : Linked(cleanups'[s], k) <=>
                  Linked(cleanups[s], k) \/ (k = x /\ s = t)
             /\ AddsLast(cleanups[s], cleanups'[s], x)
    BY <1>1, Appending
  <2> QED BY <1>1, <2>1 DEF ListsFollow
<1>3. x \notin Registered(t)
  BY <1>1, ScopeNumbers DEF Registered, Chain
<1>4. ~item[x].late BY DEF ItemsAgree, ItemAgrees
<1> QED BY <1>1, <1>2, <1>3, <1>4 DEF Changes

(* An item is made that is in no list.                                     *)
LEMMA NewQuietChange ==
  ASSUME IInv, NEW x \in ItemIds, item' \in [ItemIds -> Item],
         \A k \in ItemIds : k # x => item'[k] = item[k],
         items' \in 0..MaxItems, items' = items + 1, x = items',
         item'[x].state \notin {"live", "registered"}, item'[x].older = {},
         item'[x].scope \in ScopeIds, scope[item'[x].scope].stage # "unused",
         ItemAgrees(x)', ReleasesFollow(x), cleanups' = cleanups
  PROVE  Changes(x)
<1> USE DEF IInv, ScopesAgree
<1>1. x > items BY ItemTypes
<1>2. item[x].state = "none" BY <1>1 DEF ItemsAgree, ItemAgrees, NoItemRecord
<1>3. ~(x <= items) BY <1>1, ItemTypes
<1>4. ListsFollow(x)
  <2>1. \A s \in ScopeIds : ~Linked(cleanups[s], x) BY <1>2 DEF ListsAgree
  <2>2. \A s \in ScopeIds : Distinct(cleanups[s]) BY DEF ListsAgree
  <2>3. cleanups' \in [ScopeIds -> Seq(ItemIds)] BY DEF TypeOK
  <2>4. \A s \in ScopeIds : KeepsOrder(cleanups[s], cleanups[s])
    BY DEF TypeOK, KeepsOrder
  <2>5. \A s \in ScopeIds : AddsLast(cleanups[s], cleanups[s], x)
    BY <2>4, KeepsAdds
  <2> QED BY <2>1, <2>2, <2>3, <2>4, <2>5 DEF ListsFollow
<1>5. x <= items' BY ItemTypes
<1>6. ~item[x].late BY <1>2 DEF ItemsAgree, ItemAgrees
<1>7. \A k \in ItemIds : x \notin item[k].older BY <1>2, NotOlder DEF Unlisted
<1> QED BY <1>2, <1>3, <1>4, <1>5, <1>6, <1>7 DEF Changes

(* Where nothing is released, #releases needs no change.                   *)
LEMMA NothingReleased ==
  ASSUME TypeOK, NEW x \in ItemIds, releases' = releases,
         item'[x].state # "releasing"
  PROVE  ReleasesFollow(x)
BY DEF TypeOK, ReleasesFollow

(* An item that goes on where it is stays what it is.                      *)
LEMMA StaysMade ==
  ASSUME IInv, Next, NEW x \in ItemIds, item[x].state # "none", items' = items,
         item'[x].state # "none", item'[x].scope = item[x].scope
  PROVE  /\ x <= items /\ item[x].scope \in ScopeIds
         /\ x > items' => item'[x] = NoItemRecord
         /\ x <= items' => item'[x].state # "none" /\ item'[x].scope \in 1..scopes'
<1>1. x <= items /\ item[x].scope \in 1..scopes
  BY ItemTypes DEF IInv, ScopesAgree, ItemsAgree, ItemAgrees, NoItemRecord
<1>2. scopes <= scopes' /\ scopes' \in ScopeIds BY NextTree
<1>3. scopes \in Nat /\ scopes' \in Nat BY <1>2, ScopeNumbers DEF IInv, ScopesAgree
<1>4. item[x].scope \in 1..scopes' BY <1>1, <1>2, <1>3
<1>5. item[x].scope \in ScopeIds BY <1>2, <1>3, <1>4, ScopeNumbers DEF ScopeIds, IInv, ScopesAgree
<1>6. items \in Nat /\ x \in Nat BY ItemTypes DEF IInv, ScopesAgree
<1> QED BY <1>1, <1>4, <1>5, <1>6

(* An item that is admitted is one more.                                   *)
LEMMA AdmitChange ==
  ASSUME IInv, Next, NEW s \in ScopeIds, scope[s].stage = "open",
         NEW kind, NEW state, BeginsAs(kind, state),
         NEW older \in SUBSET ItemIds, items < MaxItems, items' = NewItem,
         item' = [item EXCEPT ![NewItem] = Admitted(s, kind, state, older)],
         \/ /\ state \in {"live", "registered"} /\ older = Registered(s)
            /\ cleanups' = [cleanups EXCEPT ![s] = Push(@, NewItem)]
         \/ /\ state \notin {"live", "registered"} /\ older = {}
            /\ cleanups' = cleanups,
         releases' = releases,
         state = "registered" => RoomForScope /\ scopes' = scopes
  PROVE  /\ Changes(NewItem) /\ NewItem \in ItemIds
         /\ item[NewItem].state = "none"
         /\ item'[NewItem].kind = kind /\ item'[NewItem].state = state
         /\ item'[NewItem].scope = s /\ ~item'[NewItem].failed
<1> USE DEF IInv, ScopesAgree
<1>1. PICK x : x = NewItem OBVIOUS
<1>2. /\ x \in ItemIds /\ item' \in [ItemIds -> Item]
      /\ \A k \in ItemIds : k # x => item'[k] = item[k]
      /\ item'[x].kind = kind /\ item'[x].scope = s
      /\ item'[x].state = state /\ item'[x].older = older
      /\ item'[x].mask = NoScope
      /\ ~item'[x].exit /\ ~item'[x].failed /\ ~item'[x].late
  <2>1. item \in [ItemIds -> Item] /\ x \in ItemIds
    BY <1>1, ItemTypes DEF NewItem, ItemIds
  <2>2. PICK r : r = Admitted(s, kind, state, older) OBVIOUS
  <2>3. r = [kind |-> kind, scope |-> s, state |-> state, aborted |-> FALSE,
             failed |-> FALSE, exit |-> FALSE, late |-> FALSE, older |-> older,
             mask |-> NoScope]
    BY <2>2 DEF Admitted
  <2>4. r \in Item BY <2>3 DEF Item, BeginsAs
  <2>5. item' = [item EXCEPT ![x] = r] BY <1>1, <2>2
  <2>6. item' \in [ItemIds -> Item] /\ item'[x] = r
        /\ \A k \in ItemIds : k # x => item'[k] = item[k]
    BY <2>1, <2>4, <2>5
  <2> QED BY <2>1, <2>3, <2>6
<1>3. x = items + 1 /\ items' = x /\ items \in Nat /\ items' \in 0..MaxItems
  BY <1>1, ItemTypes DEF NewItem
<1>4. s \in 1..scopes'
  <2>1. s <= scopes /\ scopes <= scopes' /\ scopes' \in ScopeIds
    BY NextTree, ScopeNumbers DEF TreeAgrees
  <2> QED BY <2>1, ScopeNumbers DEF ScopeIds
<1>5. item[x].state = "none" /\ ~(x <= items) /\ x <= items' /\ ~(x > items')
  BY <1>2, <1>3 DEF ItemsAgree, ItemAgrees, NoItemRecord
<1>6. ItemAgrees(x)' BY <1>2, <1>4, <1>5 DEF ItemAgrees, BeginsAs
<1>9. ReleasesFollow(x)
  <2>1. item'[x].state # "releasing" BY <1>2 DEF BeginsAs
  <2> QED BY <1>2, <2>1, NothingReleased
<1>7. CASE state \in {"live", "registered"}
  <2>1. /\ older = Registered(s)
        /\ cleanups' = [cleanups EXCEPT ![s] = Push(@, x)]
    BY <1>1, <1>7
  <2>2. Changes(x) BY <1>2, <1>3, <1>5, <1>6, <1>7, <1>9, <2>1, PushChange
  <2> QED BY <1>1, <1>2, <1>5, <2>2
<1>8. CASE state \notin {"live", "registered"}
  <2>1. Changes(x) BY <1>2, <1>3, <1>6, <1>8, <1>9, NewQuietChange
  <2> QED BY <1>1, <1>2, <1>5, <2>1
<1> QED BY <1>7, <1>8

(* Something fails or not.                                                 *)
LEMMA FailsType == \A f \in Fails : f \in BOOLEAN
<1>1. CASE "fail" \in Uses
  <2>1. ("fail" \in Uses) = TRUE BY <1>1
  <2> QED BY <2>1 DEF Fails
<1>2. CASE "fail" \notin Uses
  <2>1. ("fail" \in Uses) = FALSE BY <1>2
  <2> QED BY <2>1 DEF Fails
<1> QED BY <1>1, <1>2

\* Scope s admits an item that begins as said.
Admits(s, kind, state, older) ==
  /\ scope[s].stage = "open" /\ BeginsAs(kind, state) /\ older \in SUBSET ItemIds
  /\ items < MaxItems /\ items' = NewItem /\ releases' = releases
  /\ item' = [item EXCEPT ![NewItem] = Admitted(s, kind, state, older)]
  /\ \/ /\ state \in {"live", "registered"} /\ older = Registered(s)
        /\ cleanups' = [cleanups EXCEPT ![s] = Push(@, NewItem)]
     \/ /\ state \notin {"live", "registered"} /\ older = {}
        /\ cleanups' = cleanups
  /\ state = "registered" => RoomForScope /\ scopes' = scopes

(* A task adds an item to an open scope.                                   *)
LEMMA AdmitSteps ==
  ASSUME IInv, Next, NEW s \in ScopeIds, Grant(s) \/ OnExit(s) \/ Own(s) \/ Acquire(s)
  PROVE  \E x \in ItemIds :
           /\ Changes(x) /\ item[x].state = "none" /\ ~item'[x].failed
           /\ BeginsAs(item'[x].kind, item'[x].state) /\ item'[x].scope = s
<1> USE DEF IInv, ScopesAgree
<1> DEFINE Goal == \E x \in ItemIds :
                     /\ Changes(x) /\ item[x].state = "none" /\ ~item'[x].failed
                     /\ BeginsAs(item'[x].kind, item'[x].state) /\ item'[x].scope = s
<1>1. ASSUME NEW kind, NEW state, NEW older, Admits(s, kind, state, older)
      PROVE  Goal
  <2>1. /\ Changes(NewItem) /\ NewItem \in ItemIds /\ item[NewItem].state = "none"
        /\ item'[NewItem].kind = kind /\ item'[NewItem].state = state
        /\ item'[NewItem].scope = s /\ ~item'[NewItem].failed
    BY <1>1, AdmitChange DEF Admits
  <2>2. BeginsAs(kind, state) BY <1>1 DEF Admits
  <2> QED BY <2>1, <2>2
<1> HIDE DEF Goal
<1>2. AssertOpen(s) => scope[s].stage = "open" BY DEF AssertOpen
<1>3. PICK o \in SUBSET ItemIds : o = Registered(s) BY RegisteredType
<1>4. PICK e \in SUBSET ItemIds : e = {} OBVIOUS
<1>5. ASSUME Grant(s) PROVE Goal
  <2>1. [Make(s, "lease", "live") EXCEPT !.older = o] = Admitted(s, "lease", "live", o)
    BY AdmittedRecords
  <2>2. Admits(s, "lease", "live", o)
    BY <1>2, <1>3, <1>5, <2>1 DEF Grant, Admit, AppendCleanup, Admits, BeginsAs
  <2> QED BY <1>1, <2>2
<1>6. ASSUME OnExit(s) PROVE Goal
  <2>1. [Make(s, "finalizer", "registered") EXCEPT !.older = o]
          = Admitted(s, "finalizer", "registered", o)
    BY AdmittedRecords
  <2>2. Admits(s, "finalizer", "registered", o)
    BY <1>2, <1>3, <1>6, <2>1 DEF OnExit, Admit, AppendCleanup, Admits, BeginsAs
  <2> QED BY <1>1, <2>2
<1>7. ASSUME Own(s) PROVE Goal
  <2>1. Admits(s, "closer", "owned", e)
    BY <1>2, <1>4, <1>7, AdmittedRecords DEF Own, Admit, Admits, BeginsAs
  <2> QED BY <1>1, <2>1
<1>8. ASSUME Acquire(s) PROVE Goal
  <2>1. Admits(s, "lease", "requested", e)
    BY <1>2, <1>4, <1>8, AdmittedRecords DEF Acquire, Admit, Admits, BeginsAs
  <2> QED BY <1>1, <2>1
<1> QED BY <1>5, <1>6, <1>7, <1>8 DEF Goal

(* A step changes one item at most, but for the closers of a scope that    *)
(* start together.                                                         *)
LEMMA ItemSteps ==
  ASSUME IInv, Next
  PROVE  \/ UNCHANGED <<items, item, cleanups>> /\ ReleasesKept
         \/ \E x \in ItemIds : Changes(x)
         \/ \E s \in ScopeIds : RunClosers(s)
<1> USE DEF IInv, ScopesAgree
<1> DEFINE Goal == \/ UNCHANGED <<items, item, cleanups>> /\ ReleasesKept
                   \/ \E x \in ItemIds : Changes(x)
                   \/ \E s \in ScopeIds : RunClosers(s)
<1>0. /\ \A s \in ScopeIds : AssertOpen(s) => scope[s].stage = "open"
      /\ \A i \in ItemIds : ItemAgrees(i)
      /\ NoScope \notin ScopeIds
  BY ScopeNumbers DEF AssertOpen, ItemsAgree
<1>1. ASSUME NEW s \in ScopeIds,
             \/ NewScope(s) \/ Cancel(s) \/ Trap(s) \/ Close(s) \/ CloseChildren(s)
             \/ AwaitPending(s) \/ AwaitReleases(s)
             \/ Finalized(s) \/ Drains(s) \/ Closed(s)
      PROVE  Goal
  <2>1. UNCHANGED <<items, item, cleanups>>
    BY <1>1 DEF NewScope, Cancel, Trap, Close, CloseChildren, AwaitPending,
                AwaitReleases, Finalized, Drains, Closed
  <2>2. releases \in [ScopeIds -> SUBSET ItemIds] BY DEF TypeOK
  <2>3. releases' = releases \/ Drains(s) \/ Finalized(s)
    BY <1>1
    DEF NewScope, Cancel, Trap, Close, CloseChildren, AwaitPending, AwaitReleases,
        Closed
  <2>4. ASSUME releases' = releases PROVE ReleasesKept
    BY <2>2, <2>4 DEF ReleasesKept
  <2>5. ASSUME Drains(s) PROVE ReleasesKept
    BY <2>2, <2>5 DEF Drains, Drained, ReleasesKept
  <2>6. ASSUME Finalized(s) PROVE ReleasesKept
    BY <2>2, <2>6 DEF Finalized, ReleasesKept
  <2> QED BY <2>1, <2>3, <2>4, <2>5, <2>6
<1>2. ASSUME NEW s \in ScopeIds, Grant(s) \/ OnExit(s) \/ Own(s) \/ Acquire(s)
      PROVE  Goal
  BY <1>2, AdmitSteps
<1>5. ASSUME NEW i \in ItemIds, NEW fails \in BOOLEAN, item' = Ended(i, fails),
             items' = items, cleanups' = cleanups,
             item[i].state \notin {"none", "live", "registered", "over"},
             releases' = releases
               \/ releases' = [releases EXCEPT ![item[i].scope] = @ \ {i}]
      PROVE  Goal
  <2>1. /\ OneItem(i) /\ item'[i].state = "over" /\ item'[i].older = {}
        /\ item'[i].mask = NoScope /\ item'[i].exit = item[i].exit
        /\ item'[i].late = item[i].late
    BY <1>5, EndedFields
  <2>2. ItemAgrees(i)' BY <1>0, <1>5, <2>1, StaysMade DEF ItemAgrees, OneItem
  <2>3. ReleasesFollow(i)
    <3>1. releases \in [ScopeIds -> SUBSET ItemIds] BY DEF TypeOK
    <3> QED BY <1>5, <2>1, <3>1 DEF ReleasesFollow
  <2>4. Changes(i) BY <1>5, <2>1, <2>2, <2>3, QuietChange DEF Unlisted
  <2> QED BY <2>4
<1>6. ASSUME NEW i \in ItemIds,
             NEW state \in {"requested", "creating", "discarding"},
             NEW aborted \in BOOLEAN, InProgress(i),
             item' = [item EXCEPT ![i] = [item[i] EXCEPT !.state = state,
                                                         !.aborted = aborted]],
             items' = items, cleanups' = cleanups, releases' = releases
      PROVE  Goal
  <2>1. /\ OneItem(i) /\ item'[i].state = state
        /\ item'[i].exit = item[i].exit /\ item'[i].older = item[i].older
        /\ item'[i].failed = item[i].failed /\ item'[i].mask = item[i].mask
        /\ item'[i].late = item[i].late
    BY <1>6, AcquiringFields
  <2>2. item[i].kind = "lease"
        /\ item[i].state \in {"requested", "creating", "discarding"}
    BY <1>6 DEF InProgress
  <2>3. ItemAgrees(i)' BY <1>0, <1>6, <2>1, <2>2, StaysMade DEF ItemAgrees, OneItem
  <2>4. ReleasesFollow(i) BY <1>6, <2>1, NothingReleased
  <2>5. Changes(i) BY <1>6, <2>1, <2>2, <2>3, <2>4, QuietChange DEF Unlisted
  <2> QED BY <2>5
<1>7. ASSUME NEW i \in ItemIds, Disown(i) \/ AcquireFails(i) PROVE Goal
  <2>1. PICK f \in BOOLEAN : f = FALSE OBVIOUS
  <2> QED BY <1>5, <1>7, <2>1 DEF Disown, AcquireFails
<1>8. ASSUME NEW i \in ItemIds, NEW fails \in Fails, CloserEnds(i, fails)
      PROVE  Goal
  <2>1. fails \in BOOLEAN BY FailsType
  <2> QED BY <1>5, <1>8, <2>1 DEF CloserEnds
<1>9. ASSUME NEW i \in ItemIds, NEW fails \in Fails, Disposed(i, fails)
      PROVE  Goal
  <2>1. PICK f \in BOOLEAN : f = (fails /\ scope[item[i].scope].stage # "open")
    BY FailsType
  <2>2. item' = Ended(i, f) BY <1>9, <2>1 DEF Disposed
  <2> QED BY <1>5, <1>9, <2>2 DEF Disposed
<1>10. ASSUME NEW i \in ItemIds, MaskCloses(i) PROVE Goal
  <2>1. PICK f \in BOOLEAN : f = (item[i].failed \/ scope[item[i].mask].failed)
    OBVIOUS
  <2>2. item' = Ended(i, f) BY <1>10, <2>1 DEF MaskCloses
  <2> QED BY <1>5, <1>10, <2>2 DEF MaskCloses
<1>11. ASSUME NEW i \in ItemIds, AbortAcquire(i) PROVE Goal
  <2>1. PICK st : st = item[i].state OBVIOUS
  <2>2. st \in {"requested", "creating", "discarding"} BY <1>11, <2>1 DEF AbortAcquire, InProgress
  <2>3. item' = [item EXCEPT ![i] = [item[i] EXCEPT !.state = st, !.aborted = TRUE]]
    <3>1. item[i] \in Item BY ItemTypes
    <3>2. [item[i] EXCEPT !.aborted = TRUE]
            = [item[i] EXCEPT !.state = st, !.aborted = TRUE]
      BY <2>1, <3>1 DEF Item
    <3> QED BY <1>11, <3>2 DEF AbortAcquire
  <2>4. PICK f \in BOOLEAN : f BY TRUE \in BOOLEAN
  <2>5. item' = [item EXCEPT ![i] = [item[i] EXCEPT !.state = st, !.aborted = f]]
    BY <2>3, <2>4
  <2> QED BY <1>6, <1>11, <2>2, <2>5 DEF AbortAcquire
<1>12. ASSUME NEW i \in ItemIds, NEW state \in {"requested", "creating", "discarding"},
              InProgress(i), item' = [item EXCEPT ![i].state = state],
              items' = items, cleanups' = cleanups, releases' = releases
       PROVE  Goal
  <2>1. PICK f \in BOOLEAN : f = item[i].aborted BY ItemTypes DEF Item
  <2>2. item' = [item EXCEPT ![i] = [item[i] EXCEPT !.state = state, !.aborted = f]]
    <3>1. item[i] \in Item BY ItemTypes
    <3>2. [item[i] EXCEPT !.state = state]
            = [item[i] EXCEPT !.state = state, !.aborted = f]
      BY <2>1, <3>1 DEF Item
    <3> QED BY <1>12, <3>2
  <2> QED BY <1>6, <1>12, <2>2
<1>13. ASSUME NEW i \in ItemIds, Creates(i) PROVE Goal
  <2>1. item[i].state = "requested" /\ InProgress(i)
    BY <1>0, <1>13 DEF Creates, InProgress, ItemAgrees
  <2>2. CASE Aborted(i)
    <3>1. PICK f \in BOOLEAN : f = FALSE OBVIOUS
    <3> QED BY <1>5, <1>13, <2>1, <2>2, <3>1 DEF Creates
  <2>3. CASE ~Aborted(i) BY <1>12, <1>13, <2>1, <2>3 DEF Creates
  <2> QED BY <2>2, <2>3
<1>14. ASSUME NEW i \in ItemIds, NEW registers \in BOOLEAN, Created(i, registers)
       PROVE  Goal
  <2>1. item[i].state = "creating" /\ InProgress(i) /\ items' = items
    BY <1>0, <1>14 DEF Created, InProgress, ItemAgrees
  <2>2. CASE registers /\ ~Late(i)
    <3>1. /\ i <= items /\ item[i].scope \in ScopeIds
          /\ scope[item[i].scope].stage # "unused"
      BY <2>1, MadeInScope
    <3>2. PICK t \in ScopeIds : t = item[i].scope BY <3>1
    <3>3. AppendCleanup(i, t, [item[i] EXCEPT !.state = "live"])
      BY <1>14, <2>2, <3>2 DEF Created
    <3>4. /\ OneItem(i) /\ item'[i].state = "live" /\ item'[i].older = Registered(t)
          /\ item'[i].exit = item[i].exit /\ item'[i].failed = item[i].failed
          /\ item'[i].mask = item[i].mask /\ item'[i].late = item[i].late
      BY <3>3, LiveFields
    <3>5. ItemAgrees(i)' BY <1>0, <2>1, <3>4, StaysMade DEF ItemAgrees, OneItem
    <3>6. cleanups' = [cleanups EXCEPT ![t] = Push(@, i)]
      BY <3>3 DEF AppendCleanup
    <3>7. items' \in 0..MaxItems /\ i <= items' BY <2>1, <3>1, ItemTypes
    <3>9. ReleasesFollow(i) BY <1>14, <3>4, NothingReleased DEF Created
    <3>8. Changes(i)
      BY <2>1, <3>9, <3>1, <3>2, <3>4, <3>5, <3>6, <3>7, PushChange DEF OneItem
    <3> QED BY <3>8
  <2>3. CASE ~(registers /\ ~Late(i)) BY <1>12, <1>14, <2>1, <2>3 DEF Created
  <2> QED BY <2>2, <2>3
<1>15. ASSUME NEW i \in ItemIds, NEW fails \in Fails, FinalizerEnds(i, fails)
       PROVE  Goal
  <2>1. fails \in BOOLEAN BY FailsType
  <2>2. /\ item[i].state = "running" /\ item[i].kind = "finalizer"
        /\ items' = items /\ cleanups' = cleanups
        /\ item' = [item EXCEPT ![i].state = "closing", ![i].failed = fails]
    BY <1>15 DEF FinalizerEnds
  <2>3. /\ OneItem(i) /\ item'[i].state = "closing" /\ item'[i].older = item[i].older
        /\ item'[i].exit = item[i].exit /\ item'[i].mask = item[i].mask
        /\ item'[i].late = item[i].late
    BY <2>1, <2>2, ReturnedFields
  <2>4. ItemAgrees(i)' BY <1>0, <2>2, <2>3, StaysMade DEF ItemAgrees, OneItem
  <2>5. ReleasesFollow(i) BY <1>15, <2>3, NothingReleased DEF FinalizerEnds
  <2>6. Changes(i) BY <2>2, <2>3, <2>4, <2>5, QuietChange DEF Unlisted
  <2> QED BY <2>6
<1>16. ASSUME NEW i \in ItemIds, NEW byExit \in BOOLEAN, items' = items,
              item[i].kind = "lease", item[i].state = "live",
              ReleaseResource(i, byExit),
              byExit => \A k \in ItemIds : i \in item[k].older => item[k].late
       PROVE  Goal
  <2>1. i <= items /\ item[i].scope \in ScopeIds
    BY <1>0, <1>16, ItemTypes, ScopeNumbers DEF ItemAgrees, NoItemRecord, ScopeIds
  <2>2. /\ OneItem(i) /\ item'[i].state = "releasing"
        /\ (item'[i].exit <=> byExit) /\ item'[i].older = item[i].older
        /\ item'[i].failed = item[i].failed /\ item'[i].mask = item[i].mask
        /\ cleanups' = Unlinked(i) /\ releases' \in [ScopeIds -> SUBSET ItemIds]
        /\ \A s \in ScopeIds : releases'[s] =
             IF s = item[i].scope THEN releases[s] \union {i} ELSE releases[s]
    BY <1>16, <2>1, ReleasedFields
  <2>3. ItemAgrees(i)' BY <1>0, <1>16, <2>2, StaysMade DEF ItemAgrees, OneItem
  <2>4. byExit \/ item'[i].exit = item[i].exit
    <3>1. ~item[i].exit BY <1>0, <1>16 DEF ItemAgrees
    <3>2. item[i].exit \in BOOLEAN BY ItemTypes
    <3>3. item'[i].exit \in BOOLEAN BY <2>2 DEF OneItem, Item
    <3> QED BY <2>2, <3>1, <3>2, <3>3
  <2>5. ReleasesFollow(i) BY <2>1, <2>2 DEF OneItem, ReleasesFollow
  <2>7. ~item[i].late BY <1>0, <1>16 DEF ItemAgrees
  <2>6. Changes(i)
    BY <1>16, <2>2, <2>3, <2>4, <2>5, <2>7, UnlinkChange DEF Unlisted
  <2> QED BY <2>6
<1>17. ASSUME NEW i \in ItemIds, Release(i) PROVE Goal
  <2>1. PICK f \in BOOLEAN : f = FALSE OBVIOUS
  <2> QED BY <1>16, <1>17, <2>1 DEF Release
<1>18. ASSUME NEW s \in ScopeIds, FinalizeLease(s) PROVE Goal
  <2>1. PICK f \in BOOLEAN : f = TRUE OBVIOUS
  <2>2. PICK i \in ItemIds :
          /\ Finalizes(s, i) /\ item[i].kind = "lease"
          /\ ReleaseResource(i, f) /\ items' = items
    BY <1>18, <2>1 DEF FinalizeLease
  <2>3. item[i].state = "live" BY <2>2, FinalizesLast
  <2>4. \A k \in ItemIds : i \in item[k].older => item[k].late
    BY <2>2, LastIsUnneeded
  <2> QED BY <1>16, <2>2, <2>3, <2>4
<1>19. ASSUME NEW s \in ScopeIds, FinalizeGuest(s) PROVE Goal
  <2>1. PICK i \in ItemIds :
          /\ Finalizes(s, i) /\ item[i].kind = "finalizer"
          /\ scopes' = scopes + 1 /\ items' = items /\ cleanups' = Unlinked(i)
          /\ item' = [item EXCEPT ![i].state = "running", ![i].exit = TRUE,
                                  ![i].mask = scopes + 1]
          /\ releases' = releases
    BY <1>19 DEF FinalizeGuest
  <2>3. item[i].state = "registered" BY <2>1, FinalizesLast
  <2>4. \A k \in ItemIds : i \in item[k].older => item[k].late
    BY <2>1, LastIsUnneeded
  <2>5. PICK n \in ScopeIds : n = scopes + 1 BY <2>1, NextTree
  <2>6. /\ OneItem(i) /\ item'[i].state = "running" /\ item'[i].older = item[i].older
        /\ item'[i].exit /\ item'[i].failed = item[i].failed /\ item'[i].mask = n
        /\ item'[i].late = item[i].late
    BY <2>1, <2>5, StartedFields
  <2>7. ItemAgrees(i)' BY <1>0, <2>1, <2>3, <2>6, StaysMade DEF ItemAgrees, OneItem
  <2>8. ReleasesFollow(i) BY <2>1, <2>6, NothingReleased
  <2>9. Changes(i)
    BY <2>1, <2>3, <2>4, <2>6, <2>7, <2>8, UnlinkChange DEF Unlisted
  <2> QED BY <2>9
<1>20. ASSUME NEW s \in ScopeIds, SkipGuest(s) PROVE Goal
  <2>1. PICK i \in ItemIds :
          /\ Finalizes(s, i) /\ item[i].kind = "finalizer"
          /\ items' = items /\ cleanups' = Unlinked(i)
          /\ item' = [Ended(i, FALSE) EXCEPT ![i].exit = TRUE]
          /\ releases' = releases
    BY <1>20 DEF SkipGuest
  <2>3. item[i].state = "registered" BY <2>1, FinalizesLast
  <2>4. \A k \in ItemIds : i \in item[k].older => item[k].late
    BY <2>1, LastIsUnneeded
  <2>5. /\ OneItem(i) /\ item'[i].state = "over" /\ item'[i].older = {}
        /\ item'[i].mask = NoScope /\ ~item'[i].failed
        /\ item'[i].late = item[i].late
    BY <2>1, SkippedFields
  <2>6. ItemAgrees(i)' BY <1>0, <2>1, <2>3, <2>5, StaysMade DEF ItemAgrees, OneItem
  <2>7. ReleasesFollow(i) BY <2>1, <2>5, NothingReleased
  <2>8. Changes(i)
    BY <2>1, <2>3, <2>4, <2>5, <2>6, <2>7, UnlinkChange DEF Unlisted
  <2> QED BY <2>8
<1>21. ASSUME NEW s \in ScopeIds, RunClosers(s) PROVE Goal BY <1>21
<1> HIDE DEF Goal
<1>22. Goal
  BY <1>1, <1>2, <1>7, <1>8, <1>9, <1>10, <1>11, <1>13, <1>14, <1>15,
     <1>17, <1>18, <1>19, <1>20, <1>21
  DEF Next, Closing, Ending
<1> QED BY <1>22 DEF Goal

-----------------------------------------------------------------------------
(* The parts of the invariant that are about items.                        *)

(* What a scope is below and whom it belongs to is settled when it is made;*)
(* a failure is not forgotten, nor that a guest has trapped.               *)
LEMMA ScopesKept ==
  ASSUME IInv, Next, NEW s \in ScopeIds, scope[s].stage # "unused"
  PROVE  /\ scope'[s].parent = scope[s].parent /\ scope'[s].above = scope[s].above
         /\ scope'[s].owner = scope[s].owner /\ scope'[s].stage # "unused"
         /\ scope[s].failed => scope'[s].failed
         /\ scope[s].stage = "closed" => scope'[s].stage = "closed"
<1> USE DEF IInv, ScopesAgree
<1>1. CASE UNCHANGED <<scopes, scope>> BY <1>1
<1>2. ASSUME NEW p \in ScopeIds, NEW owner \in ScopeIds \union {NoScope},
             NEW n \in ScopeIds, Grows(p, owner, n)
      PROVE  /\ scope'[s].parent = scope[s].parent /\ scope'[s].above = scope[s].above
             /\ scope'[s].owner = scope[s].owner
             /\ scope'[s].failed = scope[s].failed
             /\ \/ scope'[s].stage = scope[s].stage
                \/ scope[s].stage = "drained" /\ scope'[s].stage = "finalizing"
  <2>1. s # n
    <3>1. ~(s > scopes) BY DEF TreeAgrees
    <3>2. s \in Nat /\ scopes \in Nat BY ScopeNumbers
    <3>3. n = scopes + 1 BY <1>2 DEF Grows
    <3> QED BY <3>1, <3>2, <3>3
  <2> QED BY <1>2, <2>1 DEF Grows
<1>3. CASE Proceeds BY <1>3 DEF Proceeds, SameTree
<1>4. ASSUME NEW d \in ScopeIds, Trap(d)
      PROVE  /\ scope'[s].parent = scope[s].parent /\ scope'[s].above = scope[s].above
             /\ scope'[s].owner = scope[s].owner /\ scope'[s].stage = scope[s].stage
             /\ scope'[s].failed = scope[s].failed
  <2>1. scope' = Reclaimed(d) BY <1>4 DEF Trap
  <2> QED BY <2>1, ReclaimedFields
<1>5. ASSUME NEW d \in ScopeIds, Closed(d)
      PROVE  /\ scope'[s].parent = scope[s].parent /\ scope'[s].above = scope[s].above
             /\ scope'[s].owner = scope[s].owner
             /\ scope'[s].stage \in {"closed", scope[s].stage}
             /\ scope[s].failed => scope'[s].failed
  <2>1. PICK f \in BOOLEAN : ~f BY FALSE \in BOOLEAN
  <2>2. /\ scope' = Enter(scope, d, "closed", f) /\ "closed" \in Stage
        /\ scope \in [ScopeIds -> Scope]
    BY <1>5, <2>1 DEF Closed, Stage, TypeOK
  <2>3. /\ \A c \in ScopeIds :
             /\ c # d => scope'[c] = scope[c]
             /\ scope'[c].parent = scope[c].parent /\ scope'[c].above = scope[c].above
             /\ scope'[c].owner = scope[c].owner
        /\ scope'[d].stage = "closed" /\ (scope[d].failed => scope'[d].failed)
    BY <2>2, EnterFields
  <2> QED BY <2>3
<1> QED BY <1>1, <1>2, <1>3, <1>4, <1>5, ScopeSteps

(* Every step keeps the types of the items and of the lists.               *)
LEMMA NextItemTypes ==
  ASSUME IInv, Next
  PROVE  /\ items' \in 0..MaxItems /\ item' \in [ItemIds -> Item]
         /\ cleanups' \in [ScopeIds -> Seq(ItemIds)] /\ items <= items'
<1> USE DEF IInv, ScopesAgree
<1>1. CASE UNCHANGED <<items, item, cleanups>> BY <1>1 DEF TypeOK
<1>2. ASSUME NEW x \in ItemIds, Changes(x)
      PROVE  /\ items' \in 0..MaxItems /\ item' \in [ItemIds -> Item]
             /\ cleanups' \in [ScopeIds -> Seq(ItemIds)] /\ items <= items'
  BY <1>2, ItemTypes DEF Changes, ListsFollow
<1>3. ASSUME NEW s \in ScopeIds, RunClosers(s)
      PROVE  /\ items' \in 0..MaxItems /\ item' \in [ItemIds -> Item]
             /\ cleanups' \in [ScopeIds -> Seq(ItemIds)] /\ items <= items'
  <2>1. item' \in [ItemIds -> Item] BY <1>3, ClosersFields
  <2>2. items' = items /\ cleanups' = cleanups BY <1>3 DEF RunClosers
  <2> QED BY <2>1, <2>2, ItemTypes DEF TypeOK
<1> QED BY <1>1, <1>2, <1>3, ItemSteps

(* Every step keeps what is known of each item.                            *)
LEMMA NextItems ==
  ASSUME IInv, Next
  PROVE  ItemsAgree'
<1> USE DEF IInv, ScopesAgree
<1>1. scopes <= scopes' /\ scopes' \in ScopeIds /\ scopes \in Nat /\ scopes' \in Nat
  BY NextTree, ScopeNumbers
<1>2. \A i \in ItemIds : ItemAgrees(i) BY DEF ItemsAgree
<1>3. items <= items' /\ items \in Nat /\ items' \in Nat BY NextItemTypes, ItemTypes
<1>4. ASSUME NEW i \in ItemIds, item'[i] = item[i], i <= items' => i <= items
      PROVE  ItemAgrees(i)'
  <2>1. i \in Nat BY ItemTypes
  <2>2. i <= items => item[i].scope \in 1..scopes' BY <1>1, <1>2 DEF ItemAgrees
  <2>3. i > items' => i > items BY <1>3, <2>1
  <2> QED BY <1>2, <1>4, <2>2, <2>3 DEF ItemAgrees
<1>5. CASE UNCHANGED <<items, item, cleanups>> BY <1>4, <1>5 DEF ItemsAgree
<1>6. ASSUME NEW x \in ItemIds, Changes(x) PROVE ItemsAgree'
  <2>1. ASSUME NEW i \in ItemIds, i # x PROVE ItemAgrees(i)'
    <3>1. item'[i] = item[i] /\ (items' = items \/ (items' = items + 1 /\ x = items'))
      <4>1. /\ \A k \in ItemIds : k # x => item'[k] = item[k]
            /\ items' = items \/ (items' = items + 1 /\ x = items')
        BY <1>6 DEF Changes
      <4> QED BY <2>1, <4>1
    <3>2. i \in Nat /\ x \in Nat BY ItemTypes
    <3>3. i <= items' => i <= items BY <1>3, <2>1, <3>1, <3>2
    <3> QED BY <1>4, <3>1, <3>3
  <2>2. ItemAgrees(x)' BY <1>6 DEF Changes
  <2> QED BY <2>1, <2>2 DEF ItemsAgree
<1>7. ASSUME NEW s \in ScopeIds, RunClosers(s) PROVE ItemsAgree'
  <2>1. items' = items BY <1>7 DEF RunClosers
  <2>2. \A k \in ItemIds :
          /\ k \notin Owned(s) => item'[k] = item[k]
          /\ k \in Owned(s) => item[k].state = "owned" /\ item'[k].state = "running"
          /\ item'[k].kind = item[k].kind /\ item'[k].scope = item[k].scope
          /\ item'[k].older = item[k].older /\ item'[k].exit = item[k].exit
          /\ item'[k].failed = item[k].failed /\ item'[k].mask = item[k].mask
          /\ item'[k].late = item[k].late
    BY <1>7, ClosersFields
  <2>3. ASSUME NEW i \in ItemIds PROVE ItemAgrees(i)'
    <3>1. CASE i \notin Owned(s) BY <1>4, <2>1, <2>2, <3>1
    <3>2. CASE i \in Owned(s)
      <4>1. item[i].state = "owned" /\ item'[i].state = "running"
            /\ item[i].kind = "closer"
        BY <1>2, <2>2, <3>2 DEF ItemAgrees
      <4>2. i <= items /\ item[i].scope \in 1..scopes'
        BY <1>1, <4>1, MadeInScope DEF ItemsAgree, ItemAgrees
      <4>3. ~(i > items') BY <1>3, <2>1, <4>2, ItemTypes
      <4> QED BY <1>2, <2>2, <4>1, <4>2, <4>3 DEF ItemAgrees
    <3> QED BY <3>1, <3>2
  <2> QED BY <2>3 DEF ItemsAgree
<1> QED BY <1>5, <1>6, <1>7, ItemSteps

(* Every step keeps the order of registrations: what is older is above, in *)
(* front, and not ended by close().                                        *)
LEMMA NextOrder ==
  ASSUME IInv, Next
  PROVE  OrderAgrees'
<1> USE DEF IInv, ScopesAgree
<1>0. \A i, k \in ItemIds : i \in item[k].older =>
        /\ i # k /\ item[i].scope \in Chain(item[k].scope)
        /\ item[i].state \notin Unlisted /\ (item[k].late \/ Spared(i))
  BY DEF OrderAgrees
<1>1. \A s \in ScopeIds : scope[s].stage # "unused" =>
        scope'[s].above \union {s} = Chain(s)
  BY ScopesKept DEF Chain
<1>2. ASSUME NEW k \in ItemIds, NEW i \in item[k].older
      PROVE  /\ i \in ItemIds /\ i <= items /\ k <= items
             /\ item[k].scope \in ScopeIds
             /\ scope[item[k].scope].stage # "unused"
             /\ scope'[item[k].scope].above \union {item[k].scope}
                  = Chain(item[k].scope)
  <2>1. i \in ItemIds BY ItemTypes
  <2>2. item[k].state # "none" /\ item[i].state # "none"
    BY <1>0, <2>1 DEF ItemsAgree, ItemAgrees, Unlisted
  <2> QED BY <1>1, <2>1, <2>2, MadeInScope
<1> DEFINE Agrees(i, k) ==
      /\ i # k /\ item'[i].scope \in scope'[item'[k].scope].above
                                       \union {item'[k].scope}
      /\ item'[i].state \notin Unlisted
      /\ item'[k].late \/ Spared(i)'
<1>3. ASSUME \A k \in ItemIds : \A i \in item'[k].older : Agrees(i, k),
             \A s \in ScopeIds : \A a, b \in 1..Len(cleanups'[s]) :
               cleanups'[s][a] \in item'[cleanups'[s][b]].older => a < b
      PROVE  OrderAgrees'
  BY <1>3 DEF OrderAgrees, Chain
<1>4. CASE UNCHANGED <<items, item, cleanups>>
  <2>1. \A k \in ItemIds : \A i \in item'[k].older : Agrees(i, k)
    BY <1>0, <1>2, <1>4 DEF Spared
  <2>2. \A s \in ScopeIds : \A a, b \in 1..Len(cleanups'[s]) :
          cleanups'[s][a] \in item'[cleanups'[s][b]].older => a < b
    BY <1>4 DEF OrderAgrees
  <2> QED BY <1>3, <2>1, <2>2
<1>5. ASSUME NEW s \in ScopeIds, RunClosers(s) PROVE OrderAgrees'
  <2>1. \A k \in ItemIds :
          /\ k \notin Owned(s) => item'[k] = item[k]
          /\ k \in Owned(s) => item[k].state = "owned"
          /\ item'[k].older = item[k].older /\ item'[k].scope = item[k].scope
          /\ item'[k].late = item[k].late
    BY <1>5, ClosersFields
  <2>2. cleanups' = cleanups BY <1>5 DEF RunClosers
  <2>3. ASSUME NEW k \in ItemIds, NEW i \in item'[k].older PROVE Agrees(i, k)
    <3>1. i \in item[k].older BY <2>1
    <3>2. i \notin Owned(s) BY <1>0, <1>2, <2>1, <3>1 DEF Unlisted
    <3>3. item'[i] = item[i] BY <1>2, <2>1, <3>1, <3>2
    <3> QED BY <1>0, <1>2, <2>1, <3>1, <3>3 DEF Spared
  <2>4. \A c \in ScopeIds : \A a, b \in 1..Len(cleanups'[c]) :
          cleanups'[c][a] \in item'[cleanups'[c][b]].older => a < b
    <3>1. cleanups \in [ScopeIds -> Seq(ItemIds)] BY DEF TypeOK
    <3> QED BY <2>1, <2>2, <3>1 DEF OrderAgrees
  <2> QED BY <1>3, <2>3, <2>4
<1>6. ASSUME NEW x \in ItemIds, Changes(x) PROVE OrderAgrees'
  <2>1. /\ \A k \in ItemIds : k # x => item'[k] = item[k]
        /\ x <= items => item'[x].scope = item[x].scope
        /\ item'[x].scope \in ScopeIds
        /\ scope[item'[x].scope].stage # "unused"
        /\ x \notin item'[x].older
        /\ \A k \in ItemIds : x \in item[k].older =>
             item'[x].state \notin Unlisted /\ (item[k].late \/ Spared(x)')
        /\ item[x].late => item'[x].late
        /\ \/ item'[x].older \subseteq item[x].older
           \/ /\ item'[x].older = Registered(item'[x].scope)
              /\ \A s \in ScopeIds : ~Linked(cleanups[s], x)
    BY <1>6 DEF Changes
  <2>2. item' \in [ItemIds -> Item] /\ cleanups' \in [ScopeIds -> Seq(ItemIds)]
    BY NextItemTypes
  <2>3. ASSUME NEW k \in ItemIds, NEW i \in item[k].older,
               item'[k].scope = item[k].scope, item[k].late => item'[k].late
        PROVE  Agrees(i, k)
    <3>1. /\ i # k /\ item[i].scope \in Chain(item[k].scope)
          /\ item[i].state \notin Unlisted /\ (item[k].late \/ Spared(i))
          /\ i \in ItemIds /\ i <= items
      BY <1>0, <1>2
    <3>2. item[i].scope \in scope'[item[k].scope].above \union {item[k].scope}
      BY <1>2, <3>1
    <3>3. CASE i = x BY <2>1, <2>3, <3>1, <3>2, <3>3
    <3>4. CASE i # x BY <2>1, <2>3, <3>1, <3>2, <3>4 DEF Spared
    <3> QED BY <3>3, <3>4
  <2>4. ASSUME NEW k \in ItemIds, NEW i \in item'[k].older PROVE Agrees(i, k)
    <3>1. CASE k # x BY <2>1, <2>3, <3>1
    <3>2. CASE k = x /\ i \in item[x].older
      <4>1. x <= items BY <1>2, <3>2
      <4> QED BY <2>1, <2>3, <3>2, <4>1
    <3>3. CASE k = x /\ i \notin item[x].older
      <4>1. PICK t \in ScopeIds : t = item'[x].scope BY <2>1
      <4>2. i \in Registered(t) /\ i # x BY <2>1, <3>3, <4>1
      <4>3. PICK y \in Chain(t) : Linked(cleanups[y], i) /\ i \in ItemIds
        BY <4>2 DEF Registered
      <4>4. y \in ScopeIds BY <4>1, ScopeNumbers DEF Chain
      <4>5. item[i].scope = y /\ item[i].state \in {"live", "registered"}
        BY <4>3, <4>4 DEF ListsAgree
      <4>6. ~item[i].exit BY <4>3, <4>5 DEF ItemsAgree, ItemAgrees
      <4>7. item'[i] = item[i] BY <2>1, <4>2, <4>3
      <4>8. scope'[t].above \union {t} = Chain(t) BY <1>1, <2>1, <4>1
      <4> QED BY <3>3, <4>1, <4>2, <4>3, <4>5, <4>6, <4>7, <4>8 DEF Spared, Unlisted
    <3> QED BY <3>1, <3>2, <3>3
  <2>5. ASSUME NEW s \in ScopeIds, NEW a \in 1..Len(cleanups'[s]),
               NEW b \in 1..Len(cleanups'[s]),
               cleanups'[s][a] \in item'[cleanups'[s][b]].older
        PROVE  a < b
    <3>1. PICK p, q \in ItemIds : p = cleanups'[s][a] /\ q = cleanups'[s][b]
      BY <2>2
    <3>2. p \in item'[q].older BY <2>5, <3>1
    <3>3. /\ AddsLast(cleanups[s], cleanups'[s], x)
          /\ (\E k \in ItemIds : x \in item[k].older) =>
               KeepsOrder(cleanups[s], cleanups'[s])
      BY <1>6 DEF Changes, ListsFollow
    <3>4. ASSUME NEW c \in 1..Len(cleanups[s]), NEW d \in 1..Len(cleanups[s]),
                 p = cleanups[s][c], q = cleanups[s][d], c < d => a < b
          PROVE  a < b
      <4>1. CASE p \in item[q].older BY <3>4, <4>1 DEF OrderAgrees
      <4>2. CASE p \notin item[q].older
        <5>1. q = x BY <2>1, <3>2, <4>2
        <5>2. Linked(cleanups[s], x) BY <3>4, <5>1 DEF Linked
        <5> QED BY <2>1, <3>2, <4>2, <5>1, <5>2
      <4> QED BY <4>1, <4>2
    <3>5. CASE p = x
      <4>1. q # x BY <2>1, <3>2, <3>5
      <4>2. x \in item[q].older BY <2>1, <3>1, <3>2, <3>5, <4>1
      <4>3. KeepsOrder(cleanups[s], cleanups'[s]) BY <3>1, <3>3, <4>2
      <4>4. PICK c, d \in 1..Len(cleanups[s]) :
              p = cleanups[s][c] /\ q = cleanups[s][d] /\ (c < d => a < b)
        BY <2>5, <3>1, <4>3 DEF KeepsOrder
      <4> QED BY <3>4, <4>4
    <3>6. CASE p # x
      <4>1. \/ q = x /\ a < b
            \/ \E c, d \in 1..Len(cleanups[s]) :
                 p = cleanups[s][c] /\ q = cleanups[s][d] /\ (c < d => a < b)
        BY <2>5, <3>1, <3>3, <3>6 DEF AddsLast
      <4> QED BY <3>4, <4>1
    <3> QED BY <3>5, <3>6
  <2> HIDE DEF Agrees
  <2> QED BY <1>3, <2>4, <2>5
<1> QED BY <1>4, <1>5, <1>6, ItemSteps

(* Every step keeps the lists: each holds what is live or registered in its*)
(* scope, and #releases what is being released.                            *)
LEMMA NextLists ==
  ASSUME IInv, Next
  PROVE  ListsAgree' /\ releases' \in [ScopeIds -> SUBSET ItemIds]
<1> USE DEF IInv, ScopesAgree
<1>1. \A s \in ScopeIds :
        /\ Distinct(cleanups[s])
        /\ \A i \in ItemIds :
             /\ Linked(cleanups[s], i) <=>
                  item[i].scope = s /\ item[i].state \in {"live", "registered"}
             /\ item[i].scope = s /\ item[i].state = "releasing" => i \in releases[s]
  BY DEF ListsAgree
<1>2. ASSUME \A s \in ScopeIds :
               /\ Distinct(cleanups'[s])
               /\ \A i \in ItemIds :
                    /\ Linked(cleanups'[s], i) <=>
                         item'[i].scope = s /\ item'[i].state \in {"live", "registered"}
                    /\ item'[i].scope = s /\ item'[i].state = "releasing" =>
                         i \in releases'[s]
      PROVE  ListsAgree'
  BY <1>2 DEF ListsAgree
<1>3. CASE UNCHANGED <<items, item, cleanups>> /\ ReleasesKept
  <2>1. \A k \in ItemIds : item[k].state = "releasing" => ~Over(k) BY DEF Over
  <2> QED BY <1>1, <1>2, <1>3, <2>1 DEF ReleasesKept
<1>4. ASSUME NEW x \in ItemIds, Changes(x)
      PROVE  ListsAgree' /\ releases' \in [ScopeIds -> SUBSET ItemIds]
  <2>1. /\ \A k \in ItemIds : k # x => item'[k] = item[k]
        /\ ListsFollow(x) /\ ReleasesFollow(x)
    BY <1>4 DEF Changes
  <2>2. ASSUME NEW s \in ScopeIds
        PROVE  /\ Distinct(cleanups'[s])
               /\ \A i \in ItemIds :
                    /\ Linked(cleanups'[s], i) <=>
                         item'[i].scope = s /\ item'[i].state \in {"live", "registered"}
                    /\ item'[i].scope = s /\ item'[i].state = "releasing" =>
                         i \in releases'[s]
    <3>1. ASSUME NEW i \in ItemIds
          PROVE  /\ Linked(cleanups'[s], i) <=>
                      item'[i].scope = s /\ item'[i].state \in {"live", "registered"}
                 /\ item'[i].scope = s /\ item'[i].state = "releasing" =>
                      i \in releases'[s]
      <4>1. CASE i = x BY <2>1, <4>1 DEF ListsFollow, ReleasesFollow
      <4>2. CASE i # x BY <1>1, <2>1, <4>2 DEF ListsFollow, ReleasesFollow
      <4> QED BY <4>1, <4>2
    <3> QED BY <2>1, <3>1 DEF ListsFollow
  <2>3. releases' \in [ScopeIds -> SUBSET ItemIds] BY <2>1 DEF ReleasesFollow
  <2> QED BY <1>2, <2>2, <2>3
<1>5. ASSUME NEW s \in ScopeIds, RunClosers(s)
      PROVE  ListsAgree' /\ releases' \in [ScopeIds -> SUBSET ItemIds]
  <2>1. \A k \in ItemIds :
          /\ k \notin Owned(s) => item'[k] = item[k]
          /\ k \in Owned(s) => item[k].state = "owned" /\ item'[k].state = "running"
    BY <1>5, ClosersFields
  <2>2. cleanups' = cleanups /\ releases' = releases BY <1>5 DEF RunClosers
  <2>3. releases \in [ScopeIds -> SUBSET ItemIds] BY DEF TypeOK
  <2>4. \A k \in ItemIds :
          item'[k] = item[k] \/ (item[k].state = "owned" /\ item'[k].state = "running")
    BY <2>1
  <2> QED BY <1>1, <1>2, <2>2, <2>3, <2>4
<1> QED BY <1>3, <1>4, <1>5, ItemSteps DEF ReleasesKept

(* What close() waits for has its type after every step.                   *)
LEMMA NextWaits ==
  ASSUME IInv, Next
  PROVE  /\ waits' \in [ScopeIds -> SUBSET (ScopeIds \union ItemIds)]
         /\ current' \in [ScopeIds -> ItemIds \union {NoItem}]
<1> USE DEF IInv, ScopesAgree
<1> DEFINE Goal == /\ waits' \in [ScopeIds -> SUBSET (ScopeIds \union ItemIds)]
                   /\ current' \in [ScopeIds -> ItemIds \union {NoItem}]
<1>1. /\ waits \in [ScopeIds -> SUBSET (ScopeIds \union ItemIds)]
      /\ current \in [ScopeIds -> ItemIds \union {NoItem}]
  BY DEF TypeOK
<1>2. ASSUME NEW s \in ScopeIds, NEW w \in SUBSET (ScopeIds \union ItemIds),
             waits' = [waits EXCEPT ![s] = w], current' = current
      PROVE  Goal
  BY <1>1, <1>2
<1>3. ASSUME NEW s \in ScopeIds, NEW i \in ItemIds \union {NoItem},
             current' = [current EXCEPT ![s] = i], waits' = waits
      PROVE  Goal
  BY <1>1, <1>3
<1>4. ASSUME waits' = waits, current' = current PROVE Goal BY <1>1, <1>4
<1>5. ASSUME NEW s \in ScopeIds,
             \/ RunClosers(s) \/ CloseChildren(s) \/ AwaitPending(s)
             \/ AwaitReleases(s)
      PROVE  Goal
  <2>1. CASE RunClosers(s) BY <1>2, <2>1, ClosersFields DEF RunClosers, Owned
  <2>2. CASE CloseChildren(s)
    <3>1. Awaited(s) \in SUBSET (ScopeIds \union ItemIds) BY DEF Awaited, Children
    <3> QED BY <1>2, <2>2, <3>1 DEF CloseChildren
  <2>3. CASE AwaitPending(s)
    <3>1. Acquisitions(s) \in SUBSET (ScopeIds \union ItemIds) BY DEF Acquisitions
    <3> QED BY <1>2, <2>3, <3>1 DEF AwaitPending
  <2>4. CASE AwaitReleases(s) BY <1>2, <2>4 DEF AwaitReleases
  <2> QED BY <1>5, <2>1, <2>2, <2>3, <2>4
<1>6. ASSUME NEW s \in ScopeIds,
             \/ FinalizeLease(s) \/ FinalizeGuest(s) \/ SkipGuest(s)
             \/ Finalized(s)
      PROVE  Goal
  <2>1. CASE FinalizeLease(s) \/ FinalizeGuest(s) \/ SkipGuest(s)
    <3>1. PICK i \in ItemIds : Finalizes(s, i) /\ waits' = waits
      BY <2>1 DEF FinalizeLease, FinalizeGuest, SkipGuest
    <3> QED BY <1>3, <3>1 DEF Finalizes
  <2>2. CASE Finalized(s) BY <1>3, <2>2 DEF Finalized
  <2> QED BY <1>6, <2>1, <2>2
<1>7. ASSUME NEW s \in ScopeIds,
             \/ NewScope(s) \/ Cancel(s) \/ Trap(s) \/ Close(s)
             \/ Grant(s) \/ OnExit(s) \/ Own(s) \/ Acquire(s)
             \/ Drains(s) \/ Closed(s)
      PROVE  Goal
  BY <1>4, <1>7
  DEF NewScope, Cancel, Trap, Close, Grant, OnExit, Own, Acquire, Drains, Closed,
      closeVars
<1>8. ASSUME NEW i \in ItemIds,
             \/ Disown(i) \/ Release(i) \/ AbortAcquire(i)
             \/ \E registers \in BOOLEAN : Created(i, registers)
             \/ Ending(i)
      PROVE  Goal
  BY <1>4, <1>8
  DEF Disown, Release, AbortAcquire, Created, Ending, Creates, AcquireFails,
      MaskCloses, Disposed, CloserEnds, FinalizerEnds, closeVars
<1> HIDE DEF Goal
<1>9. Goal BY <1>5, <1>6, <1>7, <1>8 DEF Next, Closing
<1> QED BY <1>9 DEF Goal

(* There is one scope more at most.                                        *)
LEMMA ScopesGrow ==
  ASSUME Next
  PROVE  \/ scopes' = scopes
         \/ \E s \in ScopeIds : NewScope(s) \/ FinalizeGuest(s)
BY DEF Next, Closing, Ending, NewScope, Cancel, Trap, Close, Grant, OnExit, Own,
       Acquire, RunClosers, CloseChildren, AwaitPending, AwaitReleases,
       FinalizeLease, FinalizeGuest, SkipGuest, Finalized, Drains, Closed, Disown,
       Release, AbortAcquire, Created, Creates, AcquireFails, MaskCloses, Disposed,
       CloserEnds, FinalizerEnds

(* A finalizer that is added makes one more that waits.                    *)
LEMMA OneMore ==
  ASSUME NEW S, IsFiniteSet(S), NEW x
  PROVE  /\ IsFiniteSet(S \union {x}) /\ Cardinality(S \union {x}) \in Nat
         /\ Cardinality(S \union {x}) <= Cardinality(S) + 1
<1>1. /\ IsFiniteSet(S \union {x})
      /\ Cardinality(S \union {x})
           = IF x \in S THEN Cardinality(S) ELSE Cardinality(S) + 1
  BY FS_AddElement
<1>2. Cardinality(S) \in Nat BY FS_CardinalityType
<1> QED BY <1>1, <1>2

(* Every step leaves a scope for each finalizer that waits.                *)
LEMMA NextRoom ==
  ASSUME IInv, Next
  PROVE  RoomAgrees'
<1> USE DEF IInv, ScopesAgree
<1>1. /\ scopes \in Nat /\ MaxScopes \in Nat /\ IsFiniteSet(Waiting)
      /\ Cardinality(Waiting) \in Nat
  BY WaitingFinite, ScopeNumbers
<1>2. PICK W : W = {i \in ItemIds : item'[i].state = "registered"} OBVIOUS
<1>3. ASSUME scopes' + Cardinality(W) <= MaxScopes PROVE RoomAgrees'
  BY <1>2, <1>3 DEF RoomAgrees, Waiting
<1>4. RoomForScope => scopes + Cardinality(Waiting) < MaxScopes
  BY DEF RoomForScope, Waiting
<1>5. ASSUME scopes' = scopes, W \subseteq Waiting PROVE RoomAgrees'
  <2>1. Cardinality(W) <= Cardinality(Waiting) BY <1>1, <1>5, FS_Subset
  <2>2. Cardinality(W) \in Nat BY <1>1, <1>5, FS_Subset, FS_CardinalityType
  <2> QED BY <1>1, <1>3, <1>5, <2>1, <2>2 DEF RoomAgrees
<1>6. CASE UNCHANGED <<items, item, cleanups>> /\ scopes' = scopes
  BY <1>2, <1>5, <1>6 DEF Waiting
<1>7. ASSUME NEW x \in ItemIds, Changes(x), scopes' = scopes PROVE RoomAgrees'
  <2>1. /\ \A k \in ItemIds : k # x => item'[k] = item[k]
        /\ item'[x].state = "registered" => RoomForScope
    BY <1>7 DEF Changes
  <2>2. CASE item'[x].state # "registered"
    BY <1>2, <1>5, <1>7, <2>1, <2>2 DEF Waiting
  <2>3. CASE item'[x].state = "registered"
    <3>1. W \subseteq Waiting \union {x} BY <1>2, <2>1 DEF Waiting
    <3>2. /\ IsFiniteSet(Waiting \union {x})
          /\ Cardinality(Waiting \union {x}) <= Cardinality(Waiting) + 1
          /\ Cardinality(Waiting \union {x}) \in Nat
      BY <1>1, OneMore
    <3>3. Cardinality(W) <= Cardinality(Waiting \union {x}) /\ Cardinality(W) \in Nat
      BY <3>1, <3>2, FS_Subset, FS_CardinalityType
    <3> QED BY <1>1, <1>3, <1>4, <1>7, <2>1, <2>3, <3>2, <3>3
  <2> QED BY <2>2, <2>3
<1>8. ASSUME NEW s \in ScopeIds, RunClosers(s) PROVE RoomAgrees'
  <2>1. \A k \in ItemIds :
          /\ k \notin Owned(s) => item'[k] = item[k]
          /\ k \in Owned(s) => item'[k].state = "running"
    BY <1>8, ClosersFields
  <2>2. scopes' = scopes BY <1>8 DEF RunClosers
  <2>3. W \subseteq Waiting BY <1>2, <2>1 DEF Waiting
  <2> QED BY <1>5, <2>2, <2>3
<1>9. ASSUME NEW s \in ScopeIds, NewScope(s) PROVE RoomAgrees'
  <2>1. scopes' = scopes + 1 /\ item' = item /\ RoomForScope BY <1>9 DEF NewScope
  <2>2. W = Waiting BY <1>2, <2>1 DEF Waiting
  <2> QED BY <1>1, <1>3, <1>4, <2>1, <2>2
<1>10. ASSUME NEW s \in ScopeIds, FinalizeGuest(s) PROVE RoomAgrees'
  <2>1. PICK i \in ItemIds :
          /\ Finalizes(s, i) /\ item[i].kind = "finalizer" /\ scopes' = scopes + 1
          /\ item' = [item EXCEPT ![i].state = "running", ![i].exit = TRUE,
                                  ![i].mask = scopes + 1]
    BY <1>10 DEF FinalizeGuest
  <2>3. i \in Waiting BY <2>1, FinalizesLast DEF Waiting
  <2>4. PICK n \in ScopeIds : n = scopes + 1 BY <2>1, NextTree
  <2>5. OneItem(i) /\ item'[i].state = "running" BY <2>1, <2>4, StartedFields
  <2>6. W = Waiting \ {i} BY <1>2, <2>5 DEF Waiting, OneItem
  <2>7. Cardinality(Waiting \ {i}) = Cardinality(Waiting) - 1
    BY <1>1, <2>3, FS_RemoveElement
  <2> QED BY <1>1, <1>3, <2>1, <2>6, <2>7 DEF RoomAgrees
<1> QED BY <1>6, <1>7, <1>8, <1>9, <1>10, ItemSteps, ScopesGrow

-----------------------------------------------------------------------------
(* How far close() has come.                                               *)

(* The children of a scope are those it had, and perhaps a new one.        *)
LEMMA OldChildren ==
  ASSUME IInv, Next, NEW c \in ScopeIds, scope'[c].parent # NoScope
  PROVE  \/ /\ scope[c].stage # "unused" /\ scope'[c].parent = scope[c].parent
            /\ scope[c].stage = "closed" => scope'[c].stage = "closed"
            /\ Masked(c)' <=> Masked(c)
         \/ /\ scope[c].stage = "unused"
            /\ c = scopes + 1 /\ scopes' = scopes + 1
<1> USE DEF IInv, ScopesAgree
<1>1. CASE scope[c].stage # "unused" BY <1>1, ScopesKept DEF Masked
<1>2. CASE scope[c].stage = "unused"
  <2>1. c > scopes /\ c \in Nat /\ scopes \in Nat
    BY <1>2, ScopeNumbers DEF TreeAgrees
  <2>2. ~(c > scopes') BY NextTree DEF TreeAgrees
  <2>3. scopes' = scopes \/ scopes' = scopes + 1
    BY ScopesGrow DEF NewScope, FinalizeGuest
  <2> QED BY <1>2, <2>1, <2>2, <2>3
<1> QED BY <1>1, <1>2

(* A scope that is masked is reached by no cancellation but its own.       *)
LEMMA MaskedIsUnreached ==
  ASSUME NEW m \in ScopeIds, Masked(m), NEW s \in ScopeIds, m \in Reached(s)
  PROVE  s = m
BY DEF Reached, Chain, IsWithin

(* The finalizer that runs in a masked scope.                              *)
LEMMA OneMask ==
  ASSUME IInv, NEW i \in ItemIds, NEW k \in ItemIds,
         item[i].kind = "finalizer", item[i].state \in {"running", "closing"},
         item[k].kind = "finalizer", item[k].state \in {"running", "closing"},
         item[i].mask = item[k].mask
  PROVE  i = k
<1> USE DEF IInv, ScopesAgree
<1>1. item[i].scope # NoScope /\ item[k].scope # NoScope BY MadeInScope
<1>2. /\ current[item[i].scope] = i /\ MaskAgrees(i)
      /\ current[item[k].scope] = k /\ MaskAgrees(k)
  BY <1>1 DEF StagesAgree, ItemStage
<1> QED BY <1>2 DEF MaskAgrees

(* The scope of a finalizer that runs is open until the finalizer ends, and*)
(* only a trap cancels it.                                                 *)
LEMMA MaskOpen ==
  ASSUME IInv, Next, NEW m \in ScopeIds, Masked(m), scope[m].stage = "open",
         scope[m].aborted => ~scope[m].guest,
         \A i \in ItemIds, fails \in Fails : FinalizerEnds(i, fails) => item[i].mask # m
  PROVE  /\ scope'[m].stage = "open"
         /\ scope'[m].aborted => ~scope'[m].guest
<1> USE DEF IInv, ScopesAgree
<1> DEFINE Goal == /\ scope'[m].stage = "open"
                   /\ scope'[m].aborted => ~scope'[m].guest
<1>0. scope \in [ScopeIds -> Scope] BY DEF TypeOK
<1>1. ASSUME scope'[m] = scope[m] PROVE Goal BY <1>1
<1>2. ASSUME NEW s \in ScopeIds, NewScope(s) \/ FinalizeGuest(s) PROVE Goal
  <2>1. PICK n \in ScopeIds : n = scopes + 1 BY <1>2, NewScopeGrows, FinalizeGuestGrows
  <2>2. m # n
    <3>1. ~(m > scopes) BY DEF TreeAgrees
    <3>2. m \in Nat /\ scopes \in Nat BY ScopeNumbers
    <3> QED BY <2>1, <3>1, <3>2
  <2>3. CASE NewScope(s) BY <1>1, <2>1, <2>2, <2>3, NewScopeGrows
  <2>4. CASE FinalizeGuest(s)
    <3>1. m # s BY <2>4, FinalizeGuestGrows
    <3> QED BY <1>1, <2>1, <2>2, <2>4, <3>1, FinalizeGuestGrows
  <2> QED BY <1>2, <2>3, <2>4
<1>3. ASSUME NEW S \in SUBSET ScopeIds, m \notin S, NEW t, t = BeginClose(S)
      PROVE  /\ t \in [ScopeIds -> Scope] /\ t[m].stage = "open"
             /\ t[m].guest = scope[m].guest /\ (t[m].aborted <=> scope[m].aborted)
  <2>1. /\ t \in [ScopeIds -> Scope] /\ t[m].guest = scope[m].guest
        /\ t[m].stage = scope[m].stage
        /\ t[m].aborted <=> scope[m].aborted \/ \E s \in S : m \in Reached(s)
    BY <1>3, BeginCloseFields
  <2>2. \A s \in S : m \notin Reached(s) BY <1>3, MaskedIsUnreached
  <2> QED BY <2>1, <2>2
<1>4. ASSUME NEW s \in ScopeIds, Cancel(s) PROVE Goal
  <2>1. s # m /\ scope' = Abort(scope, {s}) BY <1>4 DEF Cancel
  <2>2. /\ scope'[m].guest = scope[m].guest /\ scope'[m].stage = scope[m].stage
        /\ scope'[m].aborted <=> scope[m].aborted \/ \E d \in {s} : m \in Reached(d)
    BY <1>0, <2>1, AbortFields
  <2>3. m \notin Reached(s) BY <2>1, MaskedIsUnreached
  <2> QED BY <2>2, <2>3
<1>5. ASSUME NEW s \in ScopeIds, Trap(s) PROVE Goal
  <2>1. scope' = Reclaimed(s) BY <1>5 DEF Trap
  <2>2. /\ scope'[m].stage = scope[m].stage
        /\ IsWithin(m, s) => ~scope'[m].guest
        /\ ~IsWithin(m, s) => scope'[m] = scope[m]
    BY <2>1, ReclaimedFields
  <2> QED BY <2>2
<1>6. ASSUME NEW s \in ScopeIds, Close(s) PROVE Goal
  <2>1. m \notin {s} /\ scope' = BeginClose({s}) BY <1>6 DEF Close
  <2> QED BY <1>3, <2>1
<1>7. ASSUME NEW i \in ItemIds, NEW fails \in Fails, FinalizerEnds(i, fails)
      PROVE  Goal
  <2>1. m \notin {item[i].mask} /\ scope' = BeginClose({item[i].mask})
        /\ item[i].kind = "finalizer" /\ item[i].state = "running"
    BY <1>7 DEF FinalizerEnds
  <2>2. item[i].scope # NoScope BY <2>1, MadeInScope
  <2>3. item[i].mask \in ScopeIds BY <2>1, <2>2 DEF StagesAgree, ItemStage, MaskAgrees
  <2> QED BY <1>3, <2>1, <2>3
<1>8. ASSUME NEW s \in ScopeIds, NEW t \in [ScopeIds -> Scope],
             NEW stage \in Stage, NEW fails \in BOOLEAN, s # m,
             scope' = Enter(t, s, stage, fails)
      PROVE  scope'[m] = t[m]
  BY <1>8, EnterFields
<1>9. ASSUME NEW s \in ScopeIds, CloseChildren(s) PROVE Goal
  <2> DEFINE S == {c \in Children(s) : scope[c].stage = "open"}
  <2>1. /\ scope[s].stage = "closers"
        /\ scope' = Enter(BeginClose(S), s, "children", Failures(waits[s]))
    BY <1>9 DEF CloseChildren
  <2>2. S \in SUBSET ScopeIds BY DEF Children
  <2>3. m \notin S
    <3>1. current[s] = NoItem BY <2>1 DEF StagesAgree, ScopeStage
    <3> QED BY <3>1 DEF StagesAgree, ScopeStage
  <2> HIDE DEF S
  <2>4. PICK t : t = BeginClose(S) OBVIOUS
  <2>5. PICK f \in BOOLEAN : f = Failures(waits[s]) BY DEF Failures
  <2>6. /\ t \in [ScopeIds -> Scope] /\ t[m].stage = "open"
        /\ t[m].guest = scope[m].guest /\ (t[m].aborted <=> scope[m].aborted)
    BY <1>3, <2>2, <2>3, <2>4
  <2>7. scope'[m] = t[m] BY <1>8, <2>1, <2>4, <2>5, <2>6 DEF Stage
  <2> QED BY <2>6, <2>7
<1>10. ASSUME NEW s \in ScopeIds,
              \/ RunClosers(s) \/ AwaitPending(s) \/ AwaitReleases(s) \/ Drains(s)
              \/ FinalizeLease(s) \/ SkipGuest(s) \/ Finalized(s) \/ Closed(s)
       PROVE  Goal
  <2>1. s # m
    <3>1. FinalizeLease(s) \/ SkipGuest(s) => scope[s].stage = "drained"
      BY DEF FinalizeLease, SkipGuest, Finalizes
    <3> QED
      BY <1>10, <3>1
      DEF RunClosers, AwaitPending, AwaitReleases, Drains, Finalized, Closed
  <2>2. \E stage \in Stage, fails \in BOOLEAN : scope' = Enter(scope, s, stage, fails)
    <3>1. Finalized(s) => item[current[s]].failed \in BOOLEAN
      BY ItemTypes DEF Finalized, TypeOK, StagesAgree, ScopeStage
    <3>2. /\ "closers" \in Stage /\ "pending" \in Stage /\ "releases" \in Stage
          /\ "drained" \in Stage /\ "finalizing" \in Stage /\ "closed" \in Stage
      BY DEF Stage
    <3>3. (\E c \in waits[s] : scope[c].failed) \in BOOLEAN
          /\ Failures(releases[s]) \in BOOLEAN /\ Collected(s) \in BOOLEAN
          /\ FALSE \in BOOLEAN
      BY DEF Failures, Collected
    <3> QED
      BY <1>10, <3>1, <3>2, <3>3
      DEF RunClosers, AwaitPending, AwaitReleases, Drains, FinalizeLease, SkipGuest,
          Finalized, Closed
  <2> QED BY <1>0, <1>1, <1>8, <2>1, <2>2
<1>11. ASSUME UNCHANGED scope PROVE Goal BY <1>1, <1>11
<1> HIDE DEF Goal
<1>12. ASSUME NEW s \in ScopeIds,
              Grant(s) \/ OnExit(s) \/ Own(s) \/ Acquire(s)
       PROVE  Goal
  BY <1>11, <1>12 DEF Grant, OnExit, Own, Acquire
<1>13. ASSUME NEW i \in ItemIds,
              \/ Disown(i) \/ Release(i) \/ AbortAcquire(i)
              \/ \E registers \in BOOLEAN : Created(i, registers)
              \/ Creates(i) \/ AcquireFails(i) \/ MaskCloses(i)
              \/ \E fails \in Fails : Disposed(i, fails) \/ CloserEnds(i, fails)
       PROVE  Goal
  BY <1>11, <1>13 DEF Disown, Release, AbortAcquire, Created, Creates, AcquireFails,
               MaskCloses, Disposed, CloserEnds
<1>14. Goal
  BY <1>2, <1>4, <1>5, <1>6, <1>7, <1>9, <1>10, <1>12, <1>13
  DEF Next, Closing, Ending
<1> QED BY <1>14 DEF Goal

(* The scope of a finalizer stays its scope while the finalizer goes on.   *)
LEMMA MaskStays ==
  ASSUME IInv, Next, NEW k \in ItemIds, item'[k] = item[k],
         item[k].kind = "finalizer", item[k].state \in {"running", "closing"}
  PROVE  MaskAgrees(k)'
<1> USE DEF IInv, ScopesAgree
<1>1. item[k].scope # NoScope BY MadeInScope
<1>2. MaskAgrees(k) BY <1>1 DEF StagesAgree, ItemStage
<1>3. PICK m \in ScopeIds : m = item[k].mask BY <1>2 DEF MaskAgrees
<1>4. /\ scope'[m].parent = scope[m].parent /\ scope'[m].owner = scope[m].owner
      /\ scope'[m].stage # "unused"
  BY <1>2, <1>3, ScopesKept DEF MaskAgrees
<1>5. ASSUME item[k].state = "running"
      PROVE  scope'[m].stage = "open" /\ (scope'[m].aborted => ~scope'[m].guest)
  <2>1. Masked(m) BY <1>1, <1>2, <1>3 DEF MaskAgrees, Masked
  <2>2. ASSUME NEW i \in ItemIds, NEW fails \in Fails, FinalizerEnds(i, fails)
        PROVE  item[i].mask # m
    <3>1. /\ item[i].kind = "finalizer" /\ item[i].state = "running"
          /\ item' = [item EXCEPT ![i].state = "closing", ![i].failed = fails]
      BY <2>2 DEF FinalizerEnds
    <3>2. fails \in BOOLEAN BY FailsType
    <3>3. item'[i].state = "closing" BY <3>1, <3>2, ReturnedFields
    <3>4. i # k BY <1>5, <3>3
    <3> QED BY <1>3, <3>1, <3>4, OneMask
  <2> QED BY <1>2, <1>3, <1>5, <2>1, <2>2, MaskOpen DEF MaskAgrees
<1> QED BY <1>2, <1>3, <1>4, <1>5 DEF MaskAgrees

\* A scope is where it was, or it is new, or its close() has just begun.
Later(s) ==
  \/ scope'[s].stage = scope[s].stage
  \/ scope[s].stage = "unused" /\ scope'[s].stage = "open"
  \/ scope[s].stage = "open" /\ scope'[s].stage = "scheduled"

(* An item that does not change is no problem for a scope that does not go *)
(* on, or whose close() begins.                                            *)
LEMMA ItemStageStays ==
  ASSUME IInv, Next, NEW k \in ItemIds, NEW s \in ScopeIds, item[k].scope = s,
         item'[k] = item[k], Later(s),
         k \in waits[s] => k \in waits'[s],
         current[s] = k => current'[s] = k \/ item[k].state = "over",
         item[k].failed /\ scope[s].stage # "open" /\ k \in releases[s] =>
           k \in releases'[s] \/ scope'[s].failed,
         item[k].failed /\ current[s] = k => current'[s] = k \/ scope'[s].failed
  PROVE  ItemStage(k)'
<1> USE DEF IInv, ScopesAgree
<1>1. s # NoScope BY ScopeNumbers
<1>2. ItemStage(k) BY <1>1 DEF StagesAgree
<1>3. item[k].kind = "finalizer" /\ item[k].state \in {"running", "closing"} =>
        MaskAgrees(k)'
  BY MaskStays
<1>4. scope[s].failed => scope'[s].failed BY MadeInScope, ScopesKept, <1>1
<1>5. item[k].scope = s /\ item'[k].scope = s OBVIOUS
<1>6. InProgress(k)' <=> InProgress(k) BY DEF InProgress
<1>7. scope[s].stage # "unused" BY <1>1, MadeInScope
<1> QED BY <1>2, <1>3, <1>4, <1>5, <1>6, <1>7 DEF ItemStage, Looked, Later

(* A scope that does not go on, or whose close() begins, keeps what close()*)
(* waits for and its children.                                             *)
LEMMA ScopeStageStays ==
  ASSUME IInv, Next, NEW s \in ScopeIds, Later(s), current'[s] = current[s],
         NEW i, i = current[s],
         i # NoItem =>
           /\ item'[i].scope = item[i].scope /\ item'[i].kind = item[i].kind
           /\ item'[i].state \in {"releasing", "running", "closing", "over"}
           /\ \/ item'[i].mask = item[i].mask
              \/ \A c \in Children(s) : c # item[i].mask,
         scope[s].stage = "children" => waits'[s] = waits[s],
         \A c \in ScopeIds : scope'[c].parent = s /\ scope[c].stage = "unused" =>
           ~Masked(c)' /\ scope'[s].stage = "open"
  PROVE  ScopeStage(s)'
<1> USE DEF IInv, ScopesAgree
<1>1. ScopeStage(s) BY DEF StagesAgree
<1>2. s # NoScope BY ScopeNumbers
<1>3. /\ current'[s] # NoItem <=> scope'[s].stage = "finalizing"
      /\ current'[s] # NoItem =>
           /\ item'[current'[s]].scope = s
           /\ item'[current'[s]].state \in {"releasing", "running", "closing", "over"}
           /\ item'[current'[s]].kind # "closer"
  BY <1>1 DEF ScopeStage, Later
<1>4. ASSUME NEW c \in ScopeIds, scope'[c].parent = s, scope'[c].stage # "closed"
      PROVE  \/ /\ Masked(c)' /\ current'[s] # NoItem /\ item'[current'[s]].mask = c
             \/ /\ ~Masked(c)'
                /\ \/ scope'[s].stage \in {"open", "scheduled", "closers"}
                   \/ scope'[s].stage = "children" /\ c \in waits'[s]
  <2>1. CASE scope[c].stage = "unused" BY <1>4, <2>1
  <2>2. CASE scope[c].stage # "unused"
    <3>1. /\ scope[c].parent = s /\ scope[c].stage # "closed"
          /\ Masked(c)' <=> Masked(c)
      BY <1>2, <1>4, <2>2, OldChildren
    <3>2. c \in Children(s) BY <3>1 DEF Children
    <3> QED BY <1>1, <3>1, <3>2 DEF ScopeStage, Later
  <2> QED BY <2>1, <2>2
<1> QED BY <1>3, <1>4 DEF ScopeStage, Children

(* Where only scopes change, and none is past the beginning of its close(),*)
(* close() is as far as it was everywhere.                                 *)
LEMMA ScopesOnly ==
  ASSUME IInv, Next, UNCHANGED <<item, releases, waits, current>>,
         \A s \in ScopeIds : Later(s),
         \A s, c \in ScopeIds : scope'[c].parent = s /\ scope[c].stage = "unused" =>
           ~Masked(c)' /\ scope'[s].stage = "open"
  PROVE  StagesAgree'
<1> USE DEF IInv, ScopesAgree
<1>1. ASSUME NEW k \in ItemIds, item'[k].scope # NoScope PROVE ItemStage(k)'
  <2>1. PICK s \in ScopeIds : item[k].scope = s BY <1>1, ItemTypes
  <2> QED BY <2>1, ItemStageStays
<1>2. ASSUME NEW s \in ScopeIds PROVE ScopeStage(s)'
  <2>1. ScopeStage(s) BY DEF StagesAgree
  <2>2. PICK i : i = current[s] OBVIOUS
  <2>3. i # NoItem => item[i].state \in {"releasing", "running", "closing", "over"}
    BY <2>1, <2>2 DEF ScopeStage
  <2> QED BY <2>2, <2>3, ScopeStageStays
<1> QED BY <1>1, <1>2 DEF StagesAgree

(* Where only item x goes on, and what is known of it holds again, close() *)
(* is as far as it was everywhere.                                         *)
LEMMA ItemOnly ==
  ASSUME IInv, Next, UNCHANGED <<scopes, scope, waits, current>>, NEW x \in ItemIds,
         \A k \in ItemIds : k # x => item'[k] = item[k],
         ItemStage(x)',
         \A s \in ScopeIds :
           /\ scope[s].stage # "open" =>
                \A k \in ItemIds : k \in releases[s] /\ k # x => k \in releases'[s]
           /\ current[s] = x =>
                /\ item'[x].scope = item[x].scope /\ item'[x].kind = item[x].kind
                /\ item'[x].state \in {"releasing", "running", "closing", "over"}
                /\ \/ item'[x].mask = item[x].mask
                   \/ \A c \in Children(s) : c # item[x].mask
  PROVE  StagesAgree'
<1> USE DEF IInv, ScopesAgree
<1>0. \A s \in ScopeIds : Later(s) BY DEF Later
<1>1. ASSUME NEW k \in ItemIds, item'[k].scope # NoScope PROVE ItemStage(k)'
  <2>1. CASE k = x BY <2>1
  <2>2. CASE k # x
    <3>1. item'[k] = item[k] BY <2>2
    <3>2. PICK s \in ScopeIds : item[k].scope = s BY <1>1, <3>1, ItemTypes
    <3>3. scope[s].stage # "open" /\ k \in releases[s] => k \in releases'[s]
      BY <2>2
    <3> QED BY <1>0, <3>1, <3>2, <3>3, ItemStageStays
  <2> QED BY <2>1, <2>2
<1>2. ASSUME NEW s \in ScopeIds PROVE ScopeStage(s)'
  <2>1. ScopeStage(s) BY DEF StagesAgree
  <2>2. PICK i : i = current[s] OBVIOUS
  <2>3. i # NoItem => i \in ItemIds BY <2>2 DEF TypeOK
  <2>4. i # NoItem => item[i].state \in {"releasing", "running", "closing", "over"}
    BY <2>1, <2>2 DEF ScopeStage
  <2>5. i # NoItem =>
          /\ item'[i].scope = item[i].scope /\ item'[i].kind = item[i].kind
          /\ item'[i].state \in {"releasing", "running", "closing", "over"}
          /\ \/ item'[i].mask = item[i].mask
             \/ \A c \in Children(s) : c # item[i].mask
    <3>1. CASE i = x BY <2>2, <3>1
    <3>2. CASE i # x BY <2>3, <2>4, <3>2
    <3> QED BY <3>1, <3>2
  <2>6. \A c \in ScopeIds : scope'[c].parent = s => scope[c].stage # "unused"
    BY ScopeNumbers DEF TreeAgrees
  <2> QED BY <1>0, <2>2, <2>5, <2>6, ScopeStageStays
<1> QED BY <1>1, <1>2 DEF StagesAgree

(* An item that a task adds is in an open scope.                           *)
LEMMA StagesAdmit ==
  ASSUME IInv, Next, NEW s \in ScopeIds, Grant(s) \/ OnExit(s) \/ Own(s) \/ Acquire(s)
  PROVE  StagesAgree'
<1> USE DEF IInv, ScopesAgree
<1>1. UNCHANGED <<scopes, scope, releases, waits, current>> /\ scope[s].stage = "open"
  BY DEF Grant, OnExit, Own, Acquire, closeVars, Admit, AssertOpen
<1>2. PICK x \in ItemIds :
        /\ Changes(x) /\ item[x].state = "none" /\ ~item'[x].failed
        /\ BeginsAs(item'[x].kind, item'[x].state) /\ item'[x].scope = s
  BY AdmitSteps
<1>3. \A k \in ItemIds : k # x => item'[k] = item[k] BY <1>2 DEF Changes
<1>4. ItemStage(x)' BY <1>1, <1>2 DEF ItemStage, Looked, BeginsAs, InProgress
<1>5. \A d \in ScopeIds : current[d] # x
  BY <1>2, ItemTypes DEF StagesAgree, ScopeStage
<1> QED BY <1>1, <1>3, <1>4, <1>5, ItemOnly

(* What an item of a scope that is made knows.                             *)
LEMMA MadeStage ==
  ASSUME IInv, NEW i \in ItemIds, item[i].state # "none"
  PROVE  /\ ItemStage(i) /\ ItemAgrees(i)
         /\ \E s \in ScopeIds : s = item[i].scope /\ s # NoScope
         /\ \A s \in ScopeIds : current[s] = i =>
              /\ item[i].state \in {"releasing", "running", "closing", "over"}
              /\ item[i].scope = s
BY MadeInScope, ItemTypes DEF IInv, ScopesAgree, StagesAgree, ScopeStage, ItemsAgree

(* An acquisition goes on, becomes a lease or ends; it does not fail.      *)
LEMMA AcquireSteps ==
  ASSUME IInv, NEW i \in ItemIds,
         \/ AbortAcquire(i) \/ Creates(i) \/ AcquireFails(i)
         \/ \E registers \in BOOLEAN : Created(i, registers)
  PROVE  /\ OneItem(i) /\ InProgress(i) /\ item'[i].failed = item[i].failed
         /\ item'[i].state \in {"creating", "requested", "discarding", "live", "over"}
<1> USE DEF IInv, ScopesAgree
<1>1. /\ item \in [ItemIds -> Item] /\ item[i] \in Item BY ItemTypes
<1>2. /\ InProgress(i)
      /\ item[i].state \in {"requested", "creating", "discarding"}
      /\ ~item[i].failed
  BY DEF AbortAcquire, Creates, AcquireFails, Created, InProgress, ItemsAgree,
         ItemAgrees
<1>3. item[i].scope \in ScopeIds BY <1>2, MadeInScope
<1> DEFINE Goal == /\ OneItem(i) /\ ~item'[i].failed
                   /\ item'[i].state \in {"creating", "requested", "discarding",
                                          "live", "over"}
<1>4. ASSUME NEW r \in Item, item' = [item EXCEPT ![i] = r], r.kind = item[i].kind,
             r.scope = item[i].scope, ~r.failed,
             r.state \in {"creating", "requested", "discarding", "live", "over"}
      PROVE  Goal
  <2>1. /\ item' \in [ItemIds -> Item] /\ item'[i] = r
        /\ \A k \in ItemIds : k # i => item'[k] = item[k]
    BY <1>1, <1>4
  <2> QED BY <1>4, <2>1 DEF OneItem
<1>5. ASSUME item' = Ended(i, FALSE) PROVE Goal
  <2>1. PICK f \in BOOLEAN : ~f /\ f = FALSE BY FALSE \in BOOLEAN
  <2>2. /\ OneItem(i) /\ item'[i].state = "over" /\ (item'[i].failed <=> f)
    BY <1>5, <2>1, EndedFields
  <2> QED BY <2>1, <2>2
<1>6. ASSUME NEW state \in {"creating", "discarding"},
             item' = [item EXCEPT ![i].state = state]
      PROVE  Goal
  <2>1. PICK r : r = [item[i] EXCEPT !.state = state] OBVIOUS
  <2>2. /\ r \in Item /\ r.kind = item[i].kind /\ r.scope = item[i].scope
        /\ r.state = state /\ ~r.failed
    BY <1>1, <1>2, <2>1 DEF Item
  <2> QED BY <1>4, <1>6, <2>1, <2>2
<1>7. ASSUME item' = [item EXCEPT ![i].aborted = TRUE] PROVE Goal
  <2>1. PICK r : r = [item[i] EXCEPT !.aborted = TRUE] OBVIOUS
  <2>2. /\ r \in Item /\ r.kind = item[i].kind /\ r.scope = item[i].scope
        /\ r.state = item[i].state /\ ~r.failed
    BY <1>1, <1>2, <2>1 DEF Item
  <2> QED BY <1>2, <1>4, <1>7, <2>1, <2>2
<1>8. ASSUME AppendCleanup(i, item[i].scope, [item[i] EXCEPT !.state = "live"])
      PROVE  Goal
  <2>1. PICK s \in ScopeIds : s = item[i].scope BY <1>3
  <2>2. AppendCleanup(i, s, [item[i] EXCEPT !.state = "live"]) BY <1>8, <2>1
  <2> QED BY <1>2, <2>2, LiveFields
<1> HIDE DEF Goal
<1>9. Goal
  BY <1>5, <1>6, <1>7, <1>8 DEF AbortAcquire, Creates, AcquireFails, Created
<1>10. item'[i].failed \in BOOLEAN /\ item[i].failed \in BOOLEAN
  BY <1>9, ItemTypes DEF Goal, OneItem, Item
<1> QED BY <1>2, <1>9, <1>10 DEF Goal

(* Acquisitions, closers and disposers go on without close().              *)
LEMMA StagesEnding ==
  ASSUME IInv, Next, NEW i \in ItemIds,
         \/ Disown(i) \/ AbortAcquire(i) \/ Creates(i) \/ AcquireFails(i)
         \/ \E registers \in BOOLEAN : Created(i, registers)
         \/ \E fails \in Fails : CloserEnds(i, fails)
  PROVE  StagesAgree'
<1> USE DEF IInv, ScopesAgree
<1>1. UNCHANGED <<scopes, scope, releases, waits, current>>
  BY DEF Disown, AbortAcquire, Creates, AcquireFails, Created, CloserEnds, closeVars
<1>2. /\ item[i].state # "none"
      /\ item[i].state \in {"running", "owned"} \/ InProgress(i)
  BY DEF Disown, AbortAcquire, Creates, AcquireFails, Created, CloserEnds,
         InProgress, ItemsAgree, ItemAgrees
<1>3. /\ ItemStage(i) /\ ItemAgrees(i)
      /\ \A s \in ScopeIds : current[s] = i =>
           /\ item[i].state \in {"releasing", "running", "closing", "over"}
           /\ item[i].scope = s
  BY <1>2, MadeStage
<1>4. ASSUME OneItem(i), ItemStage(i)',
             \A s \in ScopeIds : current[s] = i =>
               item'[i].state = "over" /\ item'[i].mask = item[i].mask
      PROVE  StagesAgree'
  BY <1>1, <1>4, ItemOnly DEF OneItem
<1>5. ASSUME InProgress(i), OneItem(i), item'[i].failed = item[i].failed,
             item'[i].state \in {"creating", "requested", "discarding", "live", "over"}
      PROVE  StagesAgree'
  <2>1. /\ item[i].kind = "lease"
        /\ item[i].state \in {"requested", "creating", "discarding"}
    BY <1>5 DEF InProgress
  <2>2. ~item[i].failed BY <1>3, <2>1 DEF ItemAgrees
  <2>3. ItemStage(i)'
    BY <1>1, <1>3, <1>5, <2>1, <2>2 DEF ItemStage, Looked, InProgress, OneItem
  <2> QED BY <1>3, <1>4, <1>5, <2>1, <2>3
<1>6. ASSUME NEW f \in BOOLEAN, item' = Ended(i, f), f => CloserEnds(i, f)
      PROVE  StagesAgree'
  <2>1. /\ OneItem(i) /\ item'[i].state = "over" /\ (item'[i].failed <=> f)
        /\ item'[i].mask = NoScope
    BY <1>6, EndedFields
  <2>2. item[i].mask = NoScope \/ item[i].kind = "finalizer" BY <1>3 DEF ItemAgrees
  <2>3. item[i].kind # "finalizer"
    BY <1>2, <1>3
    DEF Disown, AbortAcquire, Creates, AcquireFails, Created, CloserEnds, InProgress,
        ItemAgrees
  <2>4. f => /\ item[i].kind = "closer" /\ item[i].state = "running"
    BY <1>6 DEF CloserEnds
  <2>5. ItemStage(i)' BY <1>1, <1>3, <2>1, <2>4 DEF ItemStage, Looked, InProgress, OneItem
  <2> QED BY <1>4, <2>1, <2>2, <2>3, <2>5
<1>7. ASSUME Disown(i) \/ AcquireFails(i) PROVE StagesAgree'
  <2>1. PICK f \in BOOLEAN : ~f /\ f = FALSE BY FALSE \in BOOLEAN
  <2> QED BY <1>6, <1>7, <2>1 DEF Disown, AcquireFails
<1>8. ASSUME NEW fails \in Fails, CloserEnds(i, fails) PROVE StagesAgree'
  BY <1>6, <1>8, FailsType DEF CloserEnds
<1>9. ASSUME \/ AbortAcquire(i) \/ Creates(i) \/ AcquireFails(i)
             \/ \E registers \in BOOLEAN : Created(i, registers)
      PROVE  StagesAgree'
  <2>1. /\ OneItem(i) /\ InProgress(i) /\ item'[i].failed = item[i].failed
        /\ item'[i].state \in {"creating", "requested", "discarding", "live", "over"}
    BY <1>9, AcquireSteps
  <2> QED BY <1>5, <2>1
<1> QED BY <1>7, <1>8, <1>9

(* A lease is released by hand.                                            *)
LEMMA StagesRelease ==
  ASSUME IInv, Next, NEW i \in ItemIds, Release(i)
  PROVE  StagesAgree'
<1> USE DEF IInv, ScopesAgree
<1>1. PICK f \in BOOLEAN : ~f /\ f = FALSE BY FALSE \in BOOLEAN
<1>2. /\ UNCHANGED <<scopes, scope, waits, current>>
      /\ item[i].kind = "lease" /\ item[i].state = "live" /\ ReleaseResource(i, f)
  BY <1>1 DEF Release, closeVars
<1>3. /\ ItemStage(i) /\ ItemAgrees(i) /\ item[i].scope \in ScopeIds
      /\ item[i].scope # NoScope /\ \A s \in ScopeIds : current[s] # i
  BY <1>2, MadeStage, MadeInScope
<1>4. /\ OneItem(i) /\ item'[i].state = "releasing" /\ item'[i].failed = item[i].failed
      /\ item'[i].late <=> ~f /\ scope[item[i].scope].stage = "drained"
      /\ \A s \in ScopeIds : releases'[s] =
           IF s = item[i].scope THEN releases[s] \union {i} ELSE releases[s]
  BY <1>2, <1>3, ReleasedFields
<1>5. scope[item[i].scope].stage # "closed" /\ ~item[i].failed
  BY <1>2, <1>3 DEF ItemStage, ItemAgrees
<1>6. ItemStage(i)'
  BY <1>1, <1>2, <1>4, <1>5 DEF ItemStage, Looked, InProgress, OneItem
<1>7. \A s \in ScopeIds :
        \A k \in ItemIds : k \in releases[s] => k \in releases'[s]
  BY <1>4
<1> QED BY <1>2, <1>3, <1>4, <1>6, <1>7, ItemOnly DEF OneItem

(* A disposer settles: a failure is found in #releases, unless the scope is*)
(* open.                                                                   *)
LEMMA StagesDisposed ==
  ASSUME IInv, Next, NEW i \in ItemIds, NEW fails \in Fails, Disposed(i, fails)
  PROVE  StagesAgree'
<1> USE DEF IInv, ScopesAgree
<1>1. PICK s : s = item[i].scope OBVIOUS
<1>2. PICK f \in BOOLEAN : f <=> fails /\ scope[s].stage # "open"
  BY FailsType
<1>3. /\ UNCHANGED <<scopes, scope, waits, current>>
      /\ item[i].state = "releasing" /\ item' = Ended(i, f)
      /\ scope[s].stage = "open" => releases' = [releases EXCEPT ![s] = @ \ {i}]
      /\ scope[s].stage # "open" => releases' = releases
  <2>1. f = (fails /\ ~(scope[s].stage = "open")) BY <1>2, FailsType
  <2> QED BY <1>1, <2>1 DEF Disposed, closeVars
<1>4. /\ ItemStage(i) /\ ItemAgrees(i) /\ s \in ScopeIds /\ s # NoScope
  BY <1>1, <1>3, MadeStage, MadeInScope
<1>5. /\ OneItem(i) /\ item'[i].state = "over" /\ (item'[i].failed <=> f)
      /\ item'[i].mask = NoScope /\ item'[i].late = item[i].late
  BY <1>3, EndedFields
<1>6. item[i].mask = NoScope BY <1>3, <1>4 DEF ItemAgrees
<1>7. i \in releases[s] BY <1>1, <1>3, <1>4 DEF ListsAgree
<1>8. ItemStage(i)'
  BY <1>1, <1>2, <1>3, <1>4, <1>5, <1>7 DEF ItemStage, Looked, InProgress, OneItem
<1>9. ASSUME NEW d \in ScopeIds, scope[d].stage # "open"
      PROVE  releases'[d] = releases[d]
  <2>1. releases \in [ScopeIds -> SUBSET ItemIds] BY DEF TypeOK
  <2> QED BY <1>3, <1>9, <2>1
<1>10. \A d \in ScopeIds :
        scope[d].stage # "open" => \A k \in ItemIds : k \in releases[d] => k \in releases'[d]
  BY <1>9
<1> QED BY <1>3, <1>5, <1>6, <1>8, <1>10, ItemOnly DEF OneItem

(* The scope of a finalizer has been closed.                               *)
LEMMA StagesMaskCloses ==
  ASSUME IInv, Next, NEW i \in ItemIds, MaskCloses(i)
  PROVE  StagesAgree'
<1> USE DEF IInv, ScopesAgree
<1>1. PICK f \in BOOLEAN : f <=> item[i].failed \/ scope[item[i].mask].failed OBVIOUS
<1>2. /\ UNCHANGED <<scopes, scope, releases, waits, current>>
      /\ item[i].state = "closing" /\ scope[item[i].mask].stage = "closed"
  BY DEF MaskCloses, closeVars
<1>3. item' = Ended(i, f)
  <2>1. f = (item[i].failed \/ scope[item[i].mask].failed) BY <1>1
  <2> QED BY <2>1 DEF MaskCloses
<1>4. /\ ItemStage(i) /\ ItemAgrees(i) /\ item[i].scope \in ScopeIds
  BY <1>2, MadeStage, MadeInScope
<1>5. /\ OneItem(i) /\ item'[i].state = "over" BY <1>3, EndedFields
<1>6. item[i].kind = "finalizer" /\ current[item[i].scope] = i
  BY <1>2, <1>4 DEF ItemStage, ItemAgrees
<1>7. ItemStage(i)' BY <1>2, <1>5, <1>6 DEF ItemStage, Looked, InProgress, OneItem
<1>8. \A s \in ScopeIds : \A c \in Children(s) : c # item[i].mask
  BY <1>2 DEF Children
<1> QED BY <1>2, <1>5, <1>7, <1>8, ItemOnly DEF OneItem

(* A new scope has nothing yet, and is in no way of the one above.         *)
LEMMA StagesNewScope ==
  ASSUME IInv, Next, NEW p \in ScopeIds, NewScope(p)
  PROVE  StagesAgree'
<1> USE DEF IInv, ScopesAgree
<1>1. UNCHANGED <<item, releases, waits, current>> /\ scope[p].stage = "open"
  BY DEF NewScope, AssertOpen, closeVars
<1>2. PICK n \in ScopeIds :
        /\ n = scopes + 1 /\ Grows(p, scope[p].owner, n)
        /\ \A d \in ScopeIds : d # n => scope'[d] = scope[d]
  BY NewScopeGrows
<1>3. PICK o \in ScopeIds \union {NoScope} : o = scope[p].owner
  BY ScopeNumbers DEF Scope
<1>4. /\ \A d \in ScopeIds : d # n => scope'[d] = scope[d]
      /\ scope'[n].stage = "open" /\ scope'[n].parent = p /\ scope'[n].owner = o
      /\ scopes' = n
  BY <1>2, <1>3 DEF Grows
<1>5. scopes \in Nat /\ \A c \in ScopeIds : c \in Nat BY ScopeNumbers
<1>6. scope[n].stage = "unused" /\ p # n BY <1>1, <1>2, <1>5 DEF TreeAgrees
<1>7. \A s \in ScopeIds : Later(s) BY <1>4, <1>6 DEF Later
<1>8. o # p BY <1>3, ReachesItself, ScopeNumbers DEF TreeAgrees
<1>9. \A c \in ScopeIds : scope[c].stage = "unused" => scope[c].parent = NoScope
  BY DEF TreeAgrees
<1>10. ASSUME NEW s \in ScopeIds, NEW c \in ScopeIds, scope'[c].parent = s,
              scope[c].stage = "unused"
       PROVE  ~Masked(c)' /\ scope'[s].stage = "open"
  <2>1. c = n BY <1>4, <1>9, <1>10, ScopeNumbers
  <2> QED BY <1>1, <1>4, <1>6, <1>8, <1>10, <2>1 DEF Masked
<1> QED BY <1>1, <1>7, <1>10, ScopesOnly

(* Cancellation and traps leave every close() where it is, and close() of  *)
(* an open scope has done nothing yet.                                     *)
LEMMA StagesMarks ==
  ASSUME IInv, Next, NEW s \in ScopeIds, Cancel(s) \/ Trap(s) \/ Close(s)
  PROVE  StagesAgree'
<1> USE DEF IInv, ScopesAgree
<1>1. UNCHANGED <<item, releases, waits, current>>
  BY DEF Cancel, Trap, Close, closeVars
<1>2. \A d \in ScopeIds : scope'[d].parent = scope[d].parent /\ Later(d)
  <2>1. ASSUME Cancel(s), NEW d \in ScopeIds
        PROVE  scope'[d].parent = scope[d].parent /\ scope'[d].stage = scope[d].stage
    <3>1. scope' = Abort(scope, {s}) /\ scope \in [ScopeIds -> Scope]
      BY <2>1 DEF Cancel, TypeOK
    <3> QED BY <3>1, AbortFields
  <2>2. ASSUME Trap(s), NEW d \in ScopeIds
        PROVE  scope'[d].parent = scope[d].parent /\ scope'[d].stage = scope[d].stage
    <3>1. scope' = Reclaimed(s) BY <2>2 DEF Trap
    <3> QED BY <3>1, ReclaimedFields
  <2>3. ASSUME Close(s), NEW d \in ScopeIds
        PROVE  /\ scope'[d].parent = scope[d].parent
               /\ \/ scope'[d].stage = scope[d].stage
                  \/ scope[d].stage = "open" /\ scope'[d].stage = "scheduled"
    <3>1. scope' = BeginClose({s}) /\ scope[s].stage = "open" BY <2>3 DEF Close
    <3>2. PICK S \in SUBSET ScopeIds : S = {s} OBVIOUS
    <3>3. /\ scope'[d].parent = scope[d].parent
          /\ d \in S => scope'[d].stage = "scheduled"
          /\ d \notin S => scope'[d].stage = scope[d].stage
      BY <3>1, <3>2, BeginCloseFields
    <3> QED BY <3>1, <3>2, <3>3
  <2> QED BY <2>1, <2>2, <2>3 DEF Later
<1>3. \A d, c \in ScopeIds : scope'[c].parent = d => scope[c].stage # "unused"
  BY <1>2, ScopeNumbers DEF TreeAgrees
<1> QED BY <1>1, <1>2, <1>3, ScopesOnly

(* Where one scope goes on, and what is known of it and its items holds    *)
(* again, close() is as far as it was everywhere else.                     *)
LEMMA OneScope ==
  ASSUME IInv, Next, NEW s \in ScopeIds,
         \A d \in ScopeIds : d # s =>
           /\ Later(d) /\ releases'[d] = releases[d] /\ waits'[d] = waits[d]
           /\ current'[d] = current[d]
           /\ \A c \in ScopeIds : scope'[c].parent = d => scope[c].stage # "unused",
         \A k \in ItemIds :
           /\ item'[k].scope = item[k].scope
           /\ item[k].scope # s => item'[k] = item[k]
           /\ item[k].scope = s => ItemStage(k)',
         ScopeStage(s)'
  PROVE  StagesAgree'
<1> USE DEF IInv, ScopesAgree
<1>1. ASSUME NEW k \in ItemIds, item'[k].scope # NoScope PROVE ItemStage(k)'
  <2>1. PICK d \in ScopeIds : item[k].scope = d BY <1>1, ItemTypes
  <2>2. CASE d = s BY <2>1, <2>2
  <2>3. CASE d # s
    <3>1. /\ Later(d) /\ releases'[d] = releases[d] /\ waits'[d] = waits[d]
          /\ current'[d] = current[d] /\ item'[k] = item[k]
      BY <2>1, <2>3
    <3> QED BY <2>1, <3>1, ItemStageStays
  <2> QED BY <2>2, <2>3
<1>2. ASSUME NEW d \in ScopeIds, d # s PROVE ScopeStage(d)'
  <2>1. ScopeStage(d) BY DEF StagesAgree
  <2>2. PICK i : i = current[d] OBVIOUS
  <2>3. i # NoItem =>
          /\ i \in ItemIds /\ item[i].scope = d
          /\ item[i].state \in {"releasing", "running", "closing", "over"}
    BY <2>1, <2>2 DEF ScopeStage, TypeOK
  <2>4. i # NoItem => item'[i] = item[i] BY <1>2, <2>3
  <2> QED BY <1>2, <2>2, <2>3, <2>4, ScopeStageStays
<1> QED BY <1>1, <1>2 DEF StagesAgree

(* A scope goes on and all others stay.                                    *)
LEMMA EnterScope ==
  ASSUME IInv, NEW s \in ScopeIds, NEW stage \in Stage, NEW fails \in BOOLEAN,
         scope' = Enter(scope, s, stage, fails)
  PROVE  /\ \A d \in ScopeIds :
              /\ d # s => Later(d) /\ scope'[d] = scope[d]
              /\ scope'[d].parent = scope[d].parent /\ (Masked(d)' <=> Masked(d))
              /\ \A c \in ScopeIds : scope'[c].parent = d => scope[c].stage # "unused"
         /\ scope'[s].stage = stage
         /\ scope'[s].failed <=> scope[s].failed \/ fails
<1> USE DEF IInv, ScopesAgree
<1>1. scope \in [ScopeIds -> Scope] BY DEF TypeOK
<1>2. /\ \A d \in ScopeIds :
           /\ d # s => scope'[d] = scope[d]
           /\ scope'[d].parent = scope[d].parent /\ scope'[d].owner = scope[d].owner
      /\ scope'[s].stage = stage
      /\ scope'[s].failed <=> scope[s].failed \/ fails
  BY <1>1, EnterFields
<1>3. \A c \in ScopeIds : scope[c].stage = "unused" => scope[c].parent \notin ScopeIds
  BY ScopeNumbers DEF TreeAgrees
<1> QED BY <1>2, <1>3 DEF Later, Masked

(* While close() is not at its finalizers, none of them runs, and no child *)
(* is masked.                                                              *)
LEMMA NotFinalizing ==
  ASSUME IInv, NEW s \in ScopeIds, current[s] = NoItem
  PROVE  /\ \A c \in Children(s) :
              /\ ~Masked(c)
              /\ \/ scope[s].stage \in {"open", "scheduled", "closers"}
                 \/ scope[s].stage = "children" /\ c \in waits[s]
         /\ \A k \in ItemIds : item[k].scope = s =>
              /\ ItemStage(k) /\ ItemAgrees(k)
              /\ ~(item[k].kind = "finalizer" /\ item[k].state \in {"running", "closing"})
              /\ item[k].failed =>
                   \/ scope[s].failed
                   \/ scope[s].stage = "closers" /\ k \in waits[s]
                   \/ /\ scope[s].stage # "open" /\ k \in releases[s]
                      /\ Looked(s) => item[k].late
<1> USE DEF IInv, ScopesAgree
<1>1. s # NoScope /\ \A k \in ItemIds : k # NoItem BY ScopeNumbers, ItemTypes
<1>2. \A k \in ItemIds : item[k].scope = s => ItemStage(k) /\ ItemAgrees(k)
  BY <1>1 DEF StagesAgree, ItemsAgree
<1>3. ScopeStage(s) BY DEF StagesAgree
<1> QED BY <1>1, <1>2, <1>3 DEF ItemStage, ScopeStage

(* The closers start.                                                      *)
LEMMA StagesClosers ==
  ASSUME IInv, Next, NEW s \in ScopeIds, RunClosers(s)
  PROVE  StagesAgree'
<1> USE DEF IInv, ScopesAgree
<1>1. PICK f \in BOOLEAN : ~f /\ f = FALSE BY FALSE \in BOOLEAN
<1>2. /\ UNCHANGED <<releases, current>> /\ scope[s].stage = "scheduled"
      /\ scope' = Enter(scope, s, "closers", f) /\ "closers" \in Stage
      /\ waits \in [ScopeIds -> SUBSET (ScopeIds \union ItemIds)]
  BY <1>1 DEF RunClosers, Stage, TypeOK
<1>3. /\ \A k \in ItemIds :
           /\ k \notin Owned(s) => item'[k] = item[k]
           /\ k \in Owned(s) => /\ item[k].state = "owned" /\ item[k].scope = s
                                /\ item'[k].state = "running"
           /\ item'[k].kind = item[k].kind /\ item'[k].scope = item[k].scope
           /\ item'[k].failed = item[k].failed /\ item'[k].mask = item[k].mask
      /\ waits' = [waits EXCEPT ![s] = Owned(s)]
  BY ClosersFields
<1>4. /\ \A d \in ScopeIds :
           /\ d # s => Later(d) /\ scope'[d] = scope[d]
           /\ scope'[d].parent = scope[d].parent /\ (Masked(d)' <=> Masked(d))
           /\ \A c \in ScopeIds : scope'[c].parent = d => scope[c].stage # "unused"
      /\ scope'[s].stage = "closers" /\ (scope[s].failed => scope'[s].failed)
  BY <1>2, EnterScope
<1>5. current[s] = NoItem BY <1>2 DEF StagesAgree, ScopeStage
<1>6. waits'[s] = Owned(s) /\ \A d \in ScopeIds : d # s => waits'[d] = waits[d]
  BY <1>2, <1>3
<1>7. ASSUME NEW k \in ItemIds, item[k].scope = s PROVE ItemStage(k)'
  <2>1. /\ ItemStage(k) /\ ItemAgrees(k)
        /\ ~(item[k].kind = "finalizer" /\ item[k].state \in {"running", "closing"})
        /\ item[k].failed => scope[s].failed \/ k \in releases[s]
    BY <1>2, <1>5, <1>7, NotFinalizing
  <2>2. k \in Owned(s) <=> item[k].state = "owned" BY <1>7 DEF Owned
  <2>3. k \in Owned(s) => item[k].kind = "closer" BY <2>1, <2>2 DEF ItemAgrees
  <2> QED BY <1>2, <1>3, <1>4, <1>6, <1>7, <2>1, <2>2, <2>3
      DEF ItemStage, Looked, InProgress
<1>8. ScopeStage(s)'
  <2>1. \A c \in Children(s) : ~Masked(c) BY <1>5, NotFinalizing
  <2>2. \A c \in ScopeIds : scope'[c].parent = s /\ scope'[c].stage # "closed" => ~Masked(c)'
    BY <1>2, <1>4, <2>1 DEF Children
  <2> QED BY <1>2, <1>4, <1>5, <2>2 DEF ScopeStage, Children
<1> QED BY <1>2, <1>3, <1>4, <1>6, <1>7, <1>8, OneScope

(* The closers are over and close() of the children begins.                *)
LEMMA StagesChildren ==
  ASSUME IInv, Next, NEW s \in ScopeIds, CloseChildren(s)
  PROVE  StagesAgree'
<1> USE DEF IInv, ScopesAgree
<1>1. PICK f \in BOOLEAN : f = Failures(waits[s]) BY DEF Failures
<1>2. PICK S : S = {c \in Children(s) : scope[c].stage = "open"} OBVIOUS
<1>3. PICK t : t = BeginClose(S) OBVIOUS
<1>4. /\ UNCHANGED <<item, releases, current>> /\ scope[s].stage = "closers"
      /\ \A i \in waits[s] : Over(i)
      /\ waits' = [waits EXCEPT ![s] = Children(s)]
      /\ scope' = Enter(t, s, "children", f) /\ "children" \in Stage
      /\ waits \in [ScopeIds -> SUBSET (ScopeIds \union ItemIds)]
  BY <1>1, <1>2, <1>3 DEF CloseChildren, Awaited, Stage, TypeOK
<1>5. S \in SUBSET ScopeIds /\ s \notin S /\ \A c \in S : scope[c].stage = "open"
  BY <1>2, <1>4 DEF Children
<1>6. /\ t \in [ScopeIds -> Scope]
      /\ \A d \in ScopeIds :
           /\ t[d].parent = scope[d].parent /\ t[d].owner = scope[d].owner
           /\ t[d].failed = scope[d].failed
           /\ d \in S => t[d].stage = "scheduled"
           /\ d \notin S => t[d].stage = scope[d].stage
  BY <1>3, <1>5, BeginCloseFields
<1>7. /\ \A d \in ScopeIds :
           /\ d # s => scope'[d] = t[d]
           /\ scope'[d].parent = t[d].parent /\ scope'[d].owner = t[d].owner
      /\ scope'[s].stage = "children"
      /\ scope'[s].failed <=> t[s].failed \/ f
  <2>1. scope' = Enter(t, s, "children", f) /\ "children" \in Stage BY <1>4
  <2>2. t \in [ScopeIds -> Scope] BY <1>6
  <2> QED BY <2>1, <2>2, EnterFields
<1>8. /\ \A d \in ScopeIds :
           /\ d # s => Later(d)
           /\ scope'[d].parent = scope[d].parent /\ (Masked(d)' <=> Masked(d))
           /\ \A c \in ScopeIds : scope'[c].parent = d => scope[c].stage # "unused"
  <2>1. \A c \in ScopeIds : scope[c].stage = "unused" => scope[c].parent \notin ScopeIds
    BY ScopeNumbers DEF TreeAgrees
  <2>2. \A d \in ScopeIds : d # s => Later(d) BY <1>5, <1>6, <1>7 DEF Later
  <2> QED BY <1>6, <1>7, <2>1, <2>2 DEF Masked
<1>9. current[s] = NoItem BY <1>4 DEF StagesAgree, ScopeStage
<1>10. waits'[s] = Children(s) /\ \A d \in ScopeIds : d # s => waits'[d] = waits[d]
  BY <1>4
<1>11. ASSUME NEW k \in ItemIds, item[k].scope = s PROVE ItemStage(k)'
  <2>1. /\ ItemStage(k)
        /\ ~(item[k].kind = "finalizer" /\ item[k].state \in {"running", "closing"})
        /\ item[k].failed => scope[s].failed \/ k \in waits[s] \/ k \in releases[s]
    BY <1>9, <1>11, NotFinalizing
  <2>2. ~(item[k].kind = "closer" /\ item[k].state = "running")
    BY <1>4, <1>11, <2>1 DEF ItemStage, Over
  <2>3. item[k].failed => scope'[s].failed \/ k \in releases[s]
    BY <1>1, <1>6, <1>7, <2>1 DEF Failures
  <2> QED BY <1>4, <1>7, <1>11, <2>1, <2>2, <2>3 DEF ItemStage, Looked, InProgress
<1>12. ScopeStage(s)'
  <2>1. \A c \in Children(s) : ~Masked(c) BY <1>9, NotFinalizing
  <2>2. ASSUME NEW c \in ScopeIds, scope'[c].parent = s, scope'[c].stage # "closed"
        PROVE  ~Masked(c)' /\ c \in waits'[s]
    <3>1. c \in Children(s)
      BY <1>4, <1>5, <1>6, <1>7, <2>2 DEF Children
    <3> QED BY <1>8, <1>10, <2>1, <3>1
  <2> QED BY <1>4, <1>7, <1>9, <2>2 DEF ScopeStage, Children
<1> QED BY <1>4, <1>8, <1>10, <1>11, <1>12, OneScope

(* A scope whose close() is past its children has none, but the scope of   *)
(* the finalizer that runs.                                                *)
LEMMA StagesGoOn ==
  ASSUME IInv, Next, NEW s \in ScopeIds, current[s] = NoItem, current' = current,
         item' = item, NEW stage \in Stage, NEW fails \in BOOLEAN,
         stage \in {"pending", "releases", "drained", "closed"},
         scope[s].stage \in {"children", "pending", "releases", "drained"},
         scope' = Enter(scope, s, stage, fails),
         \A d \in ScopeIds : d # s =>
           releases'[d] = releases[d] /\ waits'[d] = waits[d],
         \A c \in waits[s] : scope[s].stage = "children" => scope[c].stage = "closed",
         \A k \in ItemIds : item[k].scope = s =>
           /\ InProgress(k) => stage = "pending" /\ k \in waits'[s]
           /\ item[k].state \in {"live", "registered"} => stage # "closed"
           /\ item[k].state = "releasing" /\ stage \in {"drained", "closed"} =>
                item[k].late
           /\ item[k].failed => \/ scope[s].failed \/ fails
                               \/ /\ k \in releases'[s]
                                  /\ stage \in {"drained", "closed"} => item[k].late
  PROVE  StagesAgree'
<1> USE DEF IInv, ScopesAgree
<1>1. /\ \A d \in ScopeIds :
           /\ d # s => Later(d) /\ scope'[d] = scope[d]
           /\ scope'[d].parent = scope[d].parent /\ (Masked(d)' <=> Masked(d))
           /\ \A c \in ScopeIds : scope'[c].parent = d => scope[c].stage # "unused"
      /\ scope'[s].stage = stage
      /\ scope'[s].failed <=> scope[s].failed \/ fails
  BY EnterScope
<1>2. ASSUME NEW k \in ItemIds, item[k].scope = s PROVE ItemStage(k)'
  <2>1. /\ ItemStage(k)
        /\ ~(item[k].kind = "finalizer" /\ item[k].state \in {"running", "closing"})
    BY <1>2, NotFinalizing
  <2>2. ~(item[k].kind = "closer" /\ item[k].state = "running")
        /\ item[k].state # "owned"
    BY <1>2, <2>1 DEF ItemStage
  <2>3. InProgress(k)' <=> InProgress(k) BY DEF InProgress
  <2>4. InProgress(k) => stage = "pending" /\ k \in waits'[s] BY <1>2
  <2>5. /\ item[k].state \in {"live", "registered"} => stage # "closed"
        /\ item[k].state = "releasing" /\ stage \in {"drained", "closed"} =>
             item[k].late
    BY <1>2
  <2>6. item[k].failed =>
          \/ scope'[s].failed
          \/ k \in releases'[s] /\ (stage \in {"drained", "closed"} => item[k].late)
    BY <1>1, <1>2
  <2>7. stage # "open" OBVIOUS
  <2> QED
    BY <1>1, <1>2, <2>1, <2>2, <2>3, <2>4, <2>5, <2>6, <2>7
    DEF ItemStage, Looked
<1>3. ScopeStage(s)'
  <2>1. \A c \in Children(s) : FALSE
    BY NotFinalizing DEF Children
  <2>2. \A c \in ScopeIds : scope'[c].parent = s /\ scope'[c].stage # "closed" => c \in Children(s)
    <3>1. \A c \in ScopeIds : c # s => scope'[c] = scope[c] BY <1>1
    <3>2. scope[s].parent = scope'[s].parent /\ scope[s].stage # "closed" BY <1>1
    <3> QED BY <3>1, <3>2 DEF Children
  <2> QED BY <1>1, <2>1, <2>2 DEF ScopeStage, Children
<1> QED BY <1>1, <1>2, <1>3, OneScope

(* The awaits of close() follow each other.                                *)
LEMMA StagesAwaits ==
  ASSUME IInv, Next, NEW s \in ScopeIds,
         AwaitPending(s) \/ AwaitReleases(s) \/ Drains(s) \/ Closed(s)
  PROVE  StagesAgree'
<1> USE DEF IInv, ScopesAgree
<1>1. /\ "pending" \in Stage /\ "releases" \in Stage /\ "drained" \in Stage
      /\ "closed" \in Stage
      /\ waits \in [ScopeIds -> SUBSET (ScopeIds \union ItemIds)]
      /\ releases \in [ScopeIds -> SUBSET ItemIds]
  BY DEF Stage, TypeOK
<1>2. /\ UNCHANGED <<item, current>> /\ current[s] = NoItem
      /\ scope[s].stage \in {"children", "pending", "releases", "drained"}
  BY DEF AwaitPending, AwaitReleases, Drains, Closed, closeVars, StagesAgree,
         ScopeStage
<1>3. \A k \in ItemIds : item[k].scope = s =>
        /\ ItemStage(k)
        /\ item[k].failed =>
             \/ scope[s].failed
             \/ k \in releases[s] /\ (Looked(s) => item[k].late)
  BY <1>2, NotFinalizing
<1>4. \A k \in ItemIds : item[k].scope = s /\ InProgress(k) =>
        \/ scope[s].stage = "children"
        \/ scope[s].stage = "pending" /\ k \in waits[s]
  BY <1>2, <1>3 DEF ItemStage
<1>5. CASE AwaitPending(s)
  <2>1. PICK f \in BOOLEAN : f = (\E c \in waits[s] : scope[c].failed) OBVIOUS
  <2>2. /\ scope[s].stage = "children" /\ \A c \in waits[s] : scope[c].stage = "closed"
        /\ scope' = Enter(scope, s, "pending", f)
        /\ waits' = [waits EXCEPT ![s] = Acquisitions(s)] /\ releases' = releases
    BY <1>5, <2>1 DEF AwaitPending
  <2>3. /\ waits'[s] = Acquisitions(s)
        /\ \A d \in ScopeIds : d # s => waits'[d] = waits[d]
    BY <1>1, <2>2
  <2>4. \A k \in ItemIds : item[k].scope = s /\ InProgress(k) => k \in waits'[s]
    BY <2>3 DEF Acquisitions
  <2>5. scope[s].stage # "closed" BY <2>2
  <2> QED BY <1>1, <1>2, <1>3, <2>2, <2>3, <2>4, <2>5, StagesGoOn
<1>6. CASE AwaitReleases(s)
  <2>1. PICK f \in BOOLEAN : ~f /\ f = FALSE BY FALSE \in BOOLEAN
  <2>2. /\ scope[s].stage = "pending" /\ \A i \in waits[s] : ~InProgress(i)
        /\ scope' = Enter(scope, s, "releases", f)
        /\ waits' = [waits EXCEPT ![s] = {}] /\ releases' = releases
    BY <1>6, <2>1 DEF AwaitReleases
  <2>3. \A k \in ItemIds : item[k].scope = s => ~InProgress(k) BY <1>4, <2>2
  <2>4. \A d \in ScopeIds : d # s => waits'[d] = waits[d] BY <1>1, <2>2
  <2> QED BY <1>1, <1>2, <1>3, <2>2, <2>3, <2>4, StagesGoOn
<1>7. CASE Drains(s)
  <2>1. PICK f \in BOOLEAN : f = Failures(releases[s]) BY DEF Failures
  <2>2. /\ scope[s].stage = "releases" /\ \A i \in releases[s] : Over(i)
        /\ scope' = Enter(scope, s, "drained", f)
        /\ releases' = [releases EXCEPT ![s] = {}] /\ waits' = waits
    BY <1>7, <2>1 DEF Drains, Drained, Collected, closeVars
  <2>3. \A k \in ItemIds : item[k].scope = s => ~InProgress(k) BY <1>4, <2>2
  <2>4. \A d \in ScopeIds : d # s => releases'[d] = releases[d] BY <1>1, <2>2
  <2>5. \A k \in ItemIds : item[k].failed /\ k \in releases[s] => f
    BY <2>1 DEF Failures
  <2>6. \A k \in ItemIds : item[k].scope = s => item[k].state # "releasing"
    BY <2>2 DEF ListsAgree, Over
  <2> QED BY <1>1, <1>2, <1>3, <2>2, <2>3, <2>4, <2>5, <2>6, StagesGoOn
<1>8. CASE Closed(s)
  <2>1. PICK f \in BOOLEAN : ~f /\ f = FALSE BY FALSE \in BOOLEAN
  <2>2. /\ scope[s].stage = "drained" /\ cleanups[s] = <<>>
        /\ scope' = Enter(scope, s, "closed", f)
        /\ releases' = releases /\ waits' = waits
    BY <1>8, <2>1 DEF Closed, closeVars
  <2>3. \A k \in ItemIds : item[k].scope = s => ~InProgress(k) BY <1>4, <2>2
  <2>4. \A k \in ItemIds : ~Linked(cleanups[s], k) BY <2>2 DEF Linked
  <2>5. \A k \in ItemIds : item[k].scope = s =>
          item[k].state \notin {"live", "registered"}
    BY <2>4 DEF ListsAgree
  <2>6. \A k \in ItemIds : item[k].scope = s /\ item[k].state = "releasing" =>
          item[k].late
    BY <1>3, <2>2 DEF ItemStage, Looked
  <2>7. \A k \in ItemIds : item[k].scope = s /\ item[k].failed =>
          scope[s].failed \/ (k \in releases'[s] /\ item[k].late)
    BY <1>3, <2>2 DEF Looked
  <2> QED BY <1>1, <1>2, <2>2, <2>3, <2>5, <2>6, <2>7, StagesGoOn
<1> QED BY <1>5, <1>6, <1>7, <1>8

(* The cleanup that the loop waited for is over.                           *)
LEMMA StagesFinalized ==
  ASSUME IInv, Next, NEW s \in ScopeIds, Finalized(s)
  PROVE  StagesAgree'
<1> USE DEF IInv, ScopesAgree
<1>1. PICK i : i = current[s] OBVIOUS
<1>2. /\ i \in ItemIds /\ i # NoItem /\ item[i].state = "over" /\ item[i].scope = s
      /\ scope[s].stage = "finalizing" /\ ScopeStage(s)
  BY <1>1 DEF Finalized, Over, TypeOK, StagesAgree, ScopeStage
<1>3. PICK f \in BOOLEAN : f = item[i].failed BY <1>2, ItemTypes
<1>4. /\ UNCHANGED <<item, waits>> /\ scope' = Enter(scope, s, "releases", f)
      /\ "releases" \in Stage
      /\ releases' = [releases EXCEPT ![s] = releases[s] \ {i}]
      /\ current' = [current EXCEPT ![s] = NoItem]
      /\ releases \in [ScopeIds -> SUBSET ItemIds]
      /\ current \in [ScopeIds -> ItemIds \union {NoItem}]
  BY <1>1, <1>3 DEF Finalized, Stage, TypeOK
<1>5. /\ \A d \in ScopeIds :
           /\ d # s => Later(d) /\ scope'[d] = scope[d]
           /\ scope'[d].parent = scope[d].parent /\ (Masked(d)' <=> Masked(d))
           /\ \A c \in ScopeIds : scope'[c].parent = d => scope[c].stage # "unused"
      /\ scope'[s].stage = "releases"
      /\ scope'[s].failed <=> scope[s].failed \/ f
  BY <1>4, EnterScope
<1>6. /\ releases'[s] = releases[s] \ {i} /\ current'[s] = NoItem
      /\ \A d \in ScopeIds : d # s => releases'[d] = releases[d] /\ current'[d] = current[d]
  BY <1>4
<1>7. ASSUME NEW k \in ItemIds, item[k].scope = s PROVE ItemStage(k)'
  <2>1. ItemStage(k) BY <1>7, ScopeNumbers DEF StagesAgree
  <2>2. ~(item[k].kind = "finalizer" /\ item[k].state \in {"running", "closing"})
    BY <1>1, <1>2, <1>7, <2>1 DEF ItemStage
  <2>3. item[k].failed => scope'[s].failed \/ k \in releases'[s]
    BY <1>1, <1>2, <1>3, <1>5, <1>6, <1>7, <2>1 DEF ItemStage
  <2> QED BY <1>2, <1>4, <1>5, <1>7, <2>1, <2>2, <2>3
      DEF ItemStage, Looked, InProgress
<1>8. ScopeStage(s)'
  <2>1. item[i].mask = NoScope BY <1>2 DEF ItemsAgree, ItemAgrees
  <2>2. \A c \in Children(s) : FALSE
    BY <1>1, <1>2, <2>1, ScopeNumbers DEF ScopeStage, Children
  <2>3. \A c \in ScopeIds : scope'[c].parent = s /\ scope'[c].stage # "closed" => c \in Children(s)
    <3>1. \A c \in ScopeIds : c # s => scope'[c] = scope[c] BY <1>5
    <3>2. scope[s].parent = scope'[s].parent /\ scope[s].stage # "closed" BY <1>2, <1>5
    <3> QED BY <3>1, <3>2 DEF Children
  <2> QED BY <1>5, <1>6, <2>2, <2>3 DEF ScopeStage, Children
<1> QED BY <1>4, <1>5, <1>6, <1>7, <1>8, OneScope

(* close() waits for a cleanup that it has released or dropped.            *)
LEMMA StagesFinalize ==
  ASSUME IInv, Next, NEW s \in ScopeIds, NEW i \in ItemIds, OneItem(i),
         item[i].scope = s, scope[s].stage = "drained", current[s] = NoItem,
         scope' = Enter(scope, s, "finalizing", FALSE), waits' = waits,
         current' = [current EXCEPT ![s] = i],
         item'[i].state \in {"releasing", "over"}, item'[i].kind # "closer",
         ~item'[i].failed,
         \A d \in ScopeIds : d # s => releases'[d] = releases[d],
         \A k \in ItemIds : k \in releases[s] => k \in releases'[s]
  PROVE  StagesAgree'
<1> USE DEF IInv, ScopesAgree
<1>1. PICK f \in BOOLEAN : ~f /\ f = FALSE BY FALSE \in BOOLEAN
<1>2. /\ scope' = Enter(scope, s, "finalizing", f) /\ "finalizing" \in Stage
      /\ current \in [ScopeIds -> ItemIds \union {NoItem}]
  BY <1>1 DEF Stage, TypeOK
<1>3. /\ \A d \in ScopeIds :
           /\ d # s => Later(d) /\ scope'[d] = scope[d]
           /\ scope'[d].parent = scope[d].parent /\ (Masked(d)' <=> Masked(d))
           /\ \A c \in ScopeIds : scope'[c].parent = d => scope[c].stage # "unused"
      /\ scope'[s].stage = "finalizing"
      /\ scope'[s].failed <=> scope[s].failed \/ f
  BY <1>2, EnterScope
<1>4. current'[s] = i /\ \A d \in ScopeIds : d # s => current'[d] = current[d]
  BY <1>2
<1>5. item'[i].scope = s /\ \A k \in ItemIds : k # i => item'[k] = item[k]
  BY DEF OneItem
<1>6. ASSUME NEW k \in ItemIds, item[k].scope = s PROVE ItemStage(k)'
  <2>1. CASE k = i BY <1>3, <1>5, <2>1 DEF ItemStage, Looked, InProgress
  <2>2. CASE k # i
    <3>1. /\ ItemStage(k)
          /\ ~(item[k].kind = "finalizer" /\ item[k].state \in {"running", "closing"})
          /\ item[k].failed => scope[s].failed \/ k \in releases[s]
      BY <1>6, NotFinalizing
    <3>2. item'[k] = item[k] BY <1>5, <2>2
    <3>3. k \in releases[s] => k \in releases'[s] OBVIOUS
    <3> QED BY <1>3, <1>6, <3>1, <3>2, <3>3 DEF ItemStage, Looked, InProgress
  <2> QED BY <2>1, <2>2
<1>7. ScopeStage(s)'
  <2>1. \A c \in Children(s) : FALSE BY NotFinalizing
  <2>2. \A c \in ScopeIds : scope'[c].parent = s /\ scope'[c].stage # "closed" => c \in Children(s)
    <3>1. \A c \in ScopeIds : c # s => scope'[c] = scope[c] BY <1>3
    <3>2. scope[s].parent = scope'[s].parent BY <1>3
    <3> QED BY <3>1, <3>2 DEF Children
  <2>3. i # NoItem BY ItemTypes
  <2> QED BY <1>3, <1>4, <1>5, <2>1, <2>2, <2>3 DEF ScopeStage, Children
<1>8. \A k \in ItemIds :
        /\ item'[k].scope = item[k].scope
        /\ item[k].scope # s => item'[k] = item[k]
  BY <1>5
<1> QED BY <1>3, <1>4, <1>6, <1>7, <1>8, OneScope

(* close() releases a lease.                                               *)
LEMMA StagesLease ==
  ASSUME IInv, Next, NEW s \in ScopeIds, FinalizeLease(s)
  PROVE  StagesAgree'
<1> USE DEF IInv, ScopesAgree
<1>1. PICK f \in BOOLEAN : f /\ f = TRUE BY TRUE \in BOOLEAN
<1>2. PICK i \in ItemIds :
        /\ Finalizes(s, i) /\ item[i].kind = "lease" /\ ReleaseResource(i, f)
        /\ scope' = Enter(scope, s, "finalizing", FALSE) /\ waits' = waits
  BY <1>1 DEF FinalizeLease
<1>3. /\ scope[s].stage = "drained" /\ item[i].scope = s /\ current[s] = NoItem
      /\ item[i].state = "live" /\ current' = [current EXCEPT ![s] = i]
  BY <1>2, FinalizesLast
<1>4. /\ OneItem(i) /\ item'[i].state = "releasing" /\ item'[i].failed = item[i].failed
      /\ \A d \in ScopeIds : releases'[d] =
           IF d = s THEN releases[d] \union {i} ELSE releases[d]
  BY <1>2, <1>3, ReleasedFields
<1>5. ~item'[i].failed BY <1>3, <1>4 DEF ItemsAgree, ItemAgrees
<1>6. item'[i].kind # "closer" BY <1>2, <1>4 DEF OneItem
<1>7. /\ \A d \in ScopeIds : d # s => releases'[d] = releases[d]
      /\ \A k \in ItemIds : k \in releases[s] => k \in releases'[s]
  BY <1>4
<1> QED BY <1>2, <1>3, <1>4, <1>5, <1>6, <1>7, StagesFinalize

(* A finalizer is dropped after a trap.                                    *)
LEMMA StagesSkip ==
  ASSUME IInv, Next, NEW s \in ScopeIds, SkipGuest(s)
  PROVE  StagesAgree'
<1> USE DEF IInv, ScopesAgree
<1>1. PICK i \in ItemIds :
        /\ Finalizes(s, i) /\ item[i].kind = "finalizer"
        /\ item' = [Ended(i, FALSE) EXCEPT ![i].exit = TRUE]
        /\ scope' = Enter(scope, s, "finalizing", FALSE)
        /\ UNCHANGED <<releases, waits>>
  BY DEF SkipGuest
<1>2. /\ scope[s].stage = "drained" /\ item[i].scope = s /\ current[s] = NoItem
      /\ item[i].state = "registered" /\ current' = [current EXCEPT ![s] = i]
  BY <1>1, FinalizesLast
<1>3. /\ OneItem(i) /\ item'[i].state = "over" /\ ~item'[i].failed
  BY <1>1, SkippedFields
<1>4. item'[i].kind # "closer" BY <1>1, <1>3 DEF OneItem
<1>5. ItemStage(i)' BY <1>3 DEF ItemStage, InProgress
<1> QED BY <1>1, <1>2, <1>3, <1>4, <1>5, StagesFinalize

(* close() starts a finalizer in a scope of its own.                       *)
LEMMA StagesGuest ==
  ASSUME IInv, Next, NEW s \in ScopeIds, FinalizeGuest(s)
  PROVE  StagesAgree'
<1> USE DEF IInv, ScopesAgree
<1>1. PICK i \in ItemIds :
        /\ Finalizes(s, i) /\ item[i].kind = "finalizer"
        /\ item' = [item EXCEPT ![i].state = "running", ![i].exit = TRUE,
                                ![i].mask = scopes + 1]
        /\ UNCHANGED <<releases, waits>>
  BY DEF FinalizeGuest
<1>2. /\ UNCHANGED <<releases, waits>> /\ scope[s].stage = "drained"
      /\ current[s] = NoItem /\ item[i].kind = "finalizer"
      /\ current' = [current EXCEPT ![s] = i]
      /\ current \in [ScopeIds -> ItemIds \union {NoItem}]
  BY <1>1, FinalizesLast DEF TypeOK
<1>3. item[i].state = "registered" /\ item[i].scope = s BY <1>1, FinalizesLast
<1>4. PICK n \in ScopeIds :
        /\ n = scopes + 1 /\ Grows(s, s, n) /\ scope'[s].stage = "finalizing"
        /\ s # n /\ \A d \in ScopeIds : d \notin {s, n} => scope'[d] = scope[d]
  BY FinalizeGuestGrows
<1>5. /\ OneItem(i) /\ item'[i].state = "running" /\ item'[i].failed = item[i].failed
      /\ item'[i].mask = n
  BY <1>1, <1>4, StartedFields
<1>6. /\ \A d \in ScopeIds : d # n =>
           /\ scope'[d].parent = scope[d].parent
           /\ scope'[d].failed = scope[d].failed
      /\ scope'[n].stage = "open" /\ scope'[n].parent = s /\ scope'[n].owner = s
      /\ ~scope'[n].aborted /\ scopes' = n
  BY <1>4 DEF Grows
<1>7. scope[n].stage = "unused" /\ s # n
  <2>1. scopes \in Nat /\ n \in Nat BY ScopeNumbers
  <2> QED BY <1>4, <2>1 DEF TreeAgrees
<1>8. current'[s] = i /\ \A d \in ScopeIds : d # s => current'[d] = current[d]
  BY <1>2
<1>9. \A c \in ScopeIds : scope[c].stage = "unused" => scope[c].parent \notin ScopeIds
  BY ScopeNumbers DEF TreeAgrees
<1>10. ASSUME NEW k \in ItemIds, item[k].scope = s PROVE ItemStage(k)'
  <2>1. /\ ItemStage(k) /\ ItemAgrees(k)
        /\ ~(item[k].kind = "finalizer" /\ item[k].state \in {"running", "closing"})
        /\ item[k].failed => scope[s].failed \/ k \in releases[s]
    BY <1>2, <1>10, NotFinalizing
  <2>2. scope'[s].failed = scope[s].failed BY <1>6, <1>7
  <2>3. CASE k = i
    <3>1. ~item[i].failed BY <1>3, <2>1, <2>3 DEF ItemAgrees
    <3>2. MaskAgrees(i)' BY <1>3, <1>5, <1>6 DEF MaskAgrees, OneItem
    <3> QED BY <1>2, <1>3, <1>4, <1>5, <1>8, <2>3, <3>1, <3>2
        DEF ItemStage, Looked, InProgress, OneItem
  <2>4. CASE k # i
    <3>1. item'[k] = item[k] BY <1>5, <2>4 DEF OneItem
    <3> QED BY <1>2, <1>4, <1>10, <2>1, <2>2, <3>1 DEF ItemStage, Looked, InProgress
  <2> QED BY <2>3, <2>4
<1>11. ScopeStage(s)'
  <2>1. \A c \in Children(s) : FALSE BY <1>2, NotFinalizing
  <2>2. \A c \in ScopeIds : scope'[c].parent = s /\ scope'[c].stage # "closed" => c = n
    <3>1. ASSUME NEW c \in ScopeIds, c # n, scope'[c].parent = s,
                 scope'[c].stage # "closed"
          PROVE  c \in Children(s)
      <4>1. scope[c].parent = s BY <1>6, <3>1
      <4>2. CASE c = s BY <1>2, <4>1, <4>2 DEF Children
      <4>3. CASE c # s BY <1>4, <3>1, <4>1, <4>3 DEF Children
      <4> QED BY <4>2, <4>3
    <3> QED BY <2>1, <3>1
  <2>3. s # NoScope /\ i # NoItem BY ScopeNumbers, ItemTypes
  <2>4. Masked(n)' BY <1>6, <2>3 DEF Masked
  <2> QED BY <1>2, <1>3, <1>4, <1>5, <1>6, <1>7, <1>8, <2>2, <2>3, <2>4
      DEF ScopeStage, Children, OneItem
<1>12. ASSUME NEW d \in ScopeIds, d # s
       PROVE  /\ Later(d) /\ releases'[d] = releases[d] /\ waits'[d] = waits[d]
              /\ current'[d] = current[d]
              /\ \A c \in ScopeIds : scope'[c].parent = d => scope[c].stage # "unused"
  <2>1. Later(d) BY <1>4, <1>6, <1>7, <1>12 DEF Later
  <2> QED BY <1>2, <1>6, <1>7, <1>8, <1>9, <1>12, <2>1
<1>13. \A k \in ItemIds :
         /\ item'[k].scope = item[k].scope
         /\ item[k].scope # s => item'[k] = item[k]
  BY <1>3, <1>5 DEF OneItem
<1> QED BY <1>10, <1>11, <1>12, <1>13, OneScope

(* A finalizer returns or throws, and close() of its scope begins.         *)
LEMMA StagesReturn ==
  ASSUME IInv, Next, NEW i \in ItemIds, NEW fails \in Fails, FinalizerEnds(i, fails)
  PROVE  StagesAgree'
<1> USE DEF IInv, ScopesAgree
<1>1. PICK m : m = item[i].mask OBVIOUS
<1>2. /\ UNCHANGED <<scopes, releases, waits, current>> /\ fails \in BOOLEAN
      /\ item[i].kind = "finalizer" /\ item[i].state = "running"
      /\ item' = [item EXCEPT ![i].state = "closing", ![i].failed = fails]
      /\ scope' = BeginClose({m})
  BY <1>1, FailsType DEF FinalizerEnds, closeVars
<1>3. /\ ItemStage(i) /\ item[i].scope \in ScopeIds BY <1>2, MadeStage, MadeInScope
<1>4. PICK s \in ScopeIds : s = item[i].scope BY <1>3
<1>5. current[s] = i /\ MaskAgrees(i) BY <1>2, <1>3, <1>4 DEF ItemStage
<1>6. m \in ScopeIds /\ scope[m].stage = "open" /\ scope[m].parent = s
      /\ scope[m].owner = s
  BY <1>1, <1>2, <1>4, <1>5 DEF MaskAgrees
<1>7. /\ OneItem(i) /\ item'[i].state = "closing" /\ item'[i].mask = m
  BY <1>1, <1>2, ReturnedFields
<1>8. \A d \in ScopeIds :
        /\ scope'[d].parent = scope[d].parent /\ scope'[d].owner = scope[d].owner
        /\ d = m => scope'[d].stage = "scheduled"
        /\ d # m => scope'[d].stage = scope[d].stage
  <2>1. PICK S \in SUBSET ScopeIds : S = {m} BY <1>6
  <2>2. /\ \A d \in ScopeIds :
           /\ scope'[d].parent = scope[d].parent /\ scope'[d].owner = scope[d].owner
           /\ d \in S => scope'[d].stage = "scheduled"
           /\ d \notin S => scope'[d].stage = scope[d].stage
    BY <1>2, <2>1, BeginCloseFields
  <2> QED BY <2>1, <2>2
<1>9. \A d \in ScopeIds : Later(d) BY <1>6, <1>8 DEF Later
<1>10. \A d, c \in ScopeIds : scope'[c].parent = d => scope[c].stage # "unused"
  BY <1>8, ScopeNumbers DEF TreeAgrees
<1>11. ASSUME NEW k \in ItemIds, item[k].scope = s PROVE ItemStage(k)'
  <2>1. CASE k = i
    <3>1. MaskAgrees(i)' BY <1>4, <1>6, <1>7, <1>8 DEF MaskAgrees, OneItem
    <3> QED BY <1>2, <1>4, <1>5, <1>7, <2>1, <3>1
        DEF ItemStage, Looked, InProgress, OneItem
  <2>2. CASE k # i
    <3>1. item'[k] = item[k] BY <1>7, <2>2 DEF OneItem
    <3> QED BY <1>2, <1>9, <1>11, <3>1, ItemStageStays
  <2> QED BY <2>1, <2>2
<1>12. ScopeStage(s)'
  <2>1. /\ item'[i].scope = item[i].scope /\ item'[i].kind = item[i].kind
        /\ item'[i].state \in {"releasing", "running", "closing", "over"}
        /\ item'[i].mask = item[i].mask
    BY <1>1, <1>7 DEF OneItem
  <2> QED BY <1>2, <1>5, <1>9, <1>10, <2>1, ScopeStageStays
<1>13. \A k \in ItemIds :
         /\ item'[k].scope = item[k].scope
         /\ item[k].scope # s => item'[k] = item[k]
  BY <1>4, <1>7 DEF OneItem
<1> QED BY <1>2, <1>9, <1>10, <1>11, <1>12, <1>13, OneScope

(* Every step keeps close() in order.                                      *)
LEMMA NextStages ==
  ASSUME IInv, Next
  PROVE  StagesAgree'
BY StagesNewScope, StagesMarks, StagesAdmit, StagesClosers, StagesChildren,
   StagesAwaits, StagesFinalized, StagesLease, StagesGuest, StagesSkip,
   StagesRelease, StagesEnding, StagesDisposed, StagesMaskCloses, StagesReturn
DEF Next, Closing, Ending

-----------------------------------------------------------------------------
(* The invariant.                                                          *)

(* At first there is the open root, and nothing else.                      *)
LEMMA InitIInv ==
  ASSUME Init
  PROVE  IInv
<1>1. PICK r : r = [NoScopeRecord EXCEPT !.stage = "open"] OBVIOUS
<1>2. /\ r.parent = NoScope /\ r.owner = NoScope /\ r.stage = "open" /\ r.above = {}
      /\ ~r.aborted /\ r.guest /\ ~r.failed /\ r \in Scope
  BY <1>1 DEF NoScopeRecord, Scope, Stage
<1>3. PICK z : z = NoScopeRecord OBVIOUS
<1>4. /\ z.parent = NoScope /\ z.owner = NoScope /\ z.stage = "unused" /\ z.above = {}
      /\ ~z.aborted /\ z.guest /\ ~z.failed /\ z \in Scope
  BY <1>3 DEF NoScopeRecord, Scope, Stage
<1>5. PICK e : e = NoItemRecord OBVIOUS
<1>6. /\ e.kind = "none" /\ e.scope = NoScope /\ e.state = "none" /\ ~e.failed
      /\ ~e.exit /\ ~e.late /\ e.older = {} /\ e.mask = NoScope /\ e \in Item
  BY <1>5 DEF NoItemRecord, Item
<1>7. /\ scopes = 1 /\ items = 0 /\ MaxItems \in Nat /\ MaxScopes \in Nat \ {0}
      /\ \A s \in ScopeIds : s \in Nat /\ s >= 1
      /\ \A i \in ItemIds : i \in Nat /\ i >= 1
      /\ 1 \in ScopeIds /\ NoScope \notin ScopeIds
  BY BoundAssumption DEF Init, ScopeIds, ItemIds, NoScope
<1>8. /\ scope \in [ScopeIds -> Scope]
      /\ scope[1] = r /\ \A s \in ScopeIds : s # 1 => scope[s] = z
  BY <1>1, <1>2, <1>3, <1>4, <1>7 DEF Init, Root
<1>9. /\ item \in [ItemIds -> Item] /\ \A i \in ItemIds : item[i] = e
  BY <1>5, <1>6 DEF Init
<1>10. \A s \in ScopeIds :
         /\ cleanups[s] = <<>> /\ releases[s] = {} /\ waits[s] = {}
         /\ current[s] = NoItem
  BY DEF Init
<1>11. TypeOK
  <2>1. /\ cleanups \in [ScopeIds -> Seq(ItemIds)]
        /\ releases \in [ScopeIds -> SUBSET ItemIds]
        /\ waits \in [ScopeIds -> SUBSET (ScopeIds \union ItemIds)]
        /\ current \in [ScopeIds -> ItemIds \union {NoItem}]
    BY DEF Init
  <2>2. items \in 0..MaxItems BY <1>7
  <2> QED BY <1>7, <1>8, <1>9, <2>1, <2>2 DEF TypeOK
<1>12. ListsAgree
  <2>1. \A s \in ScopeIds : Distinct(cleanups[s]) BY <1>10 DEF Distinct
  <2>2. \A s \in ScopeIds, i \in ItemIds : ~Linked(cleanups[s], i)
    BY <1>10 DEF Linked
  <2> QED BY <1>6, <1>9, <2>1, <2>2 DEF ListsAgree
<1>13. TreeAgrees BY <1>2, <1>4, <1>7, <1>8 DEF TreeAgrees
<1>14. MarksAgree BY <1>2, <1>4, <1>8 DEF MarksAgree
<1>15. ItemsAgree
  <2>1. \A i \in ItemIds : i > items /\ ~(i <= items) BY <1>7
  <2> QED BY <1>5, <1>6, <1>9, <2>1 DEF ItemsAgree, ItemAgrees
<1>16. OrderAgrees BY <1>6, <1>9, <1>10 DEF OrderAgrees
<1>17. StagesAgree
  <2>1. \A s \in ScopeIds : Children(s) = {}
    BY <1>2, <1>4, <1>7, <1>8 DEF Children
  <2> QED BY <1>2, <1>4, <1>6, <1>8, <1>9, <1>10, <2>1 DEF StagesAgree, ScopeStage
<1>18. RoomAgrees
  <2>1. Waiting = {} BY <1>6, <1>9 DEF Waiting
  <2>2. Cardinality(Waiting) = 0 BY <2>1, FS_EmptySet
  <2> QED BY <1>7, <2>2 DEF RoomAgrees
<1> QED BY <1>11, <1>12, <1>13, <1>14, <1>15, <1>16, <1>17, <1>18
        DEF IInv, ScopesAgree

(* Every step keeps the invariant.                                         *)
LEMMA NextIInv ==
  ASSUME IInv, [Next]_vars
  PROVE  IInv'
<1>1. CASE UNCHANGED vars
  <2>1. /\ UNCHANGED <<scopes, scope, items, item, cleanups>>
        /\ UNCHANGED <<releases, waits, current>>
    BY <1>1 DEF vars, closeVars
  <2>2. ScopesAgree'
    BY <2>1 DEF IInv, ScopesAgree, TypeOK, ListsAgree
  <2>3. TreeAgrees' /\ MarksAgree'
    BY <2>1 DEF IInv, TreeAgrees, MarksAgree, IsWithin
  <2>4. ItemsAgree' /\ RoomAgrees'
    BY <2>1 DEF IInv, ItemsAgree, ItemAgrees, RoomAgrees, Waiting
  <2>5. OrderAgrees' BY <2>1 DEF IInv, OrderAgrees, Chain, Spared
  <2>6. \A i \in ItemIds : ItemStage(i)' <=> ItemStage(i)
    BY <2>1 DEF ItemStage, Looked, InProgress, MaskAgrees
  <2>7. \A s \in ScopeIds : ScopeStage(s)' <=> ScopeStage(s)
    <3>1. \A s : Children(s)' = Children(s) BY <2>1 DEF Children
    <3>2. \A c : Masked(c)' <=> Masked(c) BY <2>1 DEF Masked
    <3> QED BY <2>1, <3>1, <3>2 DEF ScopeStage
  <2>8. StagesAgree' BY <2>1, <2>6, <2>7 DEF IInv, StagesAgree
  <2> QED BY <2>2, <2>3, <2>4, <2>5, <2>8 DEF IInv
<1>2. CASE Next
  <2>1. TypeOK'
    <3>1. scopes' \in ScopeIds /\ scope' \in [ScopeIds -> Scope] BY <1>2, NextTree
    <3>2. /\ items' \in 0..MaxItems /\ item' \in [ItemIds -> Item]
          /\ cleanups' \in [ScopeIds -> Seq(ItemIds)]
      BY <1>2, NextItemTypes
    <3>3. releases' \in [ScopeIds -> SUBSET ItemIds] BY <1>2, NextLists
    <3>4. /\ waits' \in [ScopeIds -> SUBSET (ScopeIds \union ItemIds)]
          /\ current' \in [ScopeIds -> ItemIds \union {NoItem}]
      BY <1>2, NextWaits
    <3> QED BY <3>1, <3>2, <3>3, <3>4 DEF TypeOK
  <2> QED
    BY <1>2, <2>1, NextTree, NextMarks, NextItems, NextOrder, NextLists, NextRoom,
       NextStages
    DEF IInv, ScopesAgree
<1> QED BY <1>1, <1>2

(* The inductive invariant of the scopes of src/resources.ts.              *)
THEOREM Invariant == Spec => []IInv
<1>1. Init => IInv BY InitIInv
<1>2. IInv /\ [Next]_vars => IInv' BY NextIInv
<1> QED BY <1>1, <1>2, PTL DEF Spec

-----------------------------------------------------------------------------
(* What the runs check.                                                    *)

(* Scopes and items are well formed, and #appendCleanup, #removeCleanup and*)
(* releaseResource keep the lists of a scope in step with them.            *)
THEOREM ScopesAlwaysAgree == Spec => []ScopesAgree
<1>1. IInv => ScopesAgree BY DEF IInv
<1> QED BY <1>1, Invariant, PTL

(* A disposal that began when drainReleases had returned is in #releases   *)
(* until close() looks at it again.                                        *)
LEMMA LateIsListed ==
  ASSUME IInv, NEW i \in ItemIds, item[i].late, item[i].state # "over"
  PROVE  Slipped(i)
<1>1. item[i].state = "releasing" BY DEF IInv, ItemsAgree, ItemAgrees
<1>2. item[i].scope \in ScopeIds BY <1>1, MadeInScope DEF IInv, ScopesAgree
<1> QED BY <1>1, <1>2 DEF IInv, ScopesAgree, ListsAgree, Slipped

(* When close() is at its releases, no closer, no acquisition and no child *)
(* but a masked one is left, and nothing but a disposal that slipped when  *)
(* it is over.                                                             *)
THEOREM NothingOutlivesScopes == Spec => []NothingOutlives
<1> USE DEF IInv, ScopesAgree
<1>1. ASSUME IInv, NEW s \in ScopeIds,
             scope[s].stage \in {"releases", "drained", "finalizing"}
      PROVE  /\ \A c \in Children(s) : Masked(c)
             /\ \A i \in Unfinished(s) : item[i].kind # "closer" /\ ~InProgress(i)
  <2>1. \A c \in Children(s) : Masked(c) BY <1>1 DEF StagesAgree, ScopeStage
  <2>2. ASSUME NEW i \in Unfinished(s)
        PROVE  item[i].kind # "closer" /\ ~InProgress(i)
    <3>1. i \in ItemIds /\ item[i].scope = s /\ item[i].state # "over"
      BY DEF Unfinished, Over
    <3>2. ItemStage(i) /\ ItemAgrees(i)
      BY <1>1, <3>1, ScopeNumbers DEF StagesAgree, ItemsAgree
    <3>3. item[i].state # "none"
      BY <1>1, <3>1, MadeInScope, ScopeNumbers DEF ItemsAgree, ItemAgrees
    <3>4. item[i].state \in {"requested", "creating", "discarding", "live",
                             "releasing", "registered", "running", "closing", "owned"}
      BY <1>1, <3>1, <3>3, ItemTypes DEF Item
    <3> QED BY <1>1, <3>1, <3>2, <3>4 DEF ItemStage, ItemAgrees
  <2> QED BY <2>1, <2>2
<1>2. ASSUME IInv, NEW s \in ScopeIds, scope[s].stage = "closed"
      PROVE  Children(s) = {} /\ \A i \in Unfinished(s) : Slipped(i)
  <2>1. current[s] = NoItem BY <1>2 DEF StagesAgree, ScopeStage
  <2>2. Children(s) = {}
    <3>1. \A c \in Children(s) : FALSE BY <1>2, <2>1, NotFinalizing
    <3> QED BY <3>1
  <2>3. ASSUME NEW i \in ItemIds, item[i].scope = s, item[i].state # "over"
        PROVE  Slipped(i)
    <3>1. /\ ItemStage(i) /\ ItemAgrees(i)
          /\ ~(item[i].kind = "finalizer" /\ item[i].state \in {"running", "closing"})
      BY <1>2, <2>1, <2>3, NotFinalizing
    <3>2. item[i].state # "none"
      BY <1>2, <2>3, MadeInScope, ScopeNumbers DEF ItemsAgree, ItemAgrees
    <3>3. item[i].state \in {"requested", "creating", "discarding", "live",
                             "releasing", "registered", "running", "closing", "owned"}
      BY <1>2, <2>3, <3>2, ItemTypes DEF Item
    <3>4. item[i].state = "releasing" /\ item[i].late
      BY <1>2, <2>3, <3>1, <3>3 DEF ItemStage, ItemAgrees, InProgress, Looked
    <3> QED BY <1>2, <2>3, <3>4, LateIsListed
  <2> QED BY <2>2, <2>3 DEF Unfinished, Over
<1>3. IInv => NothingOutlives BY <1>1, <1>2 DEF NothingOutlives
<1> QED BY <1>3, Invariant, PTL

(* close() ends cleanups in the reverse order of their registration: what  *)
(* it ends is older than nothing that is left but a disposal that slipped. *)
THEOREM ReleasesReverseOrder == Spec => []ReverseOrder
<1>1. ASSUME IInv, NEW i \in ItemIds, NEW k \in ItemIds, item[i].exit,
             i \in item[k].older, ~Over(k)
      PROVE  Slipped(k)
  <2>1. item[k].late BY <1>1 DEF IInv, OrderAgrees, Spared
  <2> QED BY <1>1, <2>1, LateIsListed DEF Over
<1>2. IInv => ReverseOrder BY <1>1 DEF ReverseOrder
<1> QED BY <1>2, Invariant, PTL

(* Cancellation never reaches the masked scope of a running finalizer.     *)
THEOREM MasksHold == Spec => []MaskHolds
<1>1. ASSUME IInv, NEW i \in ItemIds, item[i].kind = "finalizer",
             item[i].state = "running"
      PROVE  /\ scope[item[i].mask].stage = "open"
             /\ scope[item[i].mask].aborted => ~scope[item[i].mask].guest
  BY <1>1, MadeStage DEF ItemStage, MaskAgrees
<1>2. IInv => MaskHolds BY <1>1 DEF MaskHolds
<1> QED BY <1>2, Invariant, PTL

(* close() that ends has collected every failure of the scope's items,     *)
(* unless the disposal that failed slipped.                                *)
THEOREM FailuresAreReported == Spec => []FailuresReported
<1>1. ASSUME IInv, NEW s \in ScopeIds, scope[s].stage = "closed",
             NEW i \in ItemIds, item[i].scope = s, item[i].failed, ~scope[s].failed
      PROVE  Slipped(i)
  <2>1. current[s] = NoItem BY <1>1 DEF IInv, StagesAgree, ScopeStage
  <2>2. i \in releases[s] /\ (Looked(s) => item[i].late)
    BY <1>1, <2>1, NotFinalizing
  <2> QED BY <1>1, <2>2 DEF Looked, Slipped
<1>2. IInv => FailuresReported BY <1>1 DEF FailuresReported
<1> QED BY <1>2, Invariant, PTL

(* A finalizer can use what was registered before it and nobody released,  *)
(* in its own scope and in every open scope below, though all of them and  *)
(* the leases' own scopes are cancelled.                                   *)
THEOREM FinalizersAreServed == Spec => []FinalizersServed
<1> USE DEF IInv, ScopesAgree
<1>1. ASSUME IInv, NEW i \in ItemIds, NEW l \in ItemIds,
             item[i].kind = "finalizer", item[i].state = "running",
             l \in item[i].older, item[l].exit \/ item[l].state = "live",
             NEW s \in ScopeIds, IsWithin(s, item[i].mask)
      PROVE  CheckLease(s, l)
  <2>1. PICK q \in ScopeIds : q = item[i].scope BY <1>1, MadeInScope
  <2>2. ItemStage(i) BY <1>1, MadeStage
  <2>3. PICK m \in ScopeIds :
          /\ m = item[i].mask /\ scope[m].parent = q /\ scope[m].owner = q
    BY <1>1, <2>1, <2>2 DEF ItemStage, MaskAgrees
  <2>4. item[l].state = "live" /\ item[l].scope \in Chain(q)
    <3>1. ~item[i].late BY <1>1 DEF ItemsAgree, ItemAgrees
    <3> QED BY <1>1, <2>1, <3>1 DEF OrderAgrees, Spared
  <2>5. PICK o \in ScopeIds : o = item[l].scope BY <1>1, <2>4, MadeInScope
  <2>6. scope[o].stage # "closed" BY <1>1, <2>4, <2>5, MadeStage DEF ItemStage
  <2>7. \A a, b \in ScopeIds : IsWithin(a, b) /\ IsWithin(b, o) => IsWithin(a, o)
    BY <1>1, ScopeNumbers DEF TreeAgrees, IsWithin
  <2>8. IsWithin(q, o) BY <2>4, <2>5 DEF Chain, IsWithin
  <2>9. q # NoScope BY <1>1, ScopeNumbers
  <2>10. q \in scope[m].above BY <1>1, <2>3, <2>9 DEF TreeAgrees
  <2>11. IsWithin(m, o) BY <2>7, <2>8, <2>10 DEF IsWithin
  <2>12. IsWithin(s, o) BY <1>1, <2>3, <2>7, <2>11
  <2>13. scope[s].owner # NoScope /\ IsWithin(scope[s].owner, q)
    <3>1. CASE s = m BY <2>3, <2>9, <3>1 DEF IsWithin
    <3>2. CASE s # m
      <4>1. m \in scope[s].above BY <1>1, <2>3, <3>2 DEF IsWithin
      <4> QED BY <1>1, <2>3, <2>9, <4>1 DEF TreeAgrees
    <3> QED BY <3>1, <3>2
  <2>14. scope[s].owner \in ScopeIds BY <1>1, <2>13, ScopeNumbers DEF TreeAgrees
  <2>15. IsWithin(scope[s].owner, o) BY <2>7, <2>8, <2>13, <2>14
  <2> QED BY <2>4, <2>5, <2>6, <2>12, <2>13, <2>15 DEF CheckLease
<1>2. IInv => FinalizersServed BY <1>1 DEF FinalizersServed
<1> QED BY <1>2, Invariant, PTL

(* A finalizer that waits is started by close() of its scope alone.        *)
LEMMA OnlyCloseStarts ==
  ASSUME IInv, Next, NEW i \in ItemIds, item[i].state = "registered",
         item'[i].state = "running"
  PROVE  FinalizeGuest(item[i].scope)
<1> USE DEF IInv, ScopesAgree
<1> DEFINE Goal == FinalizeGuest(item[i].scope)
<1>1. ASSUME NEW k \in ItemIds, OneItem(k), item'[k].state # "running" PROVE FALSE
  <2>1. i # k BY <1>1
  <2> QED BY <1>1, <2>1 DEF OneItem
<1>2. item' # item OBVIOUS
<1>3. ASSUME NEW s \in ScopeIds, Grant(s) \/ OnExit(s) \/ Own(s) \/ Acquire(s)
      PROVE  FALSE
  <2>1. PICK x \in ItemIds : Changes(x) /\ item[x].state = "none" BY <1>3, AdmitSteps
  <2> QED BY <2>1 DEF Changes
<1>4. ASSUME NEW s \in ScopeIds, RunClosers(s) PROVE FALSE
  <2>1. i \notin Owned(s) => item'[i] = item[i] BY <1>4, ClosersFields
  <2> QED BY <2>1 DEF Owned
<1>5. ASSUME NEW k \in ItemIds, NEW byExit \in BOOLEAN, ReleaseResource(k, byExit),
             item[k].state = "live"
      PROVE  FALSE
  <2>1. item[k].scope \in ScopeIds BY <1>5, MadeInScope
  <2>2. OneItem(k) /\ item'[k].state = "releasing" BY <1>5, <2>1, ReleasedFields
  <2> QED BY <1>1, <2>2
<1>6. ASSUME NEW s \in ScopeIds, FinalizeLease(s) PROVE FALSE
  <2>1. PICK f \in BOOLEAN : f = TRUE OBVIOUS
  <2>2. PICK k \in ItemIds :
          Finalizes(s, k) /\ item[k].kind = "lease" /\ ReleaseResource(k, f)
    BY <1>6, <2>1 DEF FinalizeLease
  <2>3. item[k].state = "live" BY <2>2, FinalizesLast
  <2> QED BY <1>5, <2>2, <2>3
<1>7. ASSUME NEW k \in ItemIds, Release(k) PROVE FALSE
  <2>1. PICK f \in BOOLEAN : f = FALSE OBVIOUS
  <2> QED BY <1>5, <1>7, <2>1 DEF Release
<1>8. ASSUME NEW s \in ScopeIds, SkipGuest(s) PROVE FALSE
  <2>1. PICK k \in ItemIds : item' = [Ended(k, FALSE) EXCEPT ![k].exit = TRUE]
    BY <1>8 DEF SkipGuest
  <2>2. OneItem(k) /\ item'[k].state = "over" BY <2>1, SkippedFields
  <2> QED BY <1>1, <2>2
<1>9. ASSUME NEW k \in ItemIds, NEW f \in BOOLEAN, item' = Ended(k, f) PROVE FALSE
  <2>1. OneItem(k) /\ item'[k].state = "over" BY <1>9, EndedFields
  <2> QED BY <1>1, <2>1
<1>10. ASSUME NEW k \in ItemIds,
              \/ AbortAcquire(k) \/ Creates(k) \/ AcquireFails(k)
              \/ \E registers \in BOOLEAN : Created(k, registers)
       PROVE  FALSE
  <2>1. /\ OneItem(k)
        /\ item'[k].state \in {"creating", "requested", "discarding", "live", "over"}
    BY <1>10, AcquireSteps
  <2> QED BY <1>1, <2>1
<1>11. ASSUME NEW k \in ItemIds, Disown(k) PROVE FALSE
  <2>1. PICK f \in BOOLEAN : f = FALSE OBVIOUS
  <2> QED BY <1>9, <1>11, <2>1 DEF Disown
<1>12. ASSUME NEW k \in ItemIds, MaskCloses(k) PROVE FALSE
  <2>1. PICK f \in BOOLEAN : f = (item[k].failed \/ scope[item[k].mask].failed)
    OBVIOUS
  <2> QED BY <1>9, <1>12, <2>1 DEF MaskCloses
<1>13. ASSUME NEW k \in ItemIds, NEW fails \in Fails,
              Disposed(k, fails) \/ CloserEnds(k, fails) \/ FinalizerEnds(k, fails)
       PROVE  FALSE
  <2>1. fails \in BOOLEAN BY FailsType
  <2>2. PICK f \in BOOLEAN : f = (fails /\ ~(scope[item[k].scope].stage = "open"))
    BY <2>1
  <2>3. CASE Disposed(k, fails) BY <1>9, <2>2, <2>3 DEF Disposed
  <2>4. CASE CloserEnds(k, fails) BY <1>9, <2>1, <2>4 DEF CloserEnds
  <2>5. CASE FinalizerEnds(k, fails)
    <3>1. item' = [item EXCEPT ![k].state = "closing", ![k].failed = fails]
      BY <2>5 DEF FinalizerEnds
    <3>2. OneItem(k) /\ item'[k].state = "closing" BY <2>1, <3>1, ReturnedFields
    <3> QED BY <1>1, <3>2
  <2> QED BY <1>13, <2>3, <2>4, <2>5
<1>14. ASSUME NEW s \in ScopeIds, FinalizeGuest(s) PROVE Goal
  <2>1. PICK k \in ItemIds :
          /\ Finalizes(s, k)
          /\ item' = [item EXCEPT ![k].state = "running", ![k].exit = TRUE,
                                  ![k].mask = scopes + 1]
    BY <1>14 DEF FinalizeGuest
  <2>2. PICK n \in ScopeIds : n = scopes + 1 BY <1>14, FinalizeGuestGrows
  <2>3. OneItem(k) BY <2>1, <2>2, StartedFields
  <2>4. i = k BY <2>3 DEF OneItem
  <2>5. item[k].scope = s BY <2>1, FinalizesLast
  <2> QED BY <1>14, <2>4, <2>5
<1> HIDE DEF Goal
<1>15. ASSUME NEW s \in ScopeIds,
              \/ NewScope(s) \/ Cancel(s) \/ Trap(s) \/ Close(s) \/ CloseChildren(s)
              \/ AwaitPending(s) \/ AwaitReleases(s) \/ Finalized(s)
              \/ Drains(s) \/ Closed(s)
       PROVE  FALSE
  BY <1>2, <1>15
  DEF NewScope, Cancel, Trap, Close, CloseChildren, AwaitPending, AwaitReleases,
      Finalized, Drains, Closed
<1>16. Goal
  BY <1>3, <1>4, <1>6, <1>7, <1>8, <1>10, <1>11, <1>12, <1>13, <1>14, <1>15
  DEF Next, Closing, Ending
<1> QED BY <1>16 DEF Goal

(* In a scope that was reclaimed after a trap, or below one, close() drops *)
(* finalizers and starts none.                                             *)
THEOREM NoFinalizerAfterTrap == Spec => NoGuestAfterTrap
<1> DEFINE Starts ==
      \A i \in ItemIds :
        item[i].state = "registered" /\ item'[i].state = "running"
          => \A s \in Chain(item[i].scope) : scope[s].guest
<1>1. ASSUME IInv, Next, NEW i \in ItemIds, item[i].state = "registered",
             item'[i].state = "running", NEW s \in Chain(item[i].scope)
      PROVE  scope[s].guest
  <2>1. PICK q \in ScopeIds : q = item[i].scope BY <1>1, MadeInScope
  <2>2. scope[q].guest BY <1>1, <2>1, OnlyCloseStarts DEF FinalizeGuest
  <2> QED BY <1>1, <2>1, <2>2 DEF IInv, MarksAgree, Chain
<1>2. IInv /\ [Next]_vars => [Starts]_vars
  <2>1. ASSUME IInv, Next PROVE Starts BY <1>1, <2>1
  <2> QED BY <2>1
<1> HIDE DEF Starts
<1>3. Spec => [][Starts]_vars BY <1>2, Invariant, PTL DEF Spec
<1> QED BY <1>3 DEF NoGuestAfterTrap, Starts
=============================================================================
