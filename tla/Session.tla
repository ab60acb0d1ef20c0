------------------------------ MODULE Session ------------------------------
(***************************************************************************)
(* The resident compiler session (compiler/src/session.rs): the modules a  *)
(* host has loaded, the boundaries published for them, the caches a        *)
(* request may answer from, and the two-phase update of the development    *)
(* artifacts.  Calls of one session do not overlap, so the calls that load *)
(* and configure modules are one step; a semantic request is a walk over   *)
(* the imports with one step per module, because that order decides which  *)
(* caches are dropped before they are read.                                *)
(*                                                                         *)
(* A module's text is a record: ok (it checks when its imports do), emits  *)
(* (the backend accepts it), portable (its value encodes completely, so an *)
(* importer sees its exports and nothing of its body), exports (interface  *)
(* and value), body, and shape (which functions and calls the body has).   *)
(* What a request computes is a view: the set of modules it saw, each as   *)
(* it saw it, so that a value computed from a stale cache is a different   *)
(* value.                                                                  *)
(***************************************************************************)
EXTENDS Naturals, Sequences, FiniteSets, Functions

CONSTANTS
    Paths,              \* module paths
    Texts,              \* the texts a host may load
    SnapshotTexts,      \* texts distributed as snapshots (no imports)
    ImportChoices,      \* ImportChoices[p]: the import maps p may be given
    InitialTexts,       \* what the host has loaded and configured when it
    InitialImports,     \*   makes its first request; nothing was checked yet
    Requests,           \* the requests a host makes
    MissingInstalls,    \* are snapshots installed where an import is missing?
    MaxEdits,           \* bound: calls that change the loaded modules
    MaxBoundaryId,      \* the last boundary identity (u64::MAX in the code)
    MaxTransaction,     \* bound: development preparations
    None

ASSUME PathsFinite == IsFiniteSet(Paths)

\* A text is a record.  A snapshot is made of a module that checks, and what an
\* importer compiles of a portable value is in the exports.
ASSUME TextsAreRecords ==
    \A t \in Texts \cup SnapshotTexts :
        /\ t = [ok |-> t.ok, emits |-> t.emits, portable |-> t.portable,
               exports |-> t.exports, body |-> t.body, shape |-> t.shape]
        /\ {t.ok, t.emits, t.portable} \subseteq BOOLEAN
ASSUME SnapshotsCheck == \A t \in SnapshotTexts : t.ok
ASSUME PortableByValue ==
    \A t, u \in Texts \cup SnapshotTexts :
        t.portable /\ u.portable /\ t.exports = u.exports => t.emits = u.emits

ASSUME ModulesConfigured ==
    /\ InitialTexts \in [Paths -> Texts \cup SnapshotTexts \cup {None}]
    /\ InitialImports \in [Paths -> SUBSET Paths]
    /\ ImportChoices \in [Paths -> SUBSET SUBSET Paths]
ASSUME RequestsOfModules ==
    \A r \in Requests : r.root \in Paths /\ r.units \subseteq Paths
ASSUME BoundsAreNumbers ==
    {MaxEdits, MaxBoundaryId, MaxTransaction} \subseteq Nat

VARIABLES
    modules,        \* context.modules: the text of a loaded module, or None
    imports,        \* the configured imports of each module
    dirty,          \* dirty_modules
    published,      \* published_boundaries
    nextId,         \* next_boundary_id
    renewed,        \* modules whose revision was renewed since they published
    interfaces,     \* module_interfaces and module_results: views by module
    bindings,       \* evaluated_bindings: what they saw of the imports
    closed,         \* closed_programs
    closedDev,      \* closed_development_programs
    artifacts,      \* development_artifacts
    pending,        \* pending_development_artifacts
    nextTx,         \* next_development_transaction_id
    retained,       \* the host's development artifacts, per program root
    checked,        \* checked_modules of the current request
    request,        \* the request under way, or None
    walk,           \* the modules ensure_current is visiting, innermost last
    answer,         \* what the last request returned, until the next call
    edits

loadVars   == <<modules, imports, edits>>
cacheVars  == <<interfaces, bindings, closed>>
devVars    == <<closedDev, artifacts, pending, nextTx, retained>>
walkVars   == <<request, walk, checked>>
vars == <<loadVars, dirty, published, nextId, renewed, cacheVars, devVars,
          walkVars, answer>>

-----------------------------------------------------------------------------
(* Views and reachability.                                                 *)

\* The paths reached from start along edges, start included: those that every
\* set which has start, and which no edge leaves, has too.
ReachedBy(start, edges) ==
    {q \in Paths : \A S \in SUBSET (Paths \ {q}) :
        start \subseteq S => \E x \in S : ~(edges[x] \subseteq S)}

Reach(p) == ReachedBy({p}, imports)

\* What an importer sees of a text: all of it, unless the value is portable.
Seen(text) ==
    IF text.portable THEN [text EXCEPT !.body = None, !.shape = None] ELSE text

\* What a view and a boundary are made of.
KnownTexts == Texts \cup SnapshotTexts
Fingerprints ==
    [exports : {t.exports : t \in KnownTexts},
     below : UNION {[S -> Nat] : S \in SUBSET Paths},
     revision : Paths \cup {None}]
Boundaries == [id : Nat, fingerprint : Fingerprints \cup {None}]

ASSUME NoneIsNothing ==
    /\ None \notin KnownTexts \cup Paths \cup Requests
    /\ None \notin Fingerprints
    /\ None \notin Boundaries

Entry(p, text) == [path |-> p, text |-> text, imports |-> imports[p]]

\* Mutants: the importers that a walk is visiting are left out, or the ones
\* that have no boundary yet.
ImportersElsewhere(p) ==
    {q \in Paths : /\ modules[q] # None /\ p \in imports[q]
                   /\ \A i \in DOMAIN walk : walk[i].path # q}
ImportersPublished(p) ==
    {q \in Paths : modules[q] # None /\ p \in imports[q] /\ published[q] # None}

Importers(p) == {q \in Paths : modules[q] # None /\ p \in imports[q]}

\* The imports checker.check follows: it stops at an interface it finds cached.
UncheckedImports ==
    [q \in Paths |-> IF q \in DOMAIN interfaces THEN {} ELSE imports[q]]

\* The modules checker.check has to check, and so cache, to answer for p.
Unchecked(p) == ReachedBy({p}, UncheckedImports) \ DOMAIN interfaces

\* p checks: what has to be checked is loaded and checks, and no import cycle
\* is in it.
Checks(p) ==
    \A q \in Unchecked(p) :
        /\ modules[q] # None
        /\ modules[q].ok
        /\ q \notin ReachedBy(imports[q], UncheckedImports)

\* The modules whose values p's value is put together from: what is cached is
\* taken as it is, and the values of retained bindings are not evaluated again.
Evaluated(p) ==
    ReachedBy({p}, [q \in Paths |->
        IF q \in DOMAIN interfaces \cup DOMAIN bindings THEN {} ELSE imports[q]])

\* What such a module contributes.
Contribution(q) ==
    IF q \in DOMAIN interfaces THEN interfaces[q]
    ELSE {Entry(q, Seen(modules[q]))} \cup
         (IF q \in DOMAIN bindings THEN bindings[q] ELSE {})

\* The view checker.check gives p, when p checks.
CheckedView(p) == UNION {Contribution(q) : q \in Evaluated(p)}

\* What p's program sees of its imports, once p checks.
ImportsSeen(p) ==
    IF p \in DOMAIN bindings THEN bindings[p]
    ELSE UNION {CheckedView(d) : d \in imports[p]}

\* The reference: what a session that never cached anything computes now.
Acyclic(p) == \A q \in Reach(p) : q \notin ReachedBy(imports[q], imports)
FreshOk(p) ==
    /\ Acyclic(p)
    /\ \A q \in Reach(p) : modules[q] # None /\ modules[q].ok
FreshView(p) == {Entry(q, Seen(modules[q])) : q \in Reach(p)}
FreshProgram(p) ==
    {Entry(q, IF q = p THEN modules[q] ELSE Seen(modules[q])) : q \in Reach(p)}
Emits(program) == \A e \in program : e.text.emits

-----------------------------------------------------------------------------
(* Development units.  A unit is named by its root.  Code in modules that  *)
(* are no unit root is copied into every unit that calls it.               *)

TextIn(program, p)    == (CHOOSE e \in program : e.path = p).text
ImportsIn(program, p) == (CHOOSE e \in program : e.path = p).imports
CodeIn(program, root) ==
    {root} \cup {e.path : e \in {x \in program : ~x.text.portable}}

\* split_runtime_module's tracing of calls: functions of unit, over the
\* calls that stay in it.
CallsIn(program, root, stop) ==
    LET code == CodeIn(program, root)
    IN  [q \in Paths |-> IF q \in code
                         THEN (ImportsIn(program, q) \cap code) \ stop ELSE {}]
FunctionsOf(program, root, units, unit) ==
    IF unit \in ReachedBy({root}, CallsIn(program, root, {}))
    THEN ReachedBy({unit}, CallsIn(program, root, units))
    ELSE {}
SourcePaths(program, root, units, unit) ==
    {unit} \cup FunctionsOf(program, root, units, unit)

\* The links that cross units, each with the provider's interface.
Links(program, root, units) ==
    LET calls == CallsIn(program, root, {})
        linked(c) == {d \in units \ {c} :
                         \E q \in FunctionsOf(program, root, units, c) : d \in calls[q]}
    IN  UNION {{[consumer |-> c, provider |-> d, name |-> TextIn(program, d).exports] :
                   d \in linked(c)} : c \in units}

Partition(program, root, units, unit) ==
    [functions |-> {<<q, TextIn(program, q).shape>> :
                      q \in FunctionsOf(program, root, units, unit)},
     links |-> {l \in Links(program, root, units) :
                  unit \in {l.consumer, l.provider}}]

\* The canonical Runtime HIR of a unit: its functions, the values they were
\* staged with, and the links it imports and exports.
UnitCode(program, root, units, unit) ==
    LET functions == FunctionsOf(program, root, units, unit)
        data == {e \in program : e.path \notin CodeIn(program, root)}
        constants == {e.path : e \in data}
        staged == ReachedBy(functions,
                     [q \in Paths |->
                        IF q \in functions \cup constants
                        THEN ImportsIn(program, q) \cap constants ELSE {}])
    IN  [functions |-> {e \in program : e.path \in functions},
         values |-> {e \in data : e.path \in staged},
         links |-> Partition(program, root, units, unit).links]

ArtifactKey(root, units, unit) == [root |-> root, unit |-> unit, units |-> units]

-----------------------------------------------------------------------------
(* Invalidation.                                                           *)

Without(cache, paths) == Restrict(cache, DOMAIN cache \ paths)

\* The cache with p's value in it.
With(cache, p, value) ==
    [q \in DOMAIN cache \cup {p} |-> IF q = p THEN value ELSE cache[q]]

\* Mutant: the prepared transaction survives.
InvalidatePrepared(paths) ==
    /\ renewed' = renewed \cup paths
    /\ closed' = Without(closed, paths)
    /\ closedDev' = Restrict(closedDev, {k \in DOMAIN closedDev : k.root \notin paths})
    /\ UNCHANGED pending

\* invalidate_exact, but for the bindings and interfaces that the caller puts
\* back.
InvalidateExact(paths) ==
    /\ pending' = None
    /\ renewed' = renewed \cup paths
    /\ closed' = Without(closed, paths)
    /\ closedDev' = Restrict(closedDev, {k \in DOMAIN closedDev : k.root \notin paths})

Idle == request = None

Edit ==
    /\ Idle
    /\ edits < MaxEdits
    /\ edits' = edits + 1
    /\ answer' = None
    /\ UNCHANGED <<walkVars, nextTx>>

-----------------------------------------------------------------------------
(* Loading.                                                                *)

\* The dependencies whose values outlive the module instance that made them.
ReusableResults == {p \in DOMAIN interfaces : modules[p].portable}

\* add_source, add_module and install_module.  The bindings of an unchanged
\* prefix keep their values when every import's value is reusable.
AddSource(p, text) ==
    /\ Edit
    /\ modules[p] # text
    /\ modules' = [modules EXCEPT ![p] = text]
    /\ dirty' = dirty \cup {p}
    /\ InvalidateExact({p})
    /\ interfaces' = Without(interfaces, {p})
    /\ \E prefixUnchanged \in BOOLEAN :
          bindings' = IF /\ prefixUnchanged
                         /\ modules[p] # None
                         /\ imports[p] \subseteq ReusableResults
                      THEN bindings ELSE Without(bindings, {p})
    /\ UNCHANGED <<imports, published, nextId, artifacts, retained>>

\* configure_module.
ConfigureModule(p, choice) ==
    /\ Edit
    /\ modules[p] # None
    /\ imports[p] # choice
    /\ imports' = [imports EXCEPT ![p] = choice]
    /\ dirty' = dirty \cup {p}
    /\ InvalidateExact({p})
    /\ interfaces' = Without(interfaces, {p})
    /\ bindings' = Without(bindings, {p})
    /\ UNCHANGED <<modules, published, nextId, artifacts, retained>>

\* remove_module.
RemoveModule(p) ==
    /\ Edit
    /\ modules[p] # None
    /\ LET gone == Importers(p) \cup {p}
       IN  /\ pending' = None
           /\ renewed' = renewed \cup gone
           /\ closed' = Without(closed, gone)
           /\ closedDev' = Restrict(closedDev, {k \in DOMAIN closedDev :
                                k.root \notin gone /\ p \notin k.units})
           /\ interfaces' = Without(interfaces, gone)
           /\ bindings' = Without(bindings, gone)
           /\ dirty' = (dirty \cup gone) \ {p}
    /\ modules' = [modules EXCEPT ![p] = None]
    /\ imports' = [imports EXCEPT ![p] = {}]
    /\ published' = [published EXCEPT ![p] = None]
    /\ artifacts' = Restrict(artifacts, {k \in DOMAIN artifacts :
                        k.root # p /\ k.unit # p})
    /\ UNCHANGED <<nextId, retained>>

\* install_trusted_module_snapshot: the interface and value come with the
\* text, and the boundary is published at once.  Importers are invalidated
\* when the path was loaded before.
InstallSnapshot(p, text) ==
    /\ Edit
    /\ MissingInstalls \/ modules[p] # None \/ Importers(p) = {}
    /\ nextId < MaxBoundaryId
    /\ modules' = [modules EXCEPT ![p] = text]
    /\ imports' = [imports EXCEPT ![p] = {}]
    /\ LET gone == IF modules[p] # None THEN (Importers(p) \ {p}) \cup {p}
                                        ELSE {p}
       IN  /\ InvalidateExact(gone)
           /\ interfaces' = With(Without(interfaces, gone), p,
                  {[path |-> p, text |-> Seen(text), imports |-> {}]})
           /\ bindings' = With(Without(bindings, gone), p, {})
           /\ dirty' = (dirty \cup gone) \ {p}
    /\ published' = [published EXCEPT
          ![p] = [id |-> nextId + 1, fingerprint |-> None]]
    /\ nextId' = nextId + 1
    /\ UNCHANGED <<artifacts, retained>>

-----------------------------------------------------------------------------
(* Semantic requests.                                                      *)

\* begin_semantic_request, and for a development program the abandoning of
\* the preparation before it.  The host asks only for graphs its loader found
\* acyclic, and for units the program reaches.
BeginRequest(r) ==
    /\ Idle
    /\ Acyclic(r.root)
    /\ r.kind = "develop" => nextTx <= MaxTransaction /\ r.units \subseteq Reach(r.root)
    /\ request' = r
    /\ walk' = <<[path |-> r.root, left |-> imports[r.root]]>>
    /\ checked' = {}
    /\ answer' = None
    /\ pending' = IF r.kind = "develop" THEN None ELSE pending
    /\ UNCHANGED <<loadVars, dirty, published, nextId, renewed, cacheVars,
                   closedDev, artifacts, nextTx, retained>>

Top == walk[Len(walk)]
Visiting == {walk[i].path : i \in DOMAIN walk}

\* ensure_current descends into an import it is not already visiting.
Descend(d) ==
    /\ walk # << >>
    /\ d \in Top.left
    /\ LET here == [walk EXCEPT ![Len(walk)].left = @ \ {d}]
       IN  walk' = IF d \in Visiting THEN here
                   ELSE Append(here, [path |-> d, left |-> imports[d]])
    /\ UNCHANGED <<loadVars, dirty, published, nextId, renewed, cacheVars,
                   devVars, request, checked, answer>>

Pop == SubSeq(walk, 1, Len(walk) - 1)

\* The module on top has all its imports current.
Settling(p) == walk # << >> /\ Top.left = {} /\ p = Top.path

ReuseInterface(p) ==
    /\ Settling(p)
    /\ p \notin dirty
    /\ walk' = Pop
    /\ UNCHANGED <<loadVars, dirty, published, nextId, renewed, cacheVars,
                   devVars, request, checked, answer>>

\* The request ends with a diagnostic.
Fail(outcome) ==
    /\ answer' = [request |-> request, outcome |-> outcome, value |-> {}]
    /\ request' = None
    /\ walk' = << >>

CheckFails(p) ==
    /\ Settling(p)
    /\ p \in dirty
    /\ ~Checks(p)
    /\ checked' = checked \cup {p}
    /\ published' = [published EXCEPT ![p] = None]
    /\ dirty' = (dirty \ {p}) \cup Importers(p)
    /\ IF Importers(p) = {}
       THEN UNCHANGED <<pending, renewed, closed, closedDev>>
       ELSE InvalidateExact(Importers(p))
    /\ interfaces' = Without(interfaces, Importers(p))
    /\ bindings' = Without(bindings, Importers(p) \cup {p})
    /\ Fail("failed")
    /\ UNCHANGED <<loadVars, nextId, artifacts, nextTx, retained>>

\* What checker.check leaves cached when p checks.
Caches(p) ==
    [q \in DOMAIN interfaces \cup Unchecked(p) |->
        IF q \in DOMAIN interfaces THEN interfaces[q] ELSE CheckedView(q)]
Evaluates(p) ==
    [q \in DOMAIN bindings \cup Unchecked(p) |-> ImportsSeen(q)]

\* The sealed bytes of publish_boundary: what importers see of p, the
\* identities of the boundaries below it, and, unless the value encodes
\* completely, the revision.
Fingerprint(p) ==
    [exports |-> modules[p].exports,
     below |-> [d \in imports[p] |-> published[d].id],
     revision |-> IF modules[p].portable THEN None ELSE p]

SameFingerprint(p) ==
    /\ published[p] # None
    /\ published[p].fingerprint = Fingerprint(p)
    /\ modules[p].portable \/ p \notin renewed

BelowPublished(p) == \A d \in imports[p] : published[d] # None

\* publish_boundary refuses: a boundary below is missing, or the identities
\* have run out.  The module stays dirty.
PublishRefused(p) ==
    /\ Settling(p)
    /\ p \in dirty
    /\ Checks(p)
    /\ \/ ~BelowPublished(p)
       \/ BelowPublished(p) /\ ~SameFingerprint(p) /\ nextId = MaxBoundaryId
    /\ checked' = checked \cup {p}
    /\ interfaces' = Caches(p)
    /\ bindings' = Evaluates(p)
    /\ Fail(IF BelowPublished(p) THEN "exhausted" ELSE "unpublished")
    /\ UNCHANGED <<loadVars, dirty, published, nextId, renewed, closed, devVars>>

\* The boundary is what it was: importers keep what they have.
PublishUnchanged(p) ==
    /\ Settling(p)
    /\ p \in dirty
    /\ Checks(p)
    /\ BelowPublished(p)
    /\ SameFingerprint(p)
    /\ checked' = checked \cup {p}
    /\ interfaces' = Caches(p)
    /\ bindings' = Evaluates(p)
    /\ dirty' = dirty \ {p}
    /\ walk' = Pop
    /\ UNCHANGED <<loadVars, published, nextId, renewed, closed, devVars,
                   request, answer>>

\* A new boundary: the direct importers become dirty and lose their caches.
PublishChanged(p) ==
    /\ Settling(p)
    /\ p \in dirty
    /\ Checks(p)
    /\ BelowPublished(p)
    /\ ~SameFingerprint(p)
    /\ nextId < MaxBoundaryId
    /\ checked' = checked \cup {p}
    /\ published' = [published EXCEPT
          ![p] = [id |-> nextId + 1, fingerprint |-> Fingerprint(p)]]
    /\ nextId' = nextId + 1
    /\ dirty' = (dirty \ {p}) \cup Importers(p)
    /\ renewed' = (renewed \ {p}) \cup Importers(p)
    /\ IF Importers(p) = {}
       THEN UNCHANGED <<pending, closed, closedDev>>
       ELSE /\ pending' = None
            /\ closed' = Without(closed, Importers(p))
            /\ closedDev' = Restrict(closedDev, {k \in DOMAIN closedDev :
                                k.root \notin Importers(p)})
    /\ interfaces' = Without(Caches(p), Importers(p))
    /\ bindings' = Without(Evaluates(p), Importers(p))
    /\ walk' = Pop
    /\ UNCHANGED <<loadVars, artifacts, nextTx, retained, request, answer>>

-----------------------------------------------------------------------------
(* Answers, once the walk is over.                                         *)

Walked(kind) == request # None /\ walk = << >> /\ request.kind = kind

\* check_module, evaluate_module, test_module and module_snapshot.
AnswerCheck ==
    /\ Walked("check")
    /\ IF ~Checks(request.root)
       THEN Fail("failed") /\ UNCHANGED <<interfaces, bindings>>
       ELSE /\ interfaces' = Caches(request.root)
            /\ bindings' = Evaluates(request.root)
            /\ answer' = [request |-> request, outcome |-> "ok",
                          value |-> CheckedView(request.root)]
            /\ request' = None
            /\ UNCHANGED walk
    /\ UNCHANGED <<loadVars, dirty, published, nextId, renewed, closed,
                   devVars, checked>>

\* The program elaborate closes for root, from the interfaces cached.
ClosedFrom(root) ==
    {Entry(root, modules[root])} \cup
        {e \in ImportsSeen(root) : e.path # root}

\* close_program_inner, for compile_module, analyze_module and
\* prepare_runtime_hir.
AnswerCompile ==
    /\ Walked("compile")
    /\ LET root == request.root
           hit  == root \in DOMAIN closed
           program == IF hit THEN closed[root] ELSE ClosedFrom(root)
       IN  IF ~hit /\ ~Checks(root)
           THEN Fail("failed") /\ UNCHANGED <<interfaces, bindings, closed>>
           ELSE /\ interfaces' = IF hit THEN interfaces ELSE Caches(root)
                /\ bindings' = IF hit THEN bindings ELSE Evaluates(root)
                /\ IF ~Emits(program)
                   THEN Fail("refused") /\ UNCHANGED closed
                   ELSE /\ closed' = With(closed, root, program)
                        /\ answer' = [request |-> request, outcome |-> "ok",
                                      value |-> program]
                        /\ request' = None
                        /\ UNCHANGED walk
    /\ UNCHANGED <<loadVars, dirty, published, nextId, renewed, devVars, checked>>

\* The artifact compile_development_program returns for a unit of program.
\* A unit none of whose sources was checked in this request, and whose
\* partition is what it was, keeps its committed artifact unseen; any other
\* keeps it only if its code is the same.
UnitAnswer(program, root, units, unit) ==
    LET key == ArtifactKey(root, units, unit)
        known == key \in DOMAIN artifacts
        code == UnitCode(program, root, units, unit)
    IN  IF /\ known
           /\ checked \cap artifacts[key].sources = {}
           /\ artifacts[key].partition = Partition(program, root, units, unit)
        THEN [source |-> "unit-cache", code |-> artifacts[key].code]
        ELSE IF known /\ artifacts[key].code = code
        THEN [source |-> "unit-cache", code |-> artifacts[key].code]
        ELSE [source |-> "compiled", code |-> code]

\* close_development_program and the rest of compile_development_program.
AnswerDevelop ==
    /\ Walked("develop")
    /\ LET root  == request.root
           units == request.units
           key   == [root |-> root, units |-> units]
           hit   == key \in DOMAIN closedDev
           program == IF hit THEN closedDev[key] ELSE ClosedFrom(root)
           reply == [u \in units |-> UnitAnswer(program, root, units, u)]
           compiled == {u \in units : reply[u].source = "compiled"}
       IN  IF ~hit /\ ~Checks(root)
           THEN /\ Fail("failed")
                /\ UNCHANGED <<interfaces, bindings, closedDev, pending, nextTx>>
           ELSE /\ interfaces' = IF hit THEN interfaces ELSE Caches(root)
                /\ bindings' = IF hit THEN bindings ELSE Evaluates(root)
                /\ IF ~Emits(program)
                   THEN /\ Fail("refused")
                        /\ UNCHANGED <<closedDev, pending, nextTx>>
                   ELSE /\ closedDev' = With(closedDev, key, program)
                        /\ pending' =
                             [id |-> nextTx, root |-> root, units |-> units,
                              active |-> {ArtifactKey(root, units, u) : u \in units},
                              reply |-> reply,
                              replacements |->
                                [k \in {ArtifactKey(root, units, u) : u \in compiled} |->
                                   [code |-> reply[k.unit].code,
                                    sources |-> SourcePaths(program, root, units, k.unit),
                                    partition |-> Partition(program, root, units, k.unit)]]]
                        /\ nextTx' = nextTx + 1
                        /\ answer' = [request |-> request, outcome |-> "ok",
                                      value |-> reply]
                        /\ request' = None
                        /\ UNCHANGED walk
    /\ UNCHANGED <<loadVars, dirty, published, nextId, renewed, closed,
                   artifacts, retained, checked>>

\* commit_development_program with the pending identity, and the host's
\* replacement of the artifacts it retains for the program.  Any other
\* identity changes nothing.
Commit ==
    /\ Idle
    /\ pending # None
    /\ LET kept == {k \in DOMAIN artifacts :
                      k.root # pending.root \/ k \in pending.active}
           new  == DOMAIN pending.replacements
       IN  artifacts' = [k \in kept \cup new |->
                IF k \in new THEN pending.replacements[k] ELSE artifacts[k]]
    /\ retained' = [retained EXCEPT
          ![pending.root] = [u \in pending.units |-> pending.reply[u].code]]
    /\ pending' = None
    /\ answer' = None
    /\ UNCHANGED <<loadVars, dirty, published, nextId, renewed, cacheVars,
                   closedDev, nextTx, walkVars>>

-----------------------------------------------------------------------------
Init ==
    /\ modules = InitialTexts
    /\ imports = InitialImports
    /\ dirty = {p \in Paths : InitialTexts[p] # None}
    /\ published = [p \in Paths |-> None]
    /\ nextId = 0
    /\ renewed = {p \in Paths : InitialTexts[p] # None}
    /\ interfaces = << >>
    /\ bindings = << >>
    /\ closed = << >>
    /\ closedDev = << >>
    /\ artifacts = << >>
    /\ pending = None
    /\ nextTx = 1
    /\ retained = [p \in Paths |-> << >>]
    /\ checked = {}
    /\ request = None
    /\ walk = << >>
    /\ answer = None
    /\ edits = 0

Next ==
    \/ \E p \in Paths :
          \/ \E text \in Texts : AddSource(p, text)
          \/ \E choice \in ImportChoices[p] : ConfigureModule(p, choice)
          \/ RemoveModule(p)
          \/ \E text \in SnapshotTexts : InstallSnapshot(p, text)
          \/ Descend(p)
          \/ ReuseInterface(p)
          \/ CheckFails(p)
          \/ PublishRefused(p)
          \/ PublishUnchanged(p)
          \/ PublishChanged(p)
    \/ \E r \in Requests : BeginRequest(r)
    \/ AnswerCheck
    \/ AnswerCompile
    \/ AnswerDevelop
    \/ Commit

Spec == Init /\ [][Next]_vars

-----------------------------------------------------------------------------
(* Properties.                                                             *)

\* Boundaries name loaded modules and allocated identities, caches belong to
\* loaded modules, and a walk is only under way inside a request.
TypeOK ==
    /\ modules \in [Paths -> Texts \cup SnapshotTexts \cup {None}]
    /\ imports \in [Paths -> SUBSET Paths]
    /\ dirty \subseteq {p \in Paths : modules[p] # None}
    /\ nextId \in 0..MaxBoundaryId
    /\ \A p \in Paths :
          published[p] # None => modules[p] # None /\ published[p].id \in 1..nextId
    /\ \A p \in DOMAIN interfaces \cup DOMAIN bindings \cup DOMAIN closed :
          p \in Paths /\ modules[p] # None
    /\ edits \in 0..MaxEdits
    /\ nextTx \in 1..MaxTransaction + 1
    /\ request \in Requests \cup {None}
    /\ walk # << >> => request # None

\* A boundary that is not about to be checked again was sealed over the
\* boundaries its imports have now: whichever step replaced or removed one of
\* them made this module dirty (ensure_current, remove_module and the snapshot
\* installation all end in invalidate_direct_importers).
LinksCurrent ==
    \A p \in Paths \ dirty :
        published[p] # None =>
            \A d \in imports[p] :
                /\ published[d] # None
                /\ published[d].id = published[p].fingerprint.below[d]

\* Nothing stale survives in a settled part of the graph: where no module that
\* p reaches is dirty, p's interface and closed program are what a session
\* without caches would compute (invalidation stops at an unchanged boundary).
SettledFresh ==
    \A p \in Paths : Reach(p) \cap dirty = {} /\ Acyclic(p) =>
        /\ p \in DOMAIN interfaces => FreshOk(p) /\ interfaces[p] = FreshView(p)
        /\ p \in DOMAIN closed => FreshOk(p) /\ closed[p] = FreshProgram(p)

\* A request answers what a session that starts from the loaded texts would
\* answer: it fails exactly when that session fails, and its view, program or
\* compiled unit is the same (check_module, compile_module,
\* compile_development_program after ensure_current).
AnswersFresh ==
    answer # None =>
        LET root == answer.request.root
            kind == answer.request.kind
        IN  /\ answer.outcome = "failed" => ~FreshOk(root)
            /\ answer.outcome = "refused" =>
                  FreshOk(root) /\ ~Emits(FreshProgram(root))
            /\ answer.outcome = "ok" =>
                  /\ FreshOk(root)
                  /\ kind = "check" => answer.value = FreshView(root)
                  /\ kind = "compile" => answer.value = FreshProgram(root)
                  /\ kind = "develop" =>
                        \A u \in answer.request.units :
                            answer.value[u].source = "compiled" =>
                                answer.value[u].code =
                                  UnitCode(FreshProgram(root), root,
                                           answer.request.units, u)

\* A preparation that can still be committed was made from the texts loaded
\* now: every call that changes them abandons it (invalidate_exact takes
\* pending_development_artifacts).
PendingCurrent ==
    pending # None =>
        /\ FreshOk(pending.root)
        /\ \A k \in DOMAIN pending.replacements :
              pending.replacements[k].code =
                 UnitCode(FreshProgram(pending.root), pending.root, k.units, k.unit)

\* The host holds every artifact it is told to keep: a unit answered from the
\* unit cache is the one the host retained for that program (the failure
\* "retained development unit without the matching host artifact").
HostHolds ==
    pending # None =>
        \A u \in pending.units : pending.reply[u].source = "unit-cache" =>
            /\ u \in DOMAIN retained[pending.root]
            /\ retained[pending.root][u] = pending.reply[u].code

\* A module that checks never meets an import without a published boundary
\* (publish_boundary, "reached unpublished dependency boundary").
ImportsPublished == answer # None => answer.outcome # "unpublished"

\* What the session keeps is well formed, linked to current boundaries, and
\* fresh wherever nothing is left to check (ensure_current, publish_boundary,
\* invalidate_exact).
CachesCurrent == TypeOK /\ LinksCurrent /\ SettledFresh

\* A development preparation describes the loaded texts and what the host
\* holds, until it is committed or withdrawn (compile_development_program,
\* commit_development_program).
PreparationsCurrent == PendingCurrent /\ HostHolds

\* Every request ends as it would in a session without caches, and none in an
\* internal error (begin_semantic_request and the requests built on it).
AnswersCurrent == AnswersFresh /\ ImportsPublished

\* A unit answered from the unit cache is the unit a fresh compilation
\* produces: the response "proves equality with the resident artifact's full
\* Runtime-HIR serialization".
UnitCacheEqual ==
    answer # None =>
        (answer.outcome = "ok" /\ answer.request.kind = "develop" =>
            \A u \in answer.request.units :
                answer.value[u].code =
                    UnitCode(FreshProgram(answer.request.root),
                             answer.request.root, answer.request.units, u))
=============================================================================
