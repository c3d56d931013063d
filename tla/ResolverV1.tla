------------------------------ MODULE ResolverV1 ------------------------------
(***************************************************************************)
(* The v1 resolver (resolve.go): the walk of ResolverV2 in its first form. *)
(* An import of a package that is being walked is skipped, versions are    *)
(* pinned by locks (declared in the root, or in a lockfile a resolution    *)
(* generated), and a candidate's evidence is its digest and its immutable  *)
(* proof.  A finished resolution may be replayed with the lockfile it      *)
(* wrote, on the same root and catalog.                                    *)
(*                                                                         *)
(* Bytes stand for their digests, numbered in digest order; None is an     *)
(* empty field (for an entry's digest also one without "sha256:").  An     *)
(* export's or import's semantic id, type and stage are one signature.     *)
(***************************************************************************)
EXTENDS Claims, WorkLeft

CONSTANTS
    Package,     \* package names
    Root,        \* the consumer's name
    Path,        \* source paths of catalog entries
    Bytes,       \* file contents, numbered in digest order
    Parsed,      \* ParseSource on contents: a source, or None if invalid
    Admits,      \* the versions satisfies admits, for each constraint text
    Catalogs,    \* the catalogs a resolution may start from: sets of entries
    Roots,       \* the consumers: imports, and locks by package
    Lockfiles,   \* lockfiles the caller may provide at first
    Disk,        \* what the paths hold at first: contents, or None
    Rewrites,    \* <<path, contents>> pairs others may write meanwhile
    MaxRewrites, \* at most so many rewrites
    None         \* an empty field, a missing file, nothing yet

(* The order of "stage/step/reason" among the v1 claims of one state.      *)
ClaimOrder ==
    [ CAPABILITY_SIGNATURE_INCOMPATIBLE |-> 1, EFFECT_SIGNATURE_INCOMPATIBLE |-> 2,
      PACKAGE_SOURCE_DIGEST_MISMATCH |-> 3, IMMUTABLE_PROOF_MISMATCH |-> 4,
      LOCK_DIGEST_CONFLICT |-> 5, LOCK_DIGEST_NOT_IN_CATALOG |-> 6,
      CATALOG_ORIGIN_OWNERSHIP_MISMATCH |-> 7, ORIGIN_OWNERSHIP_CONFLICT |-> 8,
      PACKAGE_SOURCE_INVALID |-> 9, SEMANTIC_SIGNATURE_INCOMPATIBLE |-> 10,
      VERSION_CONSTRAINT_UNSATISFIED |-> 11,
      PACKAGE_SOURCE_UNAVAILABLE |-> 1, IMMUTABLE_PROOF_UNAVAILABLE |-> 2,
      NO_VERIFIABLE_CANDIDATE |-> 3 ]

Claim == ClaimSet(DOMAIN ClaimOrder, Package)

Constraint == DOMAIN Admits
Entry  == UNION Catalogs
Sources == {b \in Bytes : Parsed[b] # None}
Import == (UNION {R.imports : R \in Roots}) \cup (UNION {Parsed[b].imports : b \in Sources})

(* key is the rank of importKey, line the place sort.Slice leaves the      *)
(* import in among those of one source with equal keys: the order of       *)
(* declaration up to twelve imports, fixed by the source in any case.      *)
(* version is the rank compareSemver gives.                                *)
IsEntry(e)  == /\ e.name \in Package /\ e.version \in Nat
               /\ e.digest \in Bytes \cup {None} /\ e.path \in Path
IsImport(i) == /\ i.pkg \in Package /\ i.constraint \in Constraint
               /\ i.key \in Nat /\ i.line \in Nat

(* A lockfile names digests; valid says that validateProvidedLock finds    *)
(* this root, contract and catalog in it and its own digest intact.        *)
LockEntry == [name : Package, digest : Bytes]
Lockfile  == [valid : BOOLEAN, packages : SUBSET LockEntry]

Edge == [from : Package \cup {Root}, to : Package, constraint : Constraint,
         signature : {i.signature : i \in Import}]

(* What is kept of the loop over the candidates of an import.              *)
Probe == [imp : Import, untried : SUBSET Entry,
          reading : {None} \cup [entry : Entry, data : Bytes],
          refuted : {None} \cup Claim,
          unknown : {None} \cup Claim]

(* What is kept of a resolution that is replayed.                          *)
Finished == [provided : {None} \cup Lockfile, outcome : {closedClaim} \cup Claim,
             selected : [Package -> {None} \cup [entry : Entry, bytes : Sources]],
             edges : SUBSET Edge]

ASSUME WorldAssumption ==
    /\ Root \notin Package
    /\ None \notin Bytes /\ None \notin [entry : Entry, bytes : Bytes]
    /\ None \notin [entry : Entry, data : Bytes]
    /\ None \notin {closedClaim, errorClaim} \cup Claim
    /\ Bytes \subseteq Nat
    /\ \A b \in Sources : Parsed[b].name \in Package
    /\ \A e \in Entry : IsEntry(e)
    /\ \A i \in Import : IsImport(i)
    /\ \A R \in Roots : R.locks \in [Package -> Bytes \cup {None}]
    /\ Lockfiles \subseteq Lockfile /\ None \notin Lockfile
    /\ None \notin Probe /\ None \notin Finished
    /\ Disk \in [Path -> Bytes \cup {None}]
    /\ Rewrites \subseteq Path \X (Bytes \cup {None})
    /\ MaxRewrites \in Nat

VARIABLES
    catalog,     \* the catalog entries (Resolver.Catalog)
    root,        \* the consumer: [imports, locks]
    files,       \* what each path holds now
    rewrites,    \* how many rewrites have happened
    provided,    \* the lockfile given to this resolution, or None
    unapplied,   \* its entries that are still to be merged
    lockRefs,    \* the digest each package is locked to, or None
    frames,      \* the walk: the root's frame, then one per open package
    probe,       \* the import whose candidates are being inspected, or None
    selected,    \* for each package its entry and source bytes, or None
    visited,     \* packages whose dependencies were walked
    edges,       \* links recorded by addEdge
    decisions,   \* claims against the graph, in the order they were found
    outcome,     \* the resolution's claim, or None while it runs
    first        \* the resolution that is being replayed, or None

world == <<catalog, root>>
disk  == <<files, rewrites>>
locks == <<provided, unapplied, lockRefs>>
graph == <<selected, visited, edges>>
vars  == <<world, disk, locks, frames, probe, graph, decisions, outcome, first>>

-------------------------------------------------------------------------------
(* Reading the state.                                                      *)

Selected == {p \in Package : selected[p] # None}
SourceOf(p) == Parsed[selected[p].bytes]
ImportsOf(p) == IF p = Root THEN root.imports ELSE SourceOf(p).imports

Top  == frames[Len(frames)]
Open == {frames[k].pkg : k \in 2 .. Len(frames)}     \* the map resolving
Running == outcome = None /\ frames # << >>

Before(i, j) == i.key < j.key \/ (i.key = j.key /\ i.line < j.line)

(* i is the import the top frame turns to next.                            *)
Current(i) ==
    /\ Running /\ probe = None /\ unapplied = {}
    /\ i \in Top.todo
    /\ \A j \in Top.todo \ {i} : Before(i, j)

Pending == IF Running THEN Top.todo ELSE {}

-------------------------------------------------------------------------------
(* The predicates an import and a candidate must pass.                     *)

(* Why source does not offer what imp asks for, or None: the first export  *)
(* with the signature decides.                                             *)
importMatches(source, imp) ==
    LET matching == {n \in DOMAIN source.exports :
                        source.exports[n].signature = imp.signature}
        export == source.exports[CHOOSE n \in matching : \A m \in matching : n <= m]
    IN  IF imp.owner # None /\ source.owner # imp.owner
        THEN refutedClaim("ORIGIN_OWNERSHIP_CONFLICT", source.name)
        ELSE IF matching = {}
        THEN refutedClaim("SEMANTIC_SIGNATURE_INCOMPATIBLE", source.name)
        ELSE IF ~ (imp.capabilities \subseteq export.capabilities)
        THEN refutedClaim("CAPABILITY_SIGNATURE_INCOMPATIBLE", source.name)
        ELSE IF export.effects # imp.effects
        THEN refutedClaim("EFFECT_SIGNATURE_INCOMPATIBLE", source.name)
        ELSE None

(* Slip: the catalog digest is not held against the bytes.                 *)
DigestDeclared(entry, source, data) == source.digest \in {None, entry.digest}
DigestBound(entry, source, data) ==
    data = entry.digest /\ source.digest \in {None, entry.digest}

(* Why the candidate is refused, or None: data is what the first read      *)
(* returned, bytes what ParseSource found at the path afterwards.          *)
inspectCandidate(entry, imp, data, bytes) ==
    LET source == Parsed[bytes]
    IN  IF bytes = None \/ source = None
        THEN refutedClaim("PACKAGE_SOURCE_INVALID", entry.name)
        ELSE IF None \in {entry.digest, entry.proof, source.proof}
        THEN unknownClaim("IMMUTABLE_PROOF_UNAVAILABLE", entry.name)
        ELSE IF ~ DigestBound(entry, source, data)
        THEN refutedClaim("PACKAGE_SOURCE_DIGEST_MISMATCH", entry.name)
        ELSE IF source.proof # entry.proof
        THEN refutedClaim("IMMUTABLE_PROOF_MISMATCH", entry.name)
        ELSE IF entry.owner \notin {None, source.owner}
        THEN refutedClaim("CATALOG_ORIGIN_OWNERSHIP_MISMATCH", entry.name)
        ELSE importMatches(source, imp)

(* The catalog entries the constraint of imp admits; those its lock allows.*)
candidates(imp) ==
    {e \in catalog : e.name = imp.pkg /\ e.version \in Admits[imp.constraint]}

(* Slip: a lock that no candidate has is dropped.                          *)
LockAsHint(imp) ==
    IF \E e \in candidates(imp) : e.digest = lockRefs[imp.pkg]
    THEN {e \in candidates(imp) : e.digest = lockRefs[imp.pkg]}
    ELSE candidates(imp)
LockedCandidates(imp) ==
    {e \in candidates(imp) : lockRefs[imp.pkg] \in {None, e.digest}}

(* Digests are compared as strings; one that is empty or malformed is      *)
(* taken as the least.                                                     *)
DigestRank(d) == IF d = None THEN 0 ELSE d + 1
Lower(e, f) == \/ e.version < f.version
               \/ e.version = f.version /\ DigestRank(e.digest) < DigestRank(f.digest)
NextCandidates == {e \in probe.untried : \A f \in probe.untried : ~ Lower(f, e)}
-------------------------------------------------------------------------------
(* The resolution.                                                         *)

Init ==
    /\ catalog \in Catalogs /\ root \in Roots
    /\ files = Disk /\ rewrites = 0
    /\ provided \in Lockfiles \cup {None}
    /\ unapplied = {} /\ lockRefs = [p \in Package |-> None]
    /\ frames = << >> /\ probe = None
    /\ selected = [p \in Package |-> None]
    /\ visited = {} /\ edges = {} /\ decisions = << >>
    /\ outcome = None /\ first = None

(* Resolve: the root is validated, its locks are taken, a lockfile of      *)
(* another root, contract or catalog is an error.  A root of another kind, *)
(* version or selection, or with two locks of one package, ends as one     *)
(* without imports does.                                                   *)
ValidStart == root.imports # {} /\ (provided = None \/ provided.valid)

Start ==
    /\ outcome = None /\ frames = << >>
    /\ IF ValidStart
       THEN /\ frames' = << [pkg |-> Root, todo |-> root.imports] >>
            /\ lockRefs' = root.locks
            /\ unapplied' = IF provided = None THEN {} ELSE provided.packages
            /\ outcome' = None
       ELSE UNCHANGED <<frames, lockRefs, unapplied>> /\ outcome' = errorClaim
    /\ UNCHANGED <<world, disk, provided, probe, graph, decisions, first>>

(* Slip: the lockfile wins over the lock of the root's source.             *)
OverrideLock(l) ==
    /\ lockRefs' = [lockRefs EXCEPT ![l.name] = l.digest]
    /\ decisions' = decisions

MergeLock(l) ==
    IF lockRefs[l.name] \notin {None, l.digest}
    THEN /\ decisions' = Append(decisions, refutedClaim("LOCK_DIGEST_CONFLICT", l.name))
         /\ lockRefs' = lockRefs
    ELSE /\ lockRefs' = [lockRefs EXCEPT ![l.name] = l.digest]
         /\ decisions' = decisions

(* One turn of the loop over the provided lockfile's packages.             *)
ApplyLock ==
    /\ Running
    /\ \E l \in unapplied : MergeLock(l) /\ unapplied' = unapplied \ {l}
    /\ UNCHANGED <<world, disk, provided, frames, probe, graph, outcome, first>>

(* The top frame is done with import i.                                    *)
Handled(i) == [frames EXCEPT ![Len(frames)].todo = @ \ {i}]

Decide(i, claim) ==
    /\ frames' = Handled(i)
    /\ decisions' = Append(decisions, claim)

(* Slip: what was visited is walked again.                                 *)
WalkAgain(i, choice) ==
    IF i.pkg \in Open
    THEN Handled(i)
    ELSE Append(Handled(i), [pkg |-> i.pkg, todo |-> Parsed[choice.bytes].imports])

(* walkDependencies on the target of i, of which choice was selected.      *)
walkDependencies(i, choice) ==
    IF i.pkg \in visited \cup Open
    THEN Handled(i)
    ELSE Append(Handled(i), [pkg |-> i.pkg, todo |-> Parsed[choice.bytes].imports])

EdgeOf(from, i) == [from |-> from, to |-> i.pkg, constraint |-> i.constraint,
                    signature |-> i.signature]
addEdge(i) == edges \cup {EdgeOf(Top.pkg, i)}

(* resolveImport: the package is being walked, the import is left alone.   *)
SkipOpen(i) ==
    /\ Current(i) /\ i.pkg \in Open
    /\ frames' = Handled(i)
    /\ UNCHANGED <<world, disk, locks, probe, graph, decisions, outcome, first>>

Reuse(i) == Current(i) /\ i.pkg \notin Open /\ selected[i.pkg] # None

(* Slip: the import is passed over without its claim.                      *)
PassOverSelected(i) ==
    /\ Reuse(i) /\ importMatches(SourceOf(i.pkg), i) # None
    /\ frames' = Handled(i)
    /\ UNCHANGED <<world, disk, locks, probe, graph, decisions, outcome, first>>

RefuseSelected(i) ==
    /\ Reuse(i) /\ importMatches(SourceOf(i.pkg), i) # None
    /\ Decide(i, importMatches(SourceOf(i.pkg), i))
    /\ UNCHANGED <<world, disk, locks, probe, graph, outcome, first>>

LinkSelected(i) ==
    /\ Reuse(i) /\ importMatches(SourceOf(i.pkg), i) = None
    /\ edges' = addEdge(i)
    /\ frames' = walkDependencies(i, selected[i.pkg])
    /\ UNCHANGED <<world, disk, locks, probe, selected, visited, decisions, outcome, first>>

(* Slip: packages being walked are not recognised.                         *)
FreshOrOpen(i) == Current(i) /\ (i.pkg \in Open \/ selected[i.pkg] = None)
Fresh(i) == Current(i) /\ i.pkg \notin Open /\ selected[i.pkg] = None

RefuteNoVersion(i) ==
    /\ Fresh(i) /\ candidates(i) = {}
    /\ Decide(i, refutedClaim("VERSION_CONSTRAINT_UNSATISFIED", i.pkg))
    /\ UNCHANGED <<world, disk, locks, probe, graph, outcome, first>>

RefuteLock(i) ==
    /\ Fresh(i) /\ candidates(i) # {} /\ LockedCandidates(i) = {}
    /\ Decide(i, refutedClaim("LOCK_DIGEST_NOT_IN_CATALOG", i.pkg))
    /\ UNCHANGED <<world, disk, locks, probe, graph, outcome, first>>

(* The loop over the candidates of i starts; it keeps the first refutation *)
(* and the first unknown, which are all that is used of them.              *)
BeginProbe(i) ==
    /\ Fresh(i) /\ LockedCandidates(i) # {}
    /\ probe' = [imp |-> i, untried |-> LockedCandidates(i), reading |-> None,
                 refuted |-> None, unknown |-> None]
    /\ UNCHANGED <<world, disk, locks, frames, graph, decisions, outcome, first>>

(* Slip: the loop stays at the refused candidate.                          *)
RefuseAndStay(e, claim) == [probe EXCEPT !.reading = None]

Refuse(e, claim) ==
    [probe EXCEPT
        !.untried = @ \ {e}, !.reading = None,
        !.refuted = IF @ = None /\ claim.state = Refuted THEN claim ELSE @,
        !.unknown = IF @ = None /\ claim.state = Unknown THEN claim ELSE @]

(* inspectCandidate, the first read.                                       *)
Inspecting == probe # None /\ probe.reading = None /\ probe.untried # {}

ReadUnavailable ==
    /\ Inspecting
    /\ \E e \in NextCandidates :
          /\ files[e.path] = None
          /\ probe' = Refuse(e, unknownClaim("PACKAGE_SOURCE_UNAVAILABLE", e.name))
    /\ UNCHANGED <<world, disk, locks, frames, graph, decisions, outcome, first>>

ReadCandidate ==
    /\ Inspecting
    /\ \E e \in NextCandidates :
          /\ files[e.path] # None
          /\ probe' = [probe EXCEPT !.reading = [entry |-> e, data |-> files[e.path]]]
    /\ UNCHANGED <<world, disk, locks, frames, graph, decisions, outcome, first>>

(* inspectCandidate, the second read and every check.                      *)
Reading == probe # None /\ probe.reading # None
Bytes2 == files[probe.reading.entry.path]
Objection == inspectCandidate(probe.reading.entry, probe.imp, probe.reading.data, Bytes2)

RefuseCandidate ==
    /\ Reading /\ Objection # None
    /\ probe' = Refuse(probe.reading.entry, Objection)
    /\ UNCHANGED <<world, disk, locks, frames, graph, decisions, outcome, first>>

SelectCandidate ==
    /\ Reading /\ Objection = None
    /\ LET i == probe.imp
           choice == [entry |-> probe.reading.entry, bytes |-> Bytes2]
       IN  /\ selected' = [selected EXCEPT ![i.pkg] = choice]
           /\ edges' = addEdge(i)
           /\ frames' = walkDependencies(i, choice)
    /\ probe' = None
    /\ UNCHANGED <<world, disk, locks, visited, decisions, outcome, first>>

(* Slip: only the unknown claims are asked.                                *)
UnknownOnly == probe.unknown

(* The first refutation, else the first unknown, stands for the import.    *)
LeadingClaim ==
    IF probe.refuted # None THEN probe.refuted
    ELSE IF probe.unknown # None THEN probe.unknown
    ELSE unknownClaim("NO_VERIFIABLE_CANDIDATE", probe.imp.pkg)

(* No candidate is left.                                                   *)
ExhaustCandidates ==
    /\ probe # None /\ probe.reading = None /\ probe.untried = {}
    /\ Decide(probe.imp, LeadingClaim)
    /\ probe' = None
    /\ UNCHANGED <<world, disk, locks, graph, outcome, first>>

(* walkDependencies returns: the top package is visited.                   *)
ReturnUnmarked == \* slip: the package is not marked visited
    /\ Running /\ probe = None /\ Len(frames) > 1 /\ Top.todo = {}
    /\ frames' = SubSeq(frames, 1, Len(frames) - 1)
    /\ UNCHANGED <<world, disk, locks, probe, graph, decisions, outcome, first>>

Return ==
    /\ Running /\ probe = None /\ Len(frames) > 1 /\ Top.todo = {}
    /\ visited' = visited \cup {Top.pkg}
    /\ frames' = SubSeq(frames, 1, Len(frames) - 1)
    /\ UNCHANGED <<world, disk, locks, probe, selected, edges, decisions, outcome, first>>

(* Resolve ends with the final claim.                                      *)
Finish ==
    /\ Running /\ probe = None /\ unapplied = {} /\ Len(frames) = 1 /\ Top.todo = {}
    /\ \E c \in {closedClaim} \cup {decisions[k] : k \in DOMAIN decisions} :
          finalClaim(ClaimOrder, decisions, c) /\ outcome' = c
    /\ UNCHANGED <<world, disk, locks, frames, probe, graph, decisions, first>>

(* Slip: the lock pins the candidate tried first, not the one selected.    *)
FirstCandidateLock ==
    [valid |-> TRUE,
     packages |-> {[name |-> e.name, digest |-> e.digest] :
                     e \in {f \in catalog : f.digest # None /\ f.name \in Selected
                              /\ \A g \in catalog : g.name = f.name => ~ Lower(g, f)}}]

(* The lockfile of a resolution: the digest of every selected package,     *)
(* bound to this root, contract and catalog.                               *)
GeneratedLock ==
    [valid |-> TRUE,
     packages |-> {[name |-> p, digest |-> selected[p].entry.digest] : p \in Selected}]

(* The same root is resolved again with the lockfile just generated; the   *)
(* command writes it whatever the outcome.                                 *)
Replay ==
    /\ first = None /\ outcome \notin {None, errorClaim}
    /\ first' = [provided |-> provided, outcome |-> outcome,
                 selected |-> selected, edges |-> edges]
    /\ provided' = GeneratedLock
    /\ unapplied' = {} /\ lockRefs' = [p \in Package |-> None]
    /\ frames' = << >> /\ probe' = None
    /\ selected' = [p \in Package |-> None]
    /\ visited' = {} /\ edges' = {} /\ decisions' = << >>
    /\ outcome' = None
    /\ UNCHANGED <<world, disk>>

(* Somebody else rewrites or removes a file of the catalog meanwhile.      *)
Rewrite ==
    /\ Running /\ rewrites < MaxRewrites
    /\ \E w \in Rewrites :
          /\ \E e \in catalog : e.path = w[1]
          /\ files[w[1]] # w[2]
          /\ files' = [files EXCEPT ![w[1]] = w[2]]
    /\ rewrites' = rewrites + 1
    /\ UNCHANGED <<world, locks, frames, probe, graph, decisions, outcome, first>>

Step ==
    \/ Start \/ ApplyLock
    \/ \E i \in Pending :
          \/ SkipOpen(i) \/ RefuseSelected(i) \/ LinkSelected(i)
          \/ RefuteNoVersion(i) \/ RefuteLock(i) \/ BeginProbe(i)
    \/ ReadUnavailable \/ ReadCandidate \/ RefuseCandidate \/ SelectCandidate
    \/ ExhaustCandidates \/ Return \/ Finish

Next == Step \/ Replay \/ Rewrite

(* A resolution is one sequential run: it takes steps until it returns.    *)
(* Nobody has to replay it.                                                *)
Spec == Init /\ [][Next]_vars /\ WF_vars(Step)

-------------------------------------------------------------------------------
(* What holds of the resolution.                                           *)

Frame == [pkg : Package \cup {Root}, todo : SUBSET Import]

(* The type of every variable of resolveState and of its world.            *)
TypeOK ==
    /\ catalog \in Catalogs /\ root \in Roots
    /\ files \in [Path -> Bytes \cup {None}] /\ rewrites \in 0 .. MaxRewrites
    /\ provided = None \/ provided \in Lockfile
    /\ unapplied \subseteq LockEntry
    /\ lockRefs \in [Package -> Bytes \cup {None}]
    /\ frames \in Seq(Frame)
    /\ probe = None \/ probe \in Probe
    /\ selected \in [Package -> {None} \cup [entry : Entry, bytes : Sources]]
    /\ visited \subseteq Package
    /\ edges \subseteq Edge
    /\ decisions \in Seq(Claim)
    /\ outcome \in {None, closedClaim, errorClaim} \cup Claim
    /\ first = None \/ first \in Finished

(* The maps selected, resolving and visited fit: a selected package is     *)
(* open or visited, never both, and none is open twice.  So the second     *)
(* walk in resolveImport, "if !s.visited", is never taken.                 *)
WalkedOnce ==
    /\ Selected = visited \cup Open
    /\ visited \cap Open = {}
    /\ \A j, k \in 1 .. Len(frames) : frames[j].pkg = frames[k].pkg => j = k

(* The walk of one resolution implements the promise of LinkGraph: the     *)
(* links never close a cycle (imports that would are skipped), and the     *)
(* verdict is the worst flaw found.  A replay starts a new graph.          *)
Links == {<<e.from, e.to>> : e \in edges}
Flaws == {decisions[k].state : k \in DOMAIN decisions}
Verdict == IF outcome = None THEN None ELSE outcome.state

Graph == INSTANCE LinkGraph
            WITH linked <- Selected, links <- Links, flaws <- Flaws, verdict <- Verdict

Acyclic == Graph!IsAcyclic(Links)

ImplementsLinkGraph ==
    /\ Graph!Init
    /\ [][Graph!Next \/ first' # first]_<<Selected, Links, Flaws, Verdict>>

(* Import i, declared by p, is linked to a package that offers it.         *)
Linked(p, i) ==
    /\ selected[i.pkg] # None
    /\ importMatches(SourceOf(i.pkg), i) = None
    /\ EdgeOf(p, i) \in edges

(* Links lead from p to q: every set that holds p and what its members     *)
(* link to holds q.                                                        *)
Reaches(p, q) ==
    \A S \in SUBSET Package :
        (p \in S /\ \A l \in Links : l[1] \in S => l[2] \in S) => q \in S

(* CLOSED leaves out only what would close a cycle: an import without a    *)
(* link goes to a package from which its importer is reached.              *)
SkippedOnlyOnCycle ==
    outcome = closedClaim =>
        \A p \in Selected \cup {Root} : \A i \in ImportsOf(p) :
            Linked(p, i) \/ (i.pkg \in Selected /\ Reaches(i.pkg, p))

(* "A lock entry is an identity assertion, not a hint": a package locked   *)
(* by the root or the lockfile is selected with that digest or not at all, *)
(* and a lockfile that contradicts the root's lock refutes the resolution. *)
LocksAreAssertions ==
    /\ unapplied = {} =>
         \A p \in Selected : lockRefs[p] \in {None, selected[p].entry.digest}
    /\ outcome \notin {None, errorClaim} /\ provided # None =>
         \A l \in provided.packages :
            root.locks[l.name] \notin {None, l.digest} => outcome.state = Refuted

(* The evidence a selected package had when it was read: its proof and     *)
(* owners agree with the catalog, and unless a file was rewritten the      *)
(* bytes have the catalog's digest.                                        *)
SelectedOnEvidence ==
    \A p \in Selected :
        LET entry == selected[p].entry
            source == SourceOf(p)
        IN  /\ entry \in catalog /\ entry.name = p /\ None \notin {entry.digest, entry.proof}
            /\ source # None /\ source.proof = entry.proof
            /\ entry.owner \in {None, source.owner}
            /\ source.digest \in {None, entry.digest}
            /\ rewrites = 0 => selected[p].bytes = entry.digest

DigestIn(choices, p) == IF choices[p] = None THEN None ELSE choices[p].entry.digest

(* A CLOSED resolution replayed with its own lockfile gives the same       *)
(* packages and edges, as long as no file changes; and if the first run    *)
(* had no lockfile, the replay turns no other verdict into CLOSED.         *)
ReplayFaithful ==
    first # None /\ outcome # None /\ rewrites = 0 =>
        /\ outcome = closedClaim /\ first.provided = None => first.outcome = closedClaim
        /\ first.outcome = closedClaim =>
              /\ outcome = closedClaim
              /\ edges = first.edges
              /\ \A p \in Package : DigestIn(selected, p) = DigestIn(first.selected, p)

(* What a resolution has still to do, the weightiest first: end, start,    *)
(* merge locks, enter packages, leave them, turn to imports that wait,     *)
(* and for the one at hand begin the probe, try candidates, read one.      *)
Walked == visited \cup {frames[k].pkg : k \in DOMAIN frames}
Waits  == UNION {{frames[k].pkg} \X frames[k].todo : k \in DOMAIN frames}

Remaining ==
    << Due(outcome = None), Due(frames = << >>), unapplied,
       Package \ Walked, Package \ visited, Waits, Due(probe = None),
       IF probe = None THEN {} ELSE probe.untried,
       Due(probe # None /\ probe.reading = None) >>

(* The mutual recursion runs out: every step leaves less to be done, and   *)
(* what others do to the files adds nothing to it.                         *)
RunsOut ==
    [][/\ Step => LessRemains(Remaining', Remaining)
       /\ Rewrite => Remaining' = Remaining]_vars

(* Every resolution ends, cyclic imports and failing candidates included.  *)
Terminates == outcome = None ~> outcome # None

-------------------------------------------------------------------------------
(* What the documents say and the walk does not keep.                      *)

(* "The linked IR records every dependency edge."                          *)
EveryDependencyLinked ==
    outcome = closedClaim =>
        \A p \in Selected \cup {Root} : \A i \in ImportsOf(p) : EdgeOf(p, i) \in edges

(* CLOSED: all required predicates were observed, so every edge's target   *)
(* has a version its constraint admits.                                    *)
ConstraintsHold ==
    outcome = closedClaim =>
        \A e \in edges : selected[e.to].entry.version \in Admits[e.constraint]

(* "Every selected source's bytes match its catalog digest."               *)
SelectedBytesMatch ==
    outcome = closedClaim =>
        \A p \in Selected : selected[p].bytes = selected[p].entry.digest
===============================================================================
