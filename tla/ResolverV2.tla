------------------------------ MODULE ResolverV2 ------------------------------
(***************************************************************************)
(* The v2 resolver (v2.go): a depth-first walk of semantic imports over a  *)
(* catalog of pinned package manifests.  The recursion resolveImport /     *)
(* walkDependencies is unfolded into a stack of frames, one per open       *)
(* package; the loop over candidates is the probe.  Between the two reads  *)
(* of a candidate's file (os.ReadFile, then ParseSource) the file may be   *)
(* rewritten by somebody else.                                             *)
(*                                                                         *)
(* Digests are perfect: bytes are numbered in the order of their digests   *)
(* and stand for them, and the digest of exports is their multiset.  The   *)
(* four identity fields the code only compares (repository, tag object,    *)
(* tag target, asset id) are one field, provenance.                        *)
(***************************************************************************)
EXTENDS Claims, FiniteSets, Functions, WorkLeft

CONSTANTS
    Package,     \* package names
    Root,        \* the consumer's name
    Path,        \* source paths of catalog entries
    Bytes,       \* file contents, numbered in digest order
    Parsed,      \* ParseSource on contents: a source, or None if invalid
    Sha256,      \* the asset digests that begin with "sha256:"
    Admits,      \* the versions satisfies admits, for each constraint text
    Worlds,      \* what a resolution may start from: records of a catalog,
                 \* which is a set of entries, and the consumer's imports
    Disk,        \* what the paths hold at first: contents, or None
    Rewrites,    \* <<path, contents>> pairs others may write meanwhile
    MaxRewrites, \* at most so many rewrites in one resolution
    ContractId,  \* the contract's identity; its field contract is its digest
    None         \* an empty field, a missing file, nothing yet

(* The order of "stage/step/reason" among the v2 claims of one state.      *)
ClaimOrder ==
    [ CAPABILITY_EXPORT_INCOMPATIBLE |-> 1, EFFECT_EXPORT_INCOMPATIBLE |-> 2,
      SEMANTIC_EXPORT_INCOMPATIBLE |-> 3, EXPORTED_SYMBOL_SET_DIGEST_MISMATCH |-> 4,
      DEPENDENCY_CYCLE |-> 5, IMPORT_IDENTITY_CONFLICT |-> 6,
      PACKAGE_DIGEST_CONFLICT |-> 7, PACKAGE_DIGEST_NOT_FOUND |-> 8,
      FORGED_PACKAGE_IDENTITY |-> 9, PACKAGE_SOURCE_DIGEST_MISMATCH |-> 10,
      PACKAGE_MANIFEST_INVALID |-> 11, ORIGIN_OWNERSHIP_CONFLICT |-> 12,
      AMBIGUOUS_EXPORT |-> 1, CONTRACT_DIGEST_UNAVAILABLE |-> 2,
      TOOLCHAIN_MISMATCH |-> 3, IMMUTABLE_RELEASE_UNAVAILABLE |-> 4,
      ASSET_DIGEST_UNAVAILABLE |-> 5, PACKAGE_SOURCE_UNAVAILABLE |-> 6,
      NO_VERIFIABLE_PINNED_MANIFEST |-> 7 ]

Claim == ClaimSet(DOMAIN ClaimOrder, Package)

Constraint == DOMAIN Admits

Sources == {b \in Bytes : Parsed[b] # None}
Import == (UNION {w.root : w \in Worlds}) \cup (UNION {Parsed[b].imports : b \in Sources})
Entry  == UNION {w.catalog : w \in Worlds}

(* A catalog entry; version is the rank compareSemver gives.  An identity  *)
(* has the fields provenance, release, asset, semantic, symbols, contract  *)
(* and toolchain.                                                          *)
IsEntry(e) ==
    /\ e.name \in Package /\ e.version \in Nat
    /\ e.digest \in Bytes /\ e.path \in Path

(* key is the rank of v2ImportKey, line the place of the declaration.      *)
IsImport(i) ==
    /\ i.pkg \in Package /\ i.constraint \in Constraint
    /\ i.key \in Nat /\ i.line \in Nat

(* What is kept of the loop over the candidates of an import.              *)
Probe == [imp : Import, untried : SUBSET Entry,
          reading : {None} \cup [entry : Entry, data : Bytes],
          refuted : {None} \cup Claim,
          unknown : {None} \cup Claim]

ASSUME WorldAssumption ==
    /\ Root \notin Package
    /\ None \notin Sha256
    /\ None \notin Bytes /\ None \notin [entry : Entry, bytes : Bytes]
    /\ None \notin [entry : Entry, data : Bytes] /\ None \notin Probe
    /\ None \notin {closedClaim, errorClaim} \cup Claim
    /\ Bytes \subseteq Nat
    /\ \A b \in Sources : /\ Parsed[b].name \in Package
                          /\ Parsed[b].exports \in Seq(Range(Parsed[b].exports))
    /\ \A e \in Entry : IsEntry(e)
    /\ \A i \in Import : IsImport(i)
    /\ Disk \in [Path -> Bytes \cup {None}]
    /\ Rewrites \subseteq Path \X (Bytes \cup {None})
    /\ MaxRewrites \in Nat

VARIABLES
    catalog,     \* the catalog entries (V2Resolver.Catalog)
    root,        \* the consumer's imports
    files,       \* what each path holds now
    rewrites,    \* how many rewrites have happened
    frames,      \* the walk: the root's frame, then one per open package
    probe,       \* the import whose candidates are being inspected, or None
    selected,    \* for each package its entry and source bytes, or None
    visited,     \* packages whose dependencies were walked
    edges,       \* links recorded by addEdge
    decisions,   \* claims against the graph, in the order they were found
    outcome      \* the resolution's claim, or None while it runs

world == <<catalog, root>>
disk  == <<files, rewrites>>
vars  == <<catalog, root, files, rewrites, frames, probe, selected, visited,
           edges, decisions, outcome>>

-------------------------------------------------------------------------------
(* Reading the state.                                                      *)

Selected == {p \in Package : selected[p] # None}
SourceOf(p) == Parsed[selected[p].bytes]
ImportsOf(p) == IF p = Root THEN root ELSE SourceOf(p).imports

Top  == frames[Len(frames)]

(* Slip: only the innermost package counts as open.                        *)
OpenInnermost == {frames[k].pkg : k \in {Len(frames)} \ {0, 1}}
Open == {frames[k].pkg : k \in 2 .. Len(frames)}
Running == outcome = None /\ frames # << >>

(* The order SliceStable puts the imports of one source in.                *)
Before(i, j) == i.key < j.key \/ (i.key = j.key /\ i.line < j.line)

(* i is the import the top frame turns to next.                            *)
Current(i) ==
    /\ Running /\ probe = None
    /\ i \in Top.todo
    /\ \A j \in Top.todo \ {i} : Before(i, j)

Pending == IF Running THEN Top.todo ELSE {}

-------------------------------------------------------------------------------
(* The predicates an import and a candidate must pass.                     *)

(* No field of the identity is empty, and the asset digest is a SHA-256.   *)
WellFormed(identity) ==
    /\ \A f \in DOMAIN identity : identity[f] # None
    /\ identity.asset \in Sha256

(* ValidateV2Root and validateImportIdentity: a root has imports, and each *)
(* carries a well-formed identity bound to the contract's release.  A root *)
(* of another kind, version, selection or merge strategy, or without a     *)
(* cell in the contract, ends as one without imports does: in an error.    *)
BoundFields == {"provenance", "release", "asset", "contract", "toolchain"}

validateImportIdentity(i) ==
    /\ WellFormed(i.identity) /\ i.digest \in {None} \cup Bytes
    /\ i.identity.semantic = i.semantic
    /\ \A f \in BoundFields : i.identity[f] = ContractId[f]

ValidateV2Root(imports) ==
    imports # {} /\ \A i \in imports : validateImportIdentity(i)

(* Why source does not offer what imp asks for, or None.                   *)
v2ImportMatches(source, imp) ==
    LET matches == {k \in DOMAIN source.exports :
                       /\ source.exports[k].semantic = imp.semantic
                       /\ source.exports[k].shape = imp.shape}
        export  == source.exports[CHOOSE k \in matches : TRUE]
    IN  IF imp.owner # None /\ source.owner # imp.owner
        THEN refutedClaim("ORIGIN_OWNERSHIP_CONFLICT", source.name)
        ELSE IF Cardinality(matches) > 1
        THEN unknownClaim("AMBIGUOUS_EXPORT", source.name)
        ELSE IF matches = {}
        THEN refutedClaim("SEMANTIC_EXPORT_INCOMPATIBLE", source.name)
        ELSE IF ~ (imp.capabilities \subseteq export.capabilities)
        THEN refutedClaim("CAPABILITY_EXPORT_INCOMPATIBLE", source.name)
        ELSE IF export.effects # imp.effects
        THEN refutedClaim("EFFECT_EXPORT_INCOMPATIBLE", source.name)
        ELSE None

(* The digest covers all exports in whatever order they are declared.      *)
exportedSymbolSetDigest(source) ==
    [x \in Range(source.exports) |->
        Cardinality({k \in DOMAIN source.exports : source.exports[k] = x})]

(* Slip: an import is held against the release and the asset only.         *)
identityMatchesImportLoosely(entry, imp) ==
    \A f \in {"release", "asset"} : entry.identity[f] = imp.identity[f]
identityMatchesImport(entry, imp) == entry.identity = imp.identity

Agrees(entry, source, field, value) ==
    /\ value # None
    /\ entry.identity[field] = value /\ source.identity[field] = value

(* Slip: only the bytes of the first read are held against the digest.     *)
DigestOfFirstRead(entry, data, bytes) == data = entry.digest
DigestBound(entry, data, bytes) == data = entry.digest /\ bytes = entry.digest

(* Why the candidate is refused, or None: data is what the first read      *)
(* returned, bytes what ParseSource found at the path afterwards.          *)
inspectCandidate(entry, imp, data, bytes) ==
    LET source == Parsed[bytes]
    IN  IF bytes = None \/ source = None
        THEN refutedClaim("PACKAGE_MANIFEST_INVALID", entry.name)
        ELSE IF None \in {entry.identity.release, source.identity.release}
        THEN unknownClaim("IMMUTABLE_RELEASE_UNAVAILABLE", entry.name)
        ELSE IF None \in {entry.identity.asset, source.identity.asset}
        THEN unknownClaim("ASSET_DIGEST_UNAVAILABLE", entry.name)
        ELSE IF ~ DigestBound(entry, data, bytes)
        THEN refutedClaim("PACKAGE_SOURCE_DIGEST_MISMATCH", entry.name)
        ELSE IF \/ entry.name # source.name
                \/ entry.identity # source.identity
                \/ entry.identity.semantic \notin {source.semantic} \ {None}
        THEN refutedClaim("FORGED_PACKAGE_IDENTITY", entry.name)
        ELSE IF ~ Agrees(entry, source, "toolchain", ContractId.toolchain)
        THEN unknownClaim("TOOLCHAIN_MISMATCH", entry.name)
        ELSE IF ~ Agrees(entry, source, "contract", ContractId.contract)
        THEN unknownClaim("CONTRACT_DIGEST_UNAVAILABLE", entry.name)
        ELSE IF \/ None \in {source.symbolSet, entry.identity.symbols}
                \/ source.symbolSet # entry.identity.symbols
                \/ exportedSymbolSetDigest(source) # entry.identity.symbols
        THEN refutedClaim("EXPORTED_SYMBOL_SET_DIGEST_MISMATCH", entry.name)
        ELSE IF ~ identityMatchesImport(entry, imp)
        THEN refutedClaim("IMPORT_IDENTITY_CONFLICT", entry.name)
        ELSE v2ImportMatches(source, imp)

(* The catalog entries an import may be linked to, and their order.        *)
candidates(imp) ==
    {e \in catalog : /\ e.name = imp.pkg
                     /\ e.version \in Admits[imp.constraint]
                     /\ imp.digest \in {None, e.digest}}

Lower(e, f) == e.version < f.version \/ (e.version = f.version /\ e.digest < f.digest)

(* The next candidate: entries that tie keep the catalog's order, which    *)
(* the model leaves open.                                                  *)

(* Slip: the highest version first.                                        *)
HighestCandidates == {e \in probe.untried : \A f \in probe.untried : ~ Lower(e, f)}
NextCandidates == {e \in probe.untried : \A f \in probe.untried : ~ Lower(f, e)}
-------------------------------------------------------------------------------
(* The walk.                                                               *)

Init ==
    /\ \E w \in Worlds : catalog = w.catalog /\ root = w.root
    /\ files = Disk /\ rewrites = 0
    /\ frames = << >> /\ probe = None
    /\ selected = [p \in Package |-> None]
    /\ visited = {} /\ edges = {} /\ decisions = << >>
    /\ outcome = None

(* Resolve: a valid root is walked, an invalid one is an error.            *)
Start ==
    /\ outcome = None /\ frames = << >>
    /\ IF ValidateV2Root(root)
       THEN frames' = << [pkg |-> Root, todo |-> root] >> /\ outcome' = None
       ELSE frames' = frames /\ outcome' = errorClaim
    /\ UNCHANGED <<world, disk, probe, selected, visited, edges, decisions>>

(* The top frame is done with import i.                                    *)
Handled(i) == [frames EXCEPT ![Len(frames)].todo = @ \ {i}]

Decide(i, claim) ==
    /\ frames' = Handled(i)
    /\ decisions' = Append(decisions, claim)

(* walkDependencies on the target of i, of which choice was selected.      *)
walkDependencies(i, choice) ==
    IF i.pkg \in visited
    THEN Handled(i)
    ELSE Append(Handled(i), [pkg |-> i.pkg, todo |-> Parsed[choice.bytes].imports])

(* addEdge; the key of an edge leaves nothing out that the others do not   *)
(* determine, so a set of edges holds each key once.                       *)
addEdgeFromRoot(i, choice) == \* slip: the root takes every edge
    edges \cup {[from |-> Root, to |-> i.pkg, constraint |-> i.constraint,
                 digest |-> choice.entry.digest]}
addEdge(i, choice) ==
    edges \cup {[from |-> Top.pkg, to |-> i.pkg, constraint |-> i.constraint,
                 digest |-> choice.entry.digest]}

(* resolveImport: the package is being walked.                             *)
RefuteCycle(i) ==
    /\ Current(i) /\ i.pkg \in Open
    /\ Decide(i, refutedClaim("DEPENDENCY_CYCLE", i.pkg))
    /\ UNCHANGED <<world, disk, probe, selected, visited, edges, outcome>>

Reuse(i) == Current(i) /\ i.pkg \notin Open /\ selected[i.pkg] # None
Pinned(i) == i.digest \in {None, selected[i.pkg].entry.digest}

RefuteDigestConflict(i) ==
    /\ Reuse(i) /\ ~ Pinned(i)
    /\ Decide(i, refutedClaim("PACKAGE_DIGEST_CONFLICT", i.pkg))
    /\ UNCHANGED <<world, disk, probe, selected, visited, edges, outcome>>

(* Slip: the import is passed over without its claim.                      *)
PassOverSelected(i) ==
    /\ Reuse(i) /\ Pinned(i)
    /\ v2ImportMatches(SourceOf(i.pkg), i) # None
    /\ frames' = Handled(i)
    /\ UNCHANGED <<world, disk, probe, selected, visited, edges, decisions, outcome>>

RefuseSelected(i) ==
    /\ Reuse(i) /\ Pinned(i)
    /\ v2ImportMatches(SourceOf(i.pkg), i) # None
    /\ Decide(i, v2ImportMatches(SourceOf(i.pkg), i))
    /\ UNCHANGED <<world, disk, probe, selected, visited, edges, outcome>>

LinkSelected(i) ==
    /\ Reuse(i) /\ Pinned(i)
    /\ v2ImportMatches(SourceOf(i.pkg), i) = None
    /\ edges' = addEdge(i, selected[i.pkg])
    /\ frames' = walkDependencies(i, selected[i.pkg])
    /\ UNCHANGED <<world, disk, probe, selected, visited, decisions, outcome>>

(* Slip: a package already selected is resolved anew.                      *)
FreshAgain(i) == Current(i) /\ i.pkg \notin Open
Fresh(i) == Current(i) /\ i.pkg \notin Open /\ selected[i.pkg] = None

RefuteNoCandidate(i) ==
    /\ Fresh(i) /\ candidates(i) = {}
    /\ Decide(i, refutedClaim("PACKAGE_DIGEST_NOT_FOUND", i.pkg))
    /\ UNCHANGED <<world, disk, probe, selected, visited, edges, outcome>>

(* The loop over the candidates of i starts; it keeps the first refutation *)
(* and the first unknown, which are all that is used of them.              *)
BeginProbe(i) ==
    /\ Fresh(i) /\ candidates(i) # {}
    /\ probe' = [imp |-> i, untried |-> candidates(i), reading |-> None,
                 refuted |-> None, unknown |-> None]
    /\ UNCHANGED <<world, disk, frames, selected, visited, edges, decisions, outcome>>

(* Slip: the loop stays at the refused candidate.                          *)
RefuseAndStay(e, claim) == [probe EXCEPT !.reading = None]

Refuse(e, claim) ==
    [probe EXCEPT
        !.untried = @ \ {e}, !.reading = None,
        !.refuted = IF @ = None /\ claim.state = Refuted THEN claim ELSE @,
        !.unknown = IF @ = None /\ claim.state = Unknown THEN claim ELSE @]

(* inspectCandidate, the first read.                                       *)
Inspecting == probe # None /\ probe.reading = None /\ probe.untried # {}

ReadUnavailable ==
    /\ Inspecting
    /\ \E e \in NextCandidates :
          /\ files[e.path] = None
          /\ probe' = Refuse(e, unknownClaim("PACKAGE_SOURCE_UNAVAILABLE", e.name))
    /\ UNCHANGED <<world, disk, frames, selected, visited, edges, decisions, outcome>>

ReadCandidate ==
    /\ Inspecting
    /\ \E e \in NextCandidates :
          /\ files[e.path] # None
          /\ probe' = [probe EXCEPT !.reading = [entry |-> e, data |-> files[e.path]]]
    /\ UNCHANGED <<world, disk, frames, selected, visited, edges, decisions, outcome>>

(* inspectCandidate, the second read and every check.                      *)
Reading == probe # None /\ probe.reading # None
Bytes2 == files[probe.reading.entry.path]
Objection == inspectCandidate(probe.reading.entry, probe.imp, probe.reading.data, Bytes2)

RefuseCandidate ==
    /\ Reading /\ Objection # None
    /\ probe' = Refuse(probe.reading.entry, Objection)
    /\ UNCHANGED <<world, disk, frames, selected, visited, edges, decisions, outcome>>

SelectCandidate ==
    /\ Reading /\ Objection = None
    /\ LET i == probe.imp
           choice == [entry |-> probe.reading.entry, bytes |-> Bytes2]
       IN  /\ selected' = [selected EXCEPT ![i.pkg] = choice]
           /\ edges' = addEdge(i, choice)
           /\ frames' = walkDependencies(i, choice)
    /\ probe' = None
    /\ UNCHANGED <<world, disk, visited, decisions, outcome>>

(* Slips: unknowns first; refutations forgotten.                           *)
UnknownFirst == IF probe.unknown # None THEN probe.unknown ELSE probe.refuted
UnknownOnly == probe.unknown

(* No candidate is left: the first refutation, else the first unknown.     *)
LeadingClaim ==
    IF probe.refuted # None THEN probe.refuted
    ELSE IF probe.unknown # None THEN probe.unknown
    ELSE unknownClaim("NO_VERIFIABLE_PINNED_MANIFEST", probe.imp.pkg)

ExhaustCandidates ==
    /\ probe # None /\ probe.reading = None /\ probe.untried = {}
    /\ Decide(probe.imp, LeadingClaim)
    /\ probe' = None
    /\ UNCHANGED <<world, disk, selected, visited, edges, outcome>>

(* walkDependencies returns: the top package is visited.                   *)
ReturnUnmarked == \* slip: the package is not marked visited
    /\ Running /\ probe = None /\ Len(frames) > 1 /\ Top.todo = {}
    /\ frames' = SubSeq(frames, 1, Len(frames) - 1)
    /\ UNCHANGED <<world, disk, probe, selected, visited, edges, decisions, outcome>>

Return ==
    /\ Running /\ probe = None /\ Len(frames) > 1 /\ Top.todo = {}
    /\ visited' = visited \cup {Top.pkg}
    /\ frames' = SubSeq(frames, 1, Len(frames) - 1)
    /\ UNCHANGED <<world, disk, probe, selected, edges, decisions, outcome>>

(* Resolve ends with the final claim.                                      *)
Finish ==
    /\ Running /\ probe = None /\ Len(frames) = 1 /\ Top.todo = {}
    /\ \E c \in {closedClaim} \cup {decisions[k] : k \in DOMAIN decisions} :
          finalClaim(ClaimOrder, decisions, c) /\ outcome' = c
    /\ UNCHANGED <<world, disk, frames, probe, selected, visited, edges, decisions>>

(* mergeV2Exports: one row for each package and export id, the first the   *)
(* source declares.                                                        *)
mergeOnePerPackage == \* slip: the export's id is left out of the key
    {[package |-> p, export |-> SourceOf(p).exports[1]] :
        p \in {q \in Selected : SourceOf(q).exports # << >>}}
mergeV2Exports ==
    UNION {{[package |-> p, export |-> SourceOf(p).exports[k]] :
               k \in {n \in DOMAIN SourceOf(p).exports :
                         \A m \in 1 .. n - 1 : SourceOf(p).exports[m].id # SourceOf(p).exports[n].id}}
           : p \in Selected}

(* VerifyV2Resolution, which GenerateV2Artifacts asks before it generates: *)
(* the manifest of every selected package is pinned and well formed.       *)
VerifyV2Resolution ==
    \A p \in Selected :
        /\ selected[p].bytes = selected[p].entry.digest
        /\ WellFormed(selected[p].entry.identity)
        /\ selected[p].entry.identity.toolchain = ContractId.toolchain

(* Somebody else rewrites or removes a file of the catalog meanwhile.      *)
Rewrite ==
    /\ Running /\ rewrites < MaxRewrites
    /\ \E w \in Rewrites :
          /\ \E e \in catalog : e.path = w[1]
          /\ files[w[1]] # w[2]
          /\ files' = [files EXCEPT ![w[1]] = w[2]]
    /\ rewrites' = rewrites + 1
    /\ UNCHANGED <<world, frames, probe, selected, visited, edges, decisions, outcome>>

Step ==
    \/ Start
    \/ \E i \in Pending :
          \/ RefuteCycle(i) \/ RefuteDigestConflict(i) \/ RefuseSelected(i)
          \/ LinkSelected(i) \/ RefuteNoCandidate(i) \/ BeginProbe(i)
    \/ ReadUnavailable \/ ReadCandidate \/ RefuseCandidate \/ SelectCandidate
    \/ ExhaustCandidates \/ Return \/ Finish

Next == Step \/ Rewrite

(* A resolution is one sequential run: it takes steps until it returns.    *)
Spec == Init /\ [][Next]_vars /\ WF_vars(Step)
-------------------------------------------------------------------------------
(* What holds of the walk.                                                 *)

Frame == [pkg : Package \cup {Root}, todo : SUBSET Import]

(* The type of every variable of v2ResolveState and of its world.          *)
TypeOK ==
    /\ catalog \subseteq Entry /\ root \subseteq Import
    /\ files \in [Path -> Bytes \cup {None}] /\ rewrites \in 0 .. MaxRewrites
    /\ frames \in Seq(Frame)
    /\ probe = None \/ probe \in Probe
    /\ selected \in [Package -> {None} \cup [entry : Entry, bytes : Sources]]
    /\ visited \subseteq Package
    /\ edges \subseteq [from : Package \cup {Root}, to : Package,
                        constraint : Constraint, digest : Bytes]
    /\ decisions \in Seq(Claim)
    /\ outcome \in {None, closedClaim, errorClaim} \cup Claim

(* A selected package is one the evidence supports: its entry is in the    *)
(* catalog, the bytes that were PARSED have the catalog's digest however   *)
(* the file changed between the two reads, the source bears the entry's    *)
(* name and whole identity, contract and toolchain are the contract's, and *)
(* the declared export digest is that of the exports (inspectCandidate).   *)
VerifiedSelection ==
    \A p \in Selected :
        LET entry == selected[p].entry
            source == SourceOf(p)
        IN  /\ entry \in catalog /\ entry.name = p
            /\ selected[p].bytes = entry.digest
            /\ source # None /\ source.name = p
            /\ source.identity = entry.identity
            /\ entry.identity.release # None /\ entry.identity.asset # None
            /\ entry.identity.toolchain = ContractId.toolchain
            /\ entry.identity.contract = ContractId.contract
            /\ entry.identity.symbols = exportedSymbolSetDigest(source)

(* The maps selected and visited and the stack of the recursion fit: a     *)
(* selected package is open or visited, never both, and none is open       *)
(* twice.  So the second walk in resolveImport, "if !s.visited", is never  *)
(* taken: a package's dependencies are walked once.                        *)
WalkedOnce ==
    /\ Selected = visited \cup Open
    /\ visited \cap Open = {}
    /\ \A j, k \in 1 .. Len(frames) : frames[j].pkg = frames[k].pkg => j = k

(* The recorded links never contain a cycle: any set of packages has one   *)
(* with no link into the set ("dependency cycles are REFUTED").            *)
Links == {<<e.from, e.to>> : e \in edges}
Flaws == {decisions[k].state : k \in DOMAIN decisions}
Verdict == IF outcome = None THEN None ELSE outcome.state

Graph == INSTANCE LinkGraph
            WITH linked <- Selected, links <- Links, flaws <- Flaws, verdict <- Verdict

Acyclic == Graph!IsAcyclic(Links)

(* The walk implements the promise of LinkGraph: links join a package to   *)
(* the graph one at a time, and the verdict is the worst flaw found.       *)
ImplementsLinkGraph == Graph!Spec

(* The link of import i, declared by p, to a package that offers what i    *)
(* asks for and has the digest i pins.                                     *)
Linked(p, i) ==
    /\ selected[i.pkg] # None
    /\ Pinned(i)
    /\ v2ImportMatches(SourceOf(i.pkg), i) = None
    /\ [from |-> p, to |-> i.pkg, constraint |-> i.constraint,
        digest |-> selected[i.pkg].entry.digest] \in edges

(* CLOSED leaves nothing out: every import of the root and of every        *)
(* selected package, at any depth, is linked.                              *)
ClosedIsComplete ==
    outcome = closedClaim =>
        \A p \in Selected \cup {Root} : \A i \in ImportsOf(p) : Linked(p, i)

(* Nothing is linked that nobody asked for: an edge comes from an import   *)
(* its source declares and carries the digest that was selected, and every *)
(* selected package has an edge into it.                                   *)
LinksAreDeclared ==
    /\ \A e \in edges :
          /\ e.from \in Selected \cup {Root} /\ e.to \in Selected
          /\ e.digest = selected[e.to].entry.digest
          /\ \E i \in ImportsOf(e.from) : i.pkg = e.to /\ i.constraint = e.constraint
    /\ \A p \in Selected : \E e \in edges : e.to = p

(* While no file changes: what a candidate is worth to an import.          *)
OnDisk(e, i) ==
    IF Disk[e.path] = None
    THEN unknownClaim("PACKAGE_SOURCE_UNAVAILABLE", e.name)
    ELSE inspectCandidate(e, i, Disk[e.path], Disk[e.path])

RefutedOnDisk(i) ==
    candidates(i) = {} \/
    \E e \in candidates(i) : OnDisk(e, i) # None /\ OnDisk(e, i).state = Refuted

(* "Lowest compatible": a package was selected for an import that admits   *)
(* it, and that import refuses every lower candidate.                      *)
LowestCompatible ==
    rewrites = 0 =>
        \A p \in Selected : \E x \in edges : \E i \in ImportsOf(x.from) :
            /\ x.to = p /\ i.pkg = p /\ selected[p].entry \in candidates(i)
            /\ OnDisk(selected[p].entry, i) = None
            /\ \A f \in candidates(i) : Lower(f, selected[p].entry) => OnDisk(f, i) # None

(* REFUTED prevails over UNKNOWN and both over CLOSED: when an import ends *)
(* with nothing selected for its package, the resolution is not CLOSED,    *)
(* and it is REFUTED if there was no candidate or one was refuted,         *)
(* whatever the others lacked.                                             *)
RefutationPrevails ==
    outcome \notin {None, errorClaim} /\ rewrites = 0 =>
        \A p \in Selected \cup {Root} : \A i \in ImportsOf(p) :
            selected[i.pkg] = None =>
                /\ outcome.state \in {Refuted, Unknown}
                /\ RefutedOnDisk(i) => outcome.state = Refuted

(* What was found stays found: a selected entry is never replaced, links   *)
(* and decisions are only added, a visited package stays visited.          *)
OnlyGrows ==
    [][ /\ \A p \in Selected : selected'[p] = selected[p]
        /\ visited \subseteq visited' /\ edges \subseteq edges'
        /\ \E n \in 0 .. Len(decisions') : decisions = SubSeq(decisions', 1, n) ]_vars

(* Nothing linked is lost in the merge of exports but by a clash of ids:   *)
(* what an import of a CLOSED resolution was linked for is a merged row    *)
(* itself, or an earlier export of the same id stands for it, whatever     *)
(* that one offers (mergeV2Exports keeps the first).                       *)
Offers(export, i) ==
    /\ export.semantic = i.semantic /\ export.shape = i.shape
    /\ i.capabilities \subseteq export.capabilities /\ export.effects = i.effects

MergeServesLinks ==
    outcome = closedClaim =>
        \A p \in Selected \cup {Root} : \A i \in ImportsOf(p) :
            LET exports == SourceOf(i.pkg).exports
            IN  \E k \in DOMAIN exports : \E row \in mergeV2Exports :
                    /\ Offers(exports[k], i)
                    /\ row.package = i.pkg /\ row.export.id = exports[k].id
                    /\ \/ row.export = exports[k]
                       \/ \E m \in 1 .. k - 1 : row.export = exports[m]

(* What was resolved can be generated, REFUTED and UNKNOWN graphs too:     *)
(* when the packages' own imports leave no identity field empty and give   *)
(* a SHA-256 as asset digest, whatever is selected passes                  *)
(* VerifyV2Resolution.                                                     *)
Generates ==
    /\ outcome \notin {None, errorClaim}
    /\ \A p \in Selected : \A i \in SourceOf(p).imports : WellFormed(i.identity)
    => VerifyV2Resolution

(* What the walk has still to do, the weightiest first: end, start, enter  *)
(* packages, leave them, turn to imports that wait, and for the one at     *)
(* hand begin the probe, try candidates, read one.                         *)
Walked == visited \cup {frames[k].pkg : k \in DOMAIN frames}
Waits  == UNION {{frames[k].pkg} \X frames[k].todo : k \in DOMAIN frames}

Remaining ==
    << Due(outcome = None), Due(frames = << >>),
       Package \ Walked, Package \ visited, Waits, Due(probe = None),
       IF probe = None THEN {} ELSE probe.untried,
       Due(probe # None /\ probe.reading = None) >>

(* The mutual recursion runs out: every step leaves less to be done, and   *)
(* what others do to the files adds nothing to it.                         *)
RunsOut ==
    [][/\ Step => LessRemains(Remaining', Remaining)
       /\ Rewrite => Remaining' = Remaining]_vars

(* Every resolution ends, cyclic imports and failing candidates included.  *)
Terminates == <>(outcome # None)

(* An import of the root, which ValidateV2Root bound to the contract's     *)
(* release, is linked to a package with that whole identity.               *)
RootImportsBound ==
    outcome = closedClaim =>
        \A i \in root : selected[i.pkg].entry.identity = i.identity

(* CLOSED means that all identity was observed, so a CLOSED resolution     *)
(* passes VerifyV2Resolution.  Only the root's imports are held to be      *)
(* well formed when they are read, those of packages are not.              *)
ClosedVerifies == outcome = closedClaim => VerifyV2Resolution
===============================================================================
