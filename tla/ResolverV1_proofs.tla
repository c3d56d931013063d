--------------------------- MODULE ResolverV1_proofs ---------------------------
(***************************************************************************)
(* What holds of the v1 resolver for every catalog, consumer, lockfile,    *)
(* file system and bound on rewrites.                                      *)
(***************************************************************************)
EXTENDS ResolverV1, SequenceTheorems, TLAPS

-------------------------------------------------------------------------------
(* The predicates on imports and candidates.                               *)

(* A claim the resolver raises is a claim, and never None.                 *)
LEMMA RaisedClaims ==
    ASSUME NEW p \in Package
    PROVE  \A r \in DOMAIN ClaimOrder :
              /\ refutedClaim(r, p) \in Claim \ {None}
              /\ unknownClaim(r, p) \in Claim \ {None}
<1> SUFFICES ASSUME NEW r \in DOMAIN ClaimOrder
             PROVE  /\ refutedClaim(r, p) \in Claim \ {None}
                    /\ unknownClaim(r, p) \in Claim \ {None}
  OBVIOUS
<1> QED
  BY WorldAssumption DEF refutedClaim, unknownClaim, Claim, ClaimSet, Refuted, Unknown

(* importMatches answers with a claim or None.                             *)
LEMMA MatchClaim ==
    ASSUME NEW source, source.name \in Package, NEW imp
    PROVE  importMatches(source, imp) \in {None} \cup Claim
<1>1. \A r \in DOMAIN ClaimOrder : refutedClaim(r, source.name) \in Claim
  BY RaisedClaims
<1>2. QED
  BY <1>1 DEF importMatches, ClaimOrder

(* What inspectCandidate answers, and what it has seen when it accepts.    *)
LEMMA InspectClaim ==
    ASSUME NEW entry \in Entry, NEW imp, NEW data, NEW bytes \in Bytes \cup {None}
    PROVE  inspectCandidate(entry, imp, data, bytes) \in {None} \cup Claim
<1>1. \A r \in DOMAIN ClaimOrder : /\ refutedClaim(r, entry.name) \in Claim
                                   /\ unknownClaim(r, entry.name) \in Claim
  BY WorldAssumption, RaisedClaims DEF IsEntry
<1>2. bytes # None /\ Parsed[bytes] # None
        => importMatches(Parsed[bytes], imp) \in {None} \cup Claim
  BY MatchClaim, WorldAssumption DEF Sources
<1>3. QED
  BY <1>1, <1>2 DEF inspectCandidate, ClaimOrder

LEMMA InspectAccepts ==
    ASSUME NEW entry \in Entry, NEW imp, NEW data, NEW bytes \in Bytes \cup {None},
           inspectCandidate(entry, imp, data, bytes) = None
    PROVE  /\ bytes \in Sources /\ Parsed[bytes] # None
           /\ None \notin {entry.digest, entry.proof}
           /\ data = entry.digest /\ Parsed[bytes].digest \in {None, entry.digest}
           /\ Parsed[bytes].proof = entry.proof
           /\ entry.owner \in {None, Parsed[bytes].owner}
           /\ importMatches(Parsed[bytes], imp) = None
<1>1. \A r \in DOMAIN ClaimOrder : /\ refutedClaim(r, entry.name) # None
                                   /\ unknownClaim(r, entry.name) # None
  BY WorldAssumption, RaisedClaims DEF IsEntry
<1>2. /\ bytes # None /\ Parsed[bytes] # None
      /\ None \notin {entry.digest, entry.proof, Parsed[bytes].proof}
      /\ DigestBound(entry, Parsed[bytes], data)
      /\ Parsed[bytes].proof = entry.proof
      /\ entry.owner \in {None, Parsed[bytes].owner}
      /\ importMatches(Parsed[bytes], imp) = None
  BY <1>1 DEF inspectCandidate, ClaimOrder
<1>3. QED
  BY <1>2 DEF Sources, DigestBound

-------------------------------------------------------------------------------
(* The inductive invariant.                                                *)

(* Unless somebody rewrites them, the files are what they were at first.   *)
DiskOK == rewrites = 0 => files = Disk

(* A probe inspects, for the import at hand and with every lock merged,    *)
(* candidates its lock allows of a package neither selected nor open.      *)
ProbeOK ==
    probe # None =>
        /\ Running /\ unapplied = {} /\ probe.imp \in Top.todo
        /\ probe.imp.pkg \notin Open /\ selected[probe.imp.pkg] = None
        /\ probe.untried \subseteq LockedCandidates(probe.imp)
        /\ probe.reading # None =>
              /\ probe.reading.entry \in LockedCandidates(probe.imp)
              /\ rewrites = 0 => probe.reading.data = Disk[probe.reading.entry.path]

(* Before Start nothing has happened; then the root's frame is lowest.     *)
StackOK ==
    /\ frames = << >> => /\ Selected = {} /\ visited = {} /\ edges = {} /\ unapplied = {}
                         /\ decisions = << >> /\ outcome \in {None, errorClaim}
    /\ frames # << >> => frames[1].pkg = Root
    /\ \A k \in 2 .. Len(frames) : frames[k].pkg \in Package

(* Links join selected packages; out of a visited package they lead to     *)
(* visited ones, out of an open one to visited ones or to the next frame.  *)
EdgesOK ==
    \A e \in edges :
        /\ e.from \in Selected \cup {Root} /\ e.to \in Selected
        /\ e.from \in visited => e.to \in visited
        /\ \A k \in 2 .. Len(frames) :
              e.from = frames[k].pkg =>
                  \/ e.to \in visited
                  \/ k < Len(frames) /\ e.to = frames[k + 1].pkg

(* Links lead up the stack, from each open package to those above it.      *)
Leads(L, p, q) ==
    \A S \in SUBSET Package :
        (p \in S /\ \A l \in L : l[1] \in S => l[2] \in S) => q \in S
PathOK ==
    \A k \in 2 .. Len(frames) : \A j \in 2 .. k : Leads(Links, frames[j].pkg, frames[k].pkg)

(* As long as there is no claim against the graph, every import of the     *)
(* root and of a selected package is linked, waits in a frame or would     *)
(* close a cycle.                                                          *)
Waiting(p, i) == \E k \in 1 .. Len(frames) : frames[k].pkg = p /\ i \in frames[k].todo
OnCycle(p, i) == i.pkg \in Selected /\ Leads(Links, i.pkg, p)
Accounted ==
    frames # << >> /\ decisions = << >> =>
        \A p \in Selected \cup {Root} : \A i \in ImportsOf(p) :
            Linked(p, i) \/ Waiting(p, i) \/ OnCycle(p, i)

(* Nothing is selected before every lock is merged, and nothing against a  *)
(* lock; the root's locks stand, and an entry of the lockfile that was     *)
(* merged agrees with them or left a refutation.                           *)
RefutedSoFar == \E k \in DOMAIN decisions : decisions[k].state = Refuted
LocksOK ==
    /\ unapplied # {} => Selected = {}
    /\ \A p \in Selected : lockRefs[p] \in {None, selected[p].entry.digest}
    /\ frames # << >> =>
          /\ \A p \in Package : root.locks[p] # None => lockRefs[p] = root.locks[p]
          /\ provided # None =>
                \A l \in provided.packages :
                    l \in unapplied \/ root.locks[l.name] \in {None, l.digest} \/ RefutedSoFar

(* A resolution ends with no import waiting, in the claim finalClaim makes *)
(* of the decisions.                                                       *)
EndOK ==
    outcome \notin {None, errorClaim} =>
        /\ finalClaim(ClaimOrder, decisions, outcome)
        /\ frames # << >> /\ Len(frames) = 1 /\ frames[1].todo = {} /\ unapplied = {}

IInv ==
    /\ TypeOK /\ DiskOK /\ ProbeOK /\ StackOK /\ WalkedOnce /\ SelectedOnEvidence
    /\ EdgesOK /\ Acyclic /\ PathOK /\ Accounted /\ LocksOK /\ EndOK

-------------------------------------------------------------------------------
(* The stack of frames.                                                    *)

(* Handling an import changes the to-do set of the top frame, no more.     *)
LEMMA HandledFrames ==
    ASSUME frames \in Seq(Frame), frames # << >>, NEW i
    PROVE  /\ Handled(i) \in Seq(Frame) /\ Len(Handled(i)) = Len(frames)
           /\ \A k \in 1 .. Len(frames) : Handled(i)[k].pkg = frames[k].pkg
           /\ \A k \in 1 .. Len(frames) : k # Len(frames) => Handled(i)[k] = frames[k]
           /\ Handled(i)[Len(frames)].todo = Top.todo \ {i}
<1>1. Len(frames) \in 1 .. Len(frames) /\ Len(frames) \in Nat \ {0}
  OBVIOUS
<1>2. Top \in Frame
  BY <1>1 DEF Top
<1>3. [Top EXCEPT !.todo = @ \ {i}] \in Frame
  BY <1>2 DEF Frame
<1>4. Handled(i) = [frames EXCEPT ![Len(frames)] = [Top EXCEPT !.todo = @ \ {i}]]
  BY DEF Handled, Top
<1> DEFINE top == [Top EXCEPT !.todo = @ \ {i}]
<1>5. top.pkg = Top.pkg /\ top.todo = Top.todo \ {i}
  BY <1>2 DEF Frame
<1>6. Handled(i) = [frames EXCEPT ![Len(frames)] = top] /\ top \in Frame
  BY <1>3, <1>4
<1> HIDE DEF top
<1>7. QED
  BY <1>1, <1>5, <1>6 DEF Top

(* Entering a package puts one frame on top of that.                       *)
LEMMA PushedFrames ==
    ASSUME frames \in Seq(Frame), frames # << >>, NEW i, NEW f \in Frame
    PROVE  /\ Append(Handled(i), f) \in Seq(Frame)
           /\ Len(Append(Handled(i), f)) = Len(frames) + 1
           /\ \A k \in 1 .. Len(frames) : Append(Handled(i), f)[k].pkg = frames[k].pkg
           /\ \A k \in 1 .. Len(frames) : k # Len(frames) => Append(Handled(i), f)[k] = frames[k]
           /\ Append(Handled(i), f)[Len(frames)].todo = Top.todo \ {i}
           /\ Append(Handled(i), f)[Len(frames) + 1] = f
<1>1. Len(frames) \in 1 .. Len(frames)
  OBVIOUS
<1>2. QED
  BY <1>1, HandledFrames

(* Returning takes the top frame off.                                      *)
LEMMA PoppedFrames ==
    ASSUME frames \in Seq(Frame), Len(frames) > 1
    PROVE  LET popped == SubSeq(frames, 1, Len(frames) - 1)
           IN  /\ popped \in Seq(Frame) /\ Len(popped) = Len(frames) - 1
               /\ \A k \in 1 .. Len(frames) - 1 : popped[k] = frames[k]
  OBVIOUS

-------------------------------------------------------------------------------
(* The steps of the walk, as far as the graph and the locks are concerned. *)

walk == <<locks, frames, selected, visited, edges, decisions, outcome>>

(* The import at hand would close a cycle.                                 *)
Skipped(i) ==
    /\ outcome = None /\ frames # << >> /\ i \in Top.todo /\ i.pkg \in Open
    /\ frames' = Handled(i)
    /\ UNCHANGED <<locks, selected, visited, edges, decisions, outcome>>

(* It meets an objection.                                                  *)
Objected(i, c) ==
    /\ outcome = None /\ frames # << >> /\ i \in Top.todo /\ c \in Claim
    /\ frames' = Handled(i) /\ decisions' = Append(decisions, c)
    /\ UNCHANGED <<locks, selected, visited, edges, outcome>>

(* It is linked to a package visited before.                               *)
Rejoined(i) ==
    /\ outcome = None /\ frames # << >> /\ i \in Top.todo /\ i.pkg \in visited
    /\ importMatches(SourceOf(i.pkg), i) = None
    /\ edges' = addEdge(i) /\ frames' = Handled(i)
    /\ UNCHANGED <<locks, selected, visited, decisions, outcome>>

(* It is linked to choice, which is selected, and whose imports follow.    *)
Joined(i, choice) ==
    /\ outcome = None /\ frames # << >> /\ i \in Top.todo /\ unapplied = {}
    /\ i.pkg \notin Open /\ selected[i.pkg] = None
    /\ choice.entry \in LockedCandidates(i)
    /\ \E data : /\ inspectCandidate(choice.entry, i, data, choice.bytes) = None
                 /\ rewrites = 0 => choice.bytes = data
    /\ selected' = [selected EXCEPT ![i.pkg] = choice]
    /\ edges' = addEdge(i)
    /\ frames' = Append(Handled(i), [pkg |-> i.pkg, todo |-> Parsed[choice.bytes].imports])
    /\ UNCHANGED <<locks, visited, decisions, outcome>>

Choice == [entry : Entry, bytes : Sources]

WalkStep ==
    \/ UNCHANGED walk
    \/ Start \/ ApplyLock
    \/ \E i \in Import : Skipped(i)
    \/ \E i \in Import : \E c \in Claim : Objected(i, c)
    \/ \E i \in Import : Rejoined(i)
    \/ \E i \in Import : \E choice \in Choice : Joined(i, choice)
    \/ Return \/ Finish \/ Replay

(* The import of a probe, and the candidate it reads, are of their kinds.  *)
LEMMA ProbeTypes ==
    ASSUME TypeOK, ProbeOK, probe # None
    PROVE  /\ probe \in Probe /\ probe.imp \in Import /\ probe.untried \subseteq Entry
           /\ probe.reading # None =>
                 probe.reading \in [entry : Entry, data : Bytes]
           /\ frames # << >> /\ outcome = None
  BY DEF TypeOK, ProbeOK, Probe, Running

(* The imports of the top frame are imports.                               *)
LEMMA PendingTypes ==
    ASSUME TypeOK, NEW i \in Pending
    PROVE  /\ i \in Import /\ i.pkg \in Package /\ i.constraint \in Constraint
           /\ frames # << >> /\ outcome = None /\ i \in Top.todo
<1>1. frames # << >> /\ outcome = None /\ i \in Top.todo
  BY DEF Pending, Running
<1>2. Top \in Frame
  BY <1>1 DEF TypeOK, Top
<1>3. QED
  BY <1>1, <1>2, WorldAssumption DEF Frame, IsImport

(* The bytes the second read finds.                                        *)
LEMMA Bytes2Type ==
    ASSUME TypeOK, NEW e \in Entry
    PROVE  files[e.path] \in Bytes \cup {None}
  BY WorldAssumption DEF TypeOK, IsEntry

(* Every step is one of them; none touches catalog and root, and what was  *)
(* rewritten stays rewritten.                                              *)
LEMMA WalkSteps ==
    ASSUME IInv, [Next]_vars
    PROVE  WalkStep /\ UNCHANGED world
<1> USE DEF IInv
<1>1. CASE UNCHANGED vars
  BY <1>1 DEF vars, WalkStep, walk, world, graph
<1>2. CASE Start \/ ApplyLock \/ Return \/ Finish \/ Replay
  BY <1>2 DEF Start, ApplyLock, Return, Finish, Replay, WalkStep, world
<1>3. ASSUME NEW i \in Pending, SkipOpen(i)
      PROVE  WalkStep /\ UNCHANGED world
  <2>1. Skipped(i)
    BY <1>3, PendingTypes DEF SkipOpen, Skipped, graph
  <2>2. QED
    BY <1>3, <2>1, PendingTypes DEF WalkStep, SkipOpen
<1>4. ASSUME NEW i \in Pending, RefuteNoVersion(i)
      PROVE  WalkStep /\ UNCHANGED world
  <2>1. Objected(i, refutedClaim("VERSION_CONSTRAINT_UNSATISFIED", i.pkg))
    BY <1>4, PendingTypes, RaisedClaims
    DEF RefuteNoVersion, Decide, Objected, ClaimOrder, graph
  <2>2. QED
    BY <1>4, <2>1, PendingTypes DEF WalkStep, RefuteNoVersion, Objected
<1>5. ASSUME NEW i \in Pending, RefuteLock(i)
      PROVE  WalkStep /\ UNCHANGED world
  <2>1. Objected(i, refutedClaim("LOCK_DIGEST_NOT_IN_CATALOG", i.pkg))
    BY <1>5, PendingTypes, RaisedClaims
    DEF RefuteLock, Decide, Objected, ClaimOrder, graph
  <2>2. QED
    BY <1>5, <2>1, PendingTypes DEF WalkStep, RefuteLock, Objected
<1>6. ASSUME NEW i \in Pending, RefuseSelected(i)
      PROVE  WalkStep /\ UNCHANGED world
  <2>1. selected[i.pkg].bytes \in Sources
    BY <1>6, PendingTypes DEF RefuseSelected, Reuse, TypeOK
  <2>2. importMatches(SourceOf(i.pkg), i) \in Claim
    BY <1>6, <2>1, MatchClaim, WorldAssumption DEF RefuseSelected, SourceOf
  <2>3. Objected(i, importMatches(SourceOf(i.pkg), i))
    BY <1>6, <2>2, PendingTypes DEF RefuseSelected, Decide, Objected, graph
  <2>4. QED
    BY <1>6, <2>3, PendingTypes DEF WalkStep, RefuseSelected, Objected
<1>7. ASSUME NEW i \in Pending, LinkSelected(i)
      PROVE  WalkStep /\ UNCHANGED world
  <2>1. i.pkg \in visited
    BY <1>7, PendingTypes DEF LinkSelected, Reuse, Selected, WalkedOnce
  <2>2. Rejoined(i)
    BY <1>7, <2>1, PendingTypes DEF LinkSelected, Reuse, Rejoined, walkDependencies
  <2>3. QED
    BY <1>7, <2>2, PendingTypes DEF WalkStep, LinkSelected
<1>8. CASE \E i \in Pending : BeginProbe(i)
  BY <1>8 DEF BeginProbe, WalkStep, walk, disk, world, graph
<1>9. CASE ReadUnavailable \/ ReadCandidate \/ RefuseCandidate
  BY <1>9 DEF ReadUnavailable, ReadCandidate, RefuseCandidate, WalkStep, walk, world, graph
<1>10. CASE Rewrite
  BY <1>10 DEF Rewrite, WalkStep, walk, world, graph
<1>11. CASE ExhaustCandidates
  <2>1. probe # None
    BY <1>11 DEF ExhaustCandidates
  <2>2. LeadingClaim \in Claim
    <3>1. probe.imp.pkg \in Package
      BY <2>1, ProbeTypes, WorldAssumption DEF IsImport
    <3>2. unknownClaim("NO_VERIFIABLE_CANDIDATE", probe.imp.pkg) \in Claim
      BY <3>1, RaisedClaims DEF ClaimOrder
    <3>3. QED
      BY <2>1, <3>2, ProbeTypes DEF Probe, LeadingClaim
  <2>3. Objected(probe.imp, LeadingClaim)
    BY <1>11, <2>1, <2>2, ProbeTypes DEF ExhaustCandidates, Decide, Objected, ProbeOK, graph
  <2>4. QED
    BY <1>11, <2>1, <2>2, <2>3, ProbeTypes DEF WalkStep, ExhaustCandidates
<1>12. CASE SelectCandidate
  <2> DEFINE choice == [entry |-> probe.reading.entry, bytes |-> Bytes2]
  <2>1. probe # None /\ probe.reading # None
    BY <1>12 DEF SelectCandidate, Reading
  <2>2. probe.reading.entry \in Entry /\ Bytes2 \in Bytes \cup {None}
    BY <2>1, ProbeTypes, Bytes2Type DEF Bytes2
  <2>3. Bytes2 \in Sources /\ choice \in Choice
    BY <1>12, <2>2, InspectAccepts DEF SelectCandidate, Objection, Choice
  <2>4. probe.imp.pkg \notin visited
    BY <2>1, ProbeTypes, WorldAssumption DEF ProbeOK, WalkedOnce, Selected, IsImport
  <2>5. rewrites = 0 => choice.bytes = probe.reading.data
    BY <2>1 DEF ProbeOK, DiskOK, Bytes2
  <2>6. Joined(probe.imp, choice)
    BY <1>12, <2>1, <2>4, <2>5, ProbeTypes
    DEF SelectCandidate, Objection, ProbeOK, Joined, walkDependencies
  <2>7. QED
    BY <1>12, <2>1, <2>3, <2>6, ProbeTypes DEF WalkStep, SelectCandidate
<1>13. QED
  BY <1>1, <1>2, <1>3, <1>4, <1>5, <1>6, <1>7, <1>8, <1>9, <1>10, <1>11, <1>12
  DEF Next, Step

-------------------------------------------------------------------------------
(* Types.                                                                  *)

LEMMA TopTypes ==
    ASSUME TypeOK, frames # << >>
    PROVE  /\ Top \in Frame /\ Top.pkg \in Package \cup {Root} /\ Top.todo \subseteq Import
           /\ Len(frames) \in 1 .. Len(frames)
<1>1. frames \in Seq(Frame) /\ Len(frames) \in 1 .. Len(frames)
  BY DEF TypeOK
<1>2. Top \in Frame
  BY <1>1 DEF Top
<1>3. QED
  BY <1>1, <1>2 DEF Frame

LEMMA ImportTypes ==
    ASSUME NEW i \in Import
    PROVE  i.pkg \in Package /\ i.constraint \in Constraint
  BY WorldAssumption DEF IsImport

(* The imports sources and consumers declare are imports.                  *)
LEMMA DeclaredTypes ==
    /\ \A b \in Sources : Parsed[b].imports \subseteq Import
    /\ \A R \in Roots : R.imports \subseteq Import
<1>1. ASSUME NEW b \in Sources, NEW j \in Parsed[b].imports
      PROVE  j \in Import
  <2>1. Parsed[b].imports \in {Parsed[d].imports : d \in Sources}
    OBVIOUS
  <2>2. j \in UNION {Parsed[d].imports : d \in Sources}
    BY <1>1, <2>1
  <2>3. QED
    BY <2>2 DEF Import
<1>2. ASSUME NEW R \in Roots, NEW j \in R.imports
      PROVE  j \in Import
  <2>1. R.imports \in {Q.imports : Q \in Roots}
    OBVIOUS
  <2>2. j \in UNION {Q.imports : Q \in Roots}
    BY <1>2, <2>1
  <2>3. QED
    BY <2>2 DEF Import
<1>3. QED
  BY <1>1, <1>2

(* The frame walkDependencies opens.                                       *)
LEMMA OpenedFrame ==
    ASSUME NEW i \in Import, NEW choice \in Choice
    PROVE  [pkg |-> i.pkg, todo |-> Parsed[choice.bytes].imports] \in Frame
<1>1. choice.bytes \in Sources
  BY DEF Choice
<1>2. Parsed[choice.bytes].imports \subseteq Import
  BY <1>1, DeclaredTypes
<1>3. QED
  BY <1>2, ImportTypes DEF Frame

LEMMA AddedEdge ==
    ASSUME TypeOK, frames # << >>, NEW i \in Import
    PROVE  addEdge(i) \subseteq Edge
<1>1. EdgeOf(Top.pkg, i) \in Edge
  BY TopTypes, ImportTypes DEF EdgeOf, Edge
<1>2. QED
  BY <1>1 DEF addEdge, TypeOK

(* The lockfile a resolution generates is one.                             *)
LEMMA GeneratedLockType ==
    ASSUME TypeOK, SelectedOnEvidence
    PROVE  GeneratedLock \in Lockfile
<1>1. ASSUME NEW p \in Selected
      PROVE  [name |-> p, digest |-> selected[p].entry.digest] \in LockEntry
  <2>1. p \in Package /\ selected[p].entry \in Entry /\ selected[p].entry.digest # None
    BY DEF Selected, SelectedOnEvidence, TypeOK
  <2>2. selected[p].entry.digest \in Bytes
    BY <2>1, WorldAssumption DEF IsEntry
  <2>3. QED
    BY <2>1, <2>2 DEF LockEntry
<1>2. {[name |-> p, digest |-> selected[p].entry.digest] : p \in Selected} \subseteq LockEntry
  BY <1>1
<1>3. QED
  BY <1>2 DEF GeneratedLock, Lockfile

(* Merging a lock keeps the types.                                         *)
LEMMA MergedTypes ==
    ASSUME TypeOK, NEW l \in LockEntry, MergeLock(l)
    PROVE  /\ lockRefs' \in [Package -> Bytes \cup {None}]
           /\ decisions' \in Seq(Claim)
           /\ decisions' = decisions
              \/ decisions' = Append(decisions, refutedClaim("LOCK_DIGEST_CONFLICT", l.name))
           /\ refutedClaim("LOCK_DIGEST_CONFLICT", l.name) \in Claim
<1>1. l.name \in Package /\ l.digest \in Bytes
  BY DEF LockEntry
<1>2. refutedClaim("LOCK_DIGEST_CONFLICT", l.name) \in Claim
  BY <1>1, RaisedClaims DEF ClaimOrder
<1>3. CASE lockRefs[l.name] \notin {None, l.digest}
  <2>1. /\ decisions' = Append(decisions, refutedClaim("LOCK_DIGEST_CONFLICT", l.name))
        /\ lockRefs' = lockRefs
    BY <1>3 DEF MergeLock
  <2>2. decisions' \in Seq(Claim)
    BY <1>2, <2>1 DEF TypeOK
  <2>3. QED
    BY <1>2, <2>1, <2>2 DEF TypeOK
<1>4. CASE lockRefs[l.name] \in {None, l.digest}
  BY <1>1, <1>2, <1>4 DEF MergeLock, TypeOK
<1>5. QED
  BY <1>3, <1>4

LEMMA WalkTyped ==
    ASSUME IInv, WalkStep, UNCHANGED world
    PROVE  /\ catalog' \in Catalogs /\ root' \in Roots
           /\ provided' = None \/ provided' \in Lockfile
           /\ unapplied' \subseteq LockEntry
           /\ lockRefs' \in [Package -> Bytes \cup {None}]
           /\ frames' \in Seq(Frame)
           /\ selected' \in [Package -> {None} \cup [entry : Entry, bytes : Sources]]
           /\ visited' \subseteq Package
           /\ edges' \subseteq Edge
           /\ decisions' \in Seq(Claim)
           /\ outcome' \in {None, closedClaim, errorClaim} \cup Claim
<1>1. TypeOK
  BY DEF IInv
<1>2. catalog' \in Catalogs /\ root' \in Roots
  BY <1>1 DEF world, TypeOK
<1>3. CASE UNCHANGED walk
  BY <1>1, <1>2, <1>3 DEF walk, locks, TypeOK
<1>4. CASE Start
  <2>1. [pkg |-> Root, todo |-> root.imports] \in Frame
    BY <1>1, DeclaredTypes DEF TypeOK, Frame
  <2>2. << [pkg |-> Root, todo |-> root.imports] >> \in Seq(Frame) /\ frames \in Seq(Frame)
    BY <1>1, <2>1 DEF TypeOK
  <2>3. frames' \in Seq(Frame) /\ outcome' \in {None, errorClaim}
    BY <1>4, <2>2 DEF Start
  <2>4. unapplied' \subseteq LockEntry /\ lockRefs' \in [Package -> Bytes \cup {None}]
    BY <1>1, <1>4, WorldAssumption DEF Start, TypeOK, Lockfile
  <2>5. QED
    BY <1>1, <1>2, <1>4, <2>3, <2>4 DEF Start, TypeOK, graph
<1>5. CASE ApplyLock
  <2>1. PICK l \in unapplied : MergeLock(l) /\ unapplied' = unapplied \ {l}
    BY <1>5 DEF ApplyLock
  <2>2. l \in LockEntry
    BY <1>1, <2>1 DEF TypeOK
  <2>3. /\ lockRefs' \in [Package -> Bytes \cup {None}] /\ decisions' \in Seq(Claim)
    BY <1>1, <2>1, <2>2, MergedTypes
  <2>4. QED
    BY <1>1, <1>2, <1>5, <2>1, <2>3 DEF ApplyLock, TypeOK, graph
<1>6. ASSUME NEW i \in Import, NEW c \in Claim, Objected(i, c)
      PROVE  frames' \in Seq(Frame) /\ decisions' \in Seq(Claim)
  BY <1>1, <1>6, HandledFrames DEF Objected, TypeOK
<1>7. CASE \E i \in Import : \E c \in Claim : Objected(i, c)
  BY <1>1, <1>2, <1>6, <1>7 DEF Objected, TypeOK, locks
<1>8. CASE \E i \in Import : Skipped(i)
  BY <1>1, <1>2, <1>8, HandledFrames DEF Skipped, TypeOK, locks
<1>9. ASSUME NEW i \in Import, Rejoined(i)
      PROVE  frames' \in Seq(Frame) /\ edges' \subseteq Edge
  BY <1>1, <1>9, HandledFrames, AddedEdge DEF Rejoined, TypeOK
<1>10. CASE \E i \in Import : Rejoined(i)
  BY <1>1, <1>2, <1>9, <1>10 DEF Rejoined, TypeOK, locks
<1>11. ASSUME NEW i \in Import, NEW choice \in Choice, Joined(i, choice)
      PROVE  /\ frames' \in Seq(Frame) /\ edges' \subseteq Edge
             /\ selected' \in [Package -> {None} \cup [entry : Entry, bytes : Sources]]
  <2>1. frames' \in Seq(Frame)
    BY <1>1, <1>11, OpenedFrame, PushedFrames DEF Joined, TypeOK
  <2>2. edges' \subseteq Edge
    BY <1>1, <1>11, AddedEdge DEF Joined
  <2>3. selected' \in [Package -> {None} \cup [entry : Entry, bytes : Sources]]
    BY <1>1, <1>11, ImportTypes DEF Joined, Choice, TypeOK
  <2>4. QED
    BY <2>1, <2>2, <2>3
<1>12. CASE \E i \in Import : \E choice \in Choice : Joined(i, choice)
  <2>1. PICK i \in Import, choice \in Choice : Joined(i, choice)
    BY <1>12
  <2>2. /\ frames' \in Seq(Frame) /\ edges' \subseteq Edge
        /\ selected' \in [Package -> {None} \cup [entry : Entry, bytes : Sources]]
    BY <1>11, <2>1
  <2>3. UNCHANGED <<locks, visited, decisions, outcome>>
    BY <2>1 DEF Joined
  <2>4. QED
    BY <1>1, <1>2, <2>2, <2>3 DEF TypeOK, locks
<1>13. CASE Return
  <2>1. frames \in Seq(Frame) /\ Len(frames) > 1 /\ frames # << >>
    BY <1>1, <1>13 DEF Return, TypeOK
  <2>2. frames' \in Seq(Frame)
    BY <1>13, <2>1, PoppedFrames DEF Return
  <2>3. Top.pkg \in Package
    BY <2>1 DEF IInv, StackOK, Top
  <2>4. QED
    BY <1>1, <1>2, <1>13, <2>2, <2>3 DEF Return, TypeOK, locks
<1>14. CASE Finish
  BY <1>1, <1>2, <1>14 DEF Finish, TypeOK, locks, graph
<1>15. CASE Replay
  <2>1. provided' \in Lockfile
    BY <1>1, <1>15, GeneratedLockType DEF Replay, IInv
  <2>2. QED
    BY <1>1, <1>2, <1>15, <2>1 DEF Replay, TypeOK
<1>16. QED
  BY <1>3, <1>4, <1>5, <1>7, <1>8, <1>10, <1>12, <1>13, <1>14, <1>15 DEF WalkStep

LEMMA DiskTyped ==
    ASSUME IInv, [Next]_vars
    PROVE  /\ files' \in [Path -> Bytes \cup {None}] /\ rewrites' \in 0 .. MaxRewrites
           /\ rewrites' = 0 => rewrites = 0 /\ files' = files
<1>1. files \in [Path -> Bytes \cup {None}] /\ rewrites \in 0 .. MaxRewrites
  BY DEF IInv, TypeOK
<1>2. CASE Rewrite
  BY <1>1, <1>2, WorldAssumption DEF Rewrite
<1>3. CASE ~ Rewrite
  <2>1. UNCHANGED disk
    BY <1>3 DEF Next, Step, vars, disk, Start, ApplyLock, SkipOpen, RefuseSelected,
       LinkSelected, RefuteNoVersion, RefuteLock, BeginProbe, ReadUnavailable,
       ReadCandidate, RefuseCandidate, SelectCandidate, ExhaustCandidates, Return,
       Finish, Replay
  <2>2. QED
    BY <1>1, <2>1 DEF disk
<1>4. QED
  BY <1>2, <1>3

(* What is kept when a finished resolution is replayed.                    *)
LEMMA FirstTyped ==
    ASSUME IInv, [Next]_vars
    PROVE  first' = None \/ first' \in Finished
<1>1. TypeOK
  BY DEF IInv
<1>2. CASE Replay
  <2>1. outcome \in {closedClaim} \cup Claim /\ provided \in {None} \cup Lockfile
    BY <1>1, <1>2 DEF Replay, TypeOK
  <2>2. QED
    BY <1>1, <1>2, <2>1 DEF Replay, TypeOK, Finished
<1>3. CASE ~ Replay
  <2>1. first' = first
    BY <1>3 DEF Next, Step, vars, Start, ApplyLock, SkipOpen, RefuseSelected,
       LinkSelected, RefuteNoVersion, RefuteLock, BeginProbe, ReadUnavailable,
       ReadCandidate, RefuseCandidate, SelectCandidate, ExhaustCandidates, Return,
       Finish, Rewrite
  <2>2. QED
    BY <1>1, <2>1 DEF TypeOK
<1>4. QED
  BY <1>2, <1>3

-------------------------------------------------------------------------------
(* The probe.                                                              *)

(* A refused candidate leaves the probe, and nothing enters it.            *)
LEMMA RefusedProbe ==
    ASSUME probe \in Probe, NEW e \in Entry, NEW c \in Claim
    PROVE  /\ Refuse(e, c) \in Probe
           /\ Refuse(e, c).imp = probe.imp /\ Refuse(e, c).reading = None
           /\ Refuse(e, c).untried = probe.untried \ {e}
<1>1. /\ (IF probe.refuted = None /\ c.state = Refuted THEN c ELSE probe.refuted) \in {None} \cup Claim
      /\ (IF probe.unknown = None /\ c.state = Unknown THEN c ELSE probe.unknown) \in {None} \cup Claim
      /\ probe.imp \in Import /\ probe.untried \ {e} \in SUBSET Entry
  BY DEF Probe
<1>2. QED
  BY <1>1 DEF Refuse, Probe

(* As long as the walk rests, what holds of the probe goes on to hold.     *)
resting == <<world, locks, frames, selected, outcome>>

LEMMA ProbeRests ==
    ASSUME UNCHANGED resting
    PROVE  /\ Running' = Running /\ Top' = Top /\ Open' = Open
           /\ \A i : LockedCandidates(i)' = LockedCandidates(i)
  BY DEF resting, world, locks, Running, Top, Open, LockedCandidates, candidates

LEMMA ProbeSteps ==
    ASSUME IInv, [Next]_vars
    PROVE  (probe' = None \/ probe' \in Probe) /\ ProbeOK'
<1>1. TypeOK /\ ProbeOK /\ (probe = None \/ probe \in Probe)
  BY DEF IInv, TypeOK
<1>2. rewrites' = 0 => rewrites = 0
  BY DiskTyped
<1>3. CASE probe' = None
  BY <1>3 DEF ProbeOK
<1>4. CASE UNCHANGED vars \/ Rewrite
  <2>1. UNCHANGED resting /\ probe' = probe
    BY <1>4 DEF vars, resting, Rewrite, graph
  <2>2. QED
    BY <1>1, <1>2, <2>1, ProbeRests DEF ProbeOK, resting, locks
<1>5. CASE Start \/ ApplyLock
  <2>1. probe' = probe /\ (frames = << >> \/ unapplied # {})
    BY <1>5 DEF Start, ApplyLock
  <2>2. probe = None
    BY <1>1, <2>1 DEF ProbeOK, Running
  <2>3. QED
    BY <1>3, <2>1, <2>2
<1>6. ASSUME NEW i \in Pending, BeginProbe(i)
      PROVE  probe' \in Probe /\ ProbeOK'
  <2>1. UNCHANGED resting
    BY <1>6 DEF BeginProbe, resting, graph
  <2>2. /\ Running /\ unapplied = {} /\ i \in Top.todo /\ i \in Import
        /\ i.pkg \notin Open /\ selected[i.pkg] = None
    BY <1>1, <1>6, PendingTypes DEF BeginProbe, Fresh, Current
  <2>3. probe' = [imp |-> i, untried |-> LockedCandidates(i), reading |-> None,
                  refuted |-> None, unknown |-> None]
    BY <1>6 DEF BeginProbe
  <2>4. LockedCandidates(i) \subseteq Entry
    BY <1>1 DEF LockedCandidates, candidates, TypeOK, Entry
  <2>5. /\ probe' \in Probe /\ probe'.imp = i /\ probe'.reading = None
        /\ probe'.untried = LockedCandidates(i)
    BY <2>2, <2>3, <2>4 DEF Probe
  <2>6. QED
    BY <2>1, <2>2, <2>5, ProbeRests DEF ProbeOK, resting, locks
<1>7. ASSUME NEW e \in probe.untried, NEW c \in Claim, probe \in Probe, probe # None,
             probe' = Refuse(e, c), UNCHANGED resting
      PROVE  probe' \in Probe /\ ProbeOK'
  <2>1. e \in Entry
    BY <1>7 DEF Probe
  <2>2. /\ probe' \in Probe /\ probe'.imp = probe.imp /\ probe'.reading = None
        /\ probe'.untried \subseteq probe.untried
    BY <1>7, <2>1, RefusedProbe
  <2>3. QED
    BY <1>1, <1>7, <2>2, ProbeRests DEF ProbeOK, resting, locks
<1>8. ASSUME ReadUnavailable
      PROVE  probe' \in Probe /\ ProbeOK'
  <2>1. probe \in Probe /\ probe # None
    BY <1>1, <1>8 DEF ReadUnavailable, Inspecting
  <2>2. PICK e \in NextCandidates :
            probe' = Refuse(e, unknownClaim("PACKAGE_SOURCE_UNAVAILABLE", e.name))
    BY <1>8 DEF ReadUnavailable
  <2>3. e \in probe.untried /\ e.name \in Package
    BY <2>1, <2>2, WorldAssumption DEF NextCandidates, Probe, IsEntry
  <2>4. unknownClaim("PACKAGE_SOURCE_UNAVAILABLE", e.name) \in Claim
    BY <2>3, RaisedClaims DEF ClaimOrder
  <2>5. UNCHANGED resting
    BY <1>8 DEF ReadUnavailable, resting, graph
  <2>6. QED
    BY <1>7, <2>1, <2>2, <2>3, <2>4, <2>5
<1>9. ASSUME ReadCandidate
      PROVE  probe' \in Probe /\ ProbeOK'
  <2>1. probe \in Probe /\ probe # None
    BY <1>1, <1>9 DEF ReadCandidate, Inspecting
  <2>2. PICK e \in NextCandidates :
            /\ files[e.path] # None
            /\ probe' = [probe EXCEPT !.reading = [entry |-> e, data |-> files[e.path]]]
    BY <1>9 DEF ReadCandidate
  <2>3. e \in probe.untried /\ e \in Entry
    BY <2>1, <2>2 DEF NextCandidates, Probe
  <2> DEFINE read == [entry |-> e, data |-> files[e.path]]
  <2>4. read \in [entry : Entry, data : Bytes] /\ read.entry = e
    BY <1>1, <2>2, <2>3, Bytes2Type
  <2>5. rewrites = 0 => read.data = Disk[read.entry.path]
    BY <2>4 DEF IInv, DiskOK
  <2>6. probe' = [probe EXCEPT !.reading = read]
    BY <2>2
  <2> HIDE DEF read
  <2>7. /\ probe' \in Probe /\ probe'.imp = probe.imp /\ probe'.reading = read
        /\ probe'.untried = probe.untried
    BY <2>1, <2>4, <2>6 DEF Probe
  <2>8. UNCHANGED resting
    BY <1>9 DEF ReadCandidate, resting, graph
  <2>9. QED
    BY <1>1, <1>2, <2>1, <2>3, <2>4, <2>5, <2>7, <2>8, ProbeRests
    DEF ProbeOK, resting, locks
<1>10. ASSUME RefuseCandidate
       PROVE  probe' \in Probe /\ ProbeOK'
  <2>1. probe \in Probe /\ probe # None /\ probe.reading # None
    BY <1>1, <1>10 DEF RefuseCandidate, Reading
  <2> DEFINE e == probe.reading.entry
  <2>2. e \in Entry /\ Bytes2 \in Bytes \cup {None}
    BY <1>1, <2>1, ProbeTypes, Bytes2Type DEF Bytes2
  <2>3. Objection \in Claim
    BY <1>10, <2>2, InspectClaim DEF RefuseCandidate, Objection
  <2>4. probe' = Refuse(e, Objection)
    BY <1>10 DEF RefuseCandidate
  <2>5. /\ probe' \in Probe /\ probe'.imp = probe.imp /\ probe'.reading = None
        /\ probe'.untried \subseteq probe.untried
    BY <2>1, <2>2, <2>3, <2>4, RefusedProbe
  <2>6. UNCHANGED resting
    BY <1>10 DEF RefuseCandidate, resting, graph
  <2>7. QED
    BY <1>1, <2>1, <2>5, <2>6, ProbeRests DEF ProbeOK, resting, locks
<1>11. CASE Return \/ Finish \/ SelectCandidate \/ ExhaustCandidates \/ Replay
  BY <1>3, <1>11 DEF Return, Finish, SelectCandidate, ExhaustCandidates, Replay
<1>12. CASE \E i \in Pending : \/ SkipOpen(i) \/ RefuseSelected(i) \/ LinkSelected(i)
                               \/ RefuteNoVersion(i) \/ RefuteLock(i)
  BY <1>3, <1>12 DEF SkipOpen, RefuseSelected, LinkSelected, RefuteNoVersion, RefuteLock,
     Reuse, Fresh, Current
<1>13. QED
  BY <1>4, <1>5, <1>6, <1>8, <1>9, <1>10, <1>11, <1>12 DEF Next, Step

LEMMA TypeStep ==
    ASSUME IInv, [Next]_vars
    PROVE  TypeOK' /\ DiskOK'
<1>1. TypeOK'
  BY WalkSteps, WalkTyped, DiskTyped, ProbeSteps, FirstTyped DEF TypeOK
<1>2. DiskOK'
  BY DiskTyped DEF IInv, DiskOK
<1>3. QED
  BY <1>1, <1>2

-------------------------------------------------------------------------------
(* The stack and the maps.                                                 *)

(* What the open packages become.                                          *)
LEMMA OpenHandled ==
    ASSUME frames \in Seq(Frame), frames # << >>, NEW i, frames' = Handled(i)
    PROVE  Open' = Open /\ frames' # << >>
  BY HandledFrames DEF Open

LEMMA OpenPushed ==
    ASSUME frames \in Seq(Frame), frames # << >>, NEW i, NEW f \in Frame,
           frames' = Append(Handled(i), f)
    PROVE  Open' = Open \cup {f.pkg} /\ frames' # << >>
<1>a. Len(Append(Handled(i), f)) = Len(frames) + 1
  BY PushedFrames
<1>b. Append(Handled(i), f)[Len(frames) + 1] = f
  BY PushedFrames
<1>c. \A k \in 1 .. Len(frames) : Append(Handled(i), f)[k].pkg = frames[k].pkg
  BY PushedFrames
<1>1. /\ Len(frames') = Len(frames) + 1 /\ frames'[Len(frames) + 1] = f
      /\ \A k \in 1 .. Len(frames) : frames'[k].pkg = frames[k].pkg
  BY <1>a, <1>b, <1>c
<1>0. Len(frames) \in Nat \ {0}
  OBVIOUS
<1>2. Open' \subseteq Open \cup {f.pkg}
  BY <1>0, <1>1 DEF Open
<1>3. Open \subseteq Open'
  BY <1>0, <1>1 DEF Open
<1>4. f.pkg \in Open'
  BY <1>0, <1>1 DEF Open
<1>5. QED
  BY <1>0, <1>1, <1>2, <1>3, <1>4

LEMMA OpenPopped ==
    ASSUME frames \in Seq(Frame), Len(frames) > 1, WalkedOnce,
           frames' = SubSeq(frames, 1, Len(frames) - 1)
    PROVE  Open' = Open \ {Top.pkg} /\ Top.pkg \in Open /\ frames' # << >>
<1>1. /\ Len(frames') = Len(frames) - 1 /\ Len(frames) \in Nat
      /\ \A k \in 1 .. Len(frames) - 1 : frames'[k] = frames[k]
      /\ frames' \in Seq(Frame)
  BY PoppedFrames
<1>2. Open' \subseteq Open \ {Top.pkg}
  <2> SUFFICES ASSUME NEW k \in 2 .. Len(frames) - 1
               PROVE  frames[k].pkg \in Open \ {Top.pkg}
    BY <1>1 DEF Open
  <2>1. k \in 1 .. Len(frames) /\ Len(frames) \in 1 .. Len(frames) /\ k # Len(frames)
    BY <1>1
  <2>2. frames[k].pkg # Top.pkg
    BY <2>1 DEF Top, WalkedOnce
  <2>3. QED
    BY <1>1, <2>2 DEF Open
<1>3. Open \ {Top.pkg} \subseteq Open'
  <2> SUFFICES ASSUME NEW k \in 2 .. Len(frames), frames[k].pkg # Top.pkg
               PROVE  frames[k].pkg \in Open'
    BY DEF Open
  <2>1. k \in 2 .. Len(frames')
    BY <1>1 DEF Top
  <2>2. QED
    BY <1>1, <2>1 DEF Open
<1>4. Top.pkg \in Open
  BY <1>1 DEF Open, Top
<1>5. Len(frames') # 0
  BY <1>1
<1>6. QED
  BY <1>2, <1>3, <1>4, <1>5

LEMMA StackStep ==
    ASSUME IInv, WalkStep
    PROVE  StackOK'
<1>1. TypeOK /\ StackOK /\ frames \in Seq(Frame)
  BY DEF IInv, TypeOK
<1>2. CASE UNCHANGED walk
  BY <1>1, <1>2 DEF walk, locks, StackOK, Selected
<1>3. CASE Start
  <2>1. CASE ValidStart
    <3>1. /\ frames' = << [pkg |-> Root, todo |-> root.imports] >> /\ frames' # << >>
          /\ Len(frames') = 1 /\ frames'[1].pkg = Root
      BY <1>3, <2>1 DEF Start
    <3>2. QED
      BY <3>1 DEF StackOK
  <2>2. CASE ~ ValidStart
    BY <1>1, <1>3, <2>2 DEF Start, StackOK, Selected, graph
  <2>3. QED
    BY <2>1, <2>2
<1>4. CASE ApplyLock
  BY <1>1, <1>4 DEF ApplyLock, Running, StackOK
<1>5. ASSUME NEW i \in Import, frames # << >>, frames' = Handled(i)
      PROVE  StackOK'
  BY <1>1, <1>5, HandledFrames, OpenHandled DEF StackOK
<1>6. ASSUME NEW i \in Import, NEW choice \in Choice, Joined(i, choice)
      PROVE  StackOK'
  <2> DEFINE f == [pkg |-> i.pkg, todo |-> Parsed[choice.bytes].imports]
  <2>1. f \in Frame /\ f.pkg \in Package
    BY OpenedFrame, ImportTypes
  <2>2. frames # << >> /\ frames' = Append(Handled(i), f)
    BY <1>6 DEF Joined
  <2> HIDE DEF f
  <2>3. /\ Len(frames') = Len(frames) + 1 /\ frames'[Len(frames) + 1] = f
        /\ \A k \in 1 .. Len(frames) : frames'[k].pkg = frames[k].pkg
        /\ Len(frames) \in Nat \ {0} /\ frames' # << >>
    BY <1>1, <2>1, <2>2, PushedFrames, OpenPushed
  <2>4. QED
    BY <1>1, <2>1, <2>2, <2>3 DEF StackOK
<1>7. CASE Return
  <2>1. Len(frames) > 1 /\ frames' = SubSeq(frames, 1, Len(frames) - 1)
    BY <1>7 DEF Return
  <2>2. QED
    BY <1>1, <2>1, PoppedFrames, OpenPopped DEF StackOK, IInv
<1>8. CASE Finish
  BY <1>1, <1>8 DEF Finish, StackOK, Running
<1>9. CASE Replay
  <2>1. /\ frames' = << >> /\ visited' = {} /\ edges' = {} /\ unapplied' = {}
        /\ decisions' = << >> /\ outcome' = None /\ Selected' = {}
    BY <1>9 DEF Replay, Selected
  <2>2. Len(frames') = 0
    BY <2>1
  <2>3. QED
    BY <2>1, <2>2 DEF StackOK
<1>10. QED
  BY <1>2, <1>3, <1>4, <1>5, <1>6, <1>7, <1>8, <1>9
  DEF WalkStep, Skipped, Objected, Rejoined

(* What is selected once a package is joined.                              *)
LEMMA SelectedJoined ==
    ASSUME TypeOK, NEW i \in Import, NEW choice \in Choice,
           selected' = [selected EXCEPT ![i.pkg] = choice]
    PROVE  /\ Selected' = Selected \cup {i.pkg}
           /\ selected'[i.pkg] = choice
           /\ \A p \in Package \ {i.pkg} : selected'[p] = selected[p]
<1>1. choice # None /\ i.pkg \in Package
  BY ImportTypes, WorldAssumption DEF Choice, Sources
<1>2. QED
  BY <1>1 DEF TypeOK, Selected

(* A replay starts with nothing.                                           *)
LEMMA Replayed ==
    ASSUME Replay
    PROVE  /\ Selected' = {} /\ visited' = {} /\ edges' = {} /\ Open' = {}
           /\ unapplied' = {} /\ frames' = << >> /\ Len(frames') = 0
           /\ decisions' = << >> /\ outcome' = None
<1>1. frames' = << >> /\ Len(frames') = 0
  BY DEF Replay
<1>2. Open' = {} /\ Selected' = {}
  BY <1>1 DEF Replay, Open, Selected
<1>3. QED
  BY <1>1, <1>2 DEF Replay

LEMMA WalkedOnceStep ==
    ASSUME IInv, WalkStep
    PROVE  WalkedOnce'
<1>1. TypeOK /\ StackOK /\ WalkedOnce /\ frames \in Seq(Frame)
  BY DEF IInv, TypeOK
<1>2. CASE UNCHANGED walk \/ Finish \/ ApplyLock
  <2>1. UNCHANGED <<frames, selected, visited>>
    BY <1>2 DEF walk, Finish, ApplyLock, graph
  <2>2. QED
    BY <1>1, <2>1 DEF WalkedOnce, Selected, Open
<1>3. CASE Start
  <2>1. frames = << >> /\ UNCHANGED <<selected, visited>> /\ Len(frames') \in {0, 1}
    BY <1>3 DEF Start, graph
  <2>2. Selected' = {} /\ visited' = {}
    BY <1>1, <2>1 DEF StackOK, Selected
  <2>3. 2 .. Len(frames') = {} /\ \A j, k \in 1 .. Len(frames') : j = k
    BY <2>1
  <2>4. Open' = {}
    BY <2>3 DEF Open
  <2>5. QED
    BY <2>2, <2>3, <2>4 DEF WalkedOnce
<1>4. ASSUME NEW i \in Import, frames # << >>, frames' = Handled(i),
             UNCHANGED <<selected, visited>>
      PROVE  WalkedOnce'
  BY <1>1, <1>4, HandledFrames, OpenHandled DEF WalkedOnce, Selected
<1>5. ASSUME NEW i \in Import, NEW choice \in Choice, Joined(i, choice)
      PROVE  WalkedOnce'
  <2> DEFINE f == [pkg |-> i.pkg, todo |-> Parsed[choice.bytes].imports]
  <2>1. f \in Frame /\ f.pkg = i.pkg /\ i.pkg \in Package
    BY OpenedFrame, ImportTypes
  <2>2. /\ frames # << >> /\ frames' = Append(Handled(i), f)
        /\ i.pkg \notin Open /\ i.pkg \notin Selected /\ visited' = visited
    BY <1>5 DEF Joined, Selected
  <2> HIDE DEF f
  <2>3. /\ Len(frames') = Len(frames) + 1 /\ frames'[Len(frames) + 1] = f
        /\ \A k \in 1 .. Len(frames) : frames'[k].pkg = frames[k].pkg
        /\ Len(frames) \in Nat \ {0}
    BY <1>1, <2>1, <2>2, PushedFrames
  <2>4. Open' = Open \cup {i.pkg}
    BY <1>1, <2>1, <2>2, OpenPushed
  <2>5. Selected' = Selected \cup {i.pkg}
    BY <1>1, <1>5, SelectedJoined DEF Joined
  <2>6. \A k \in 1 .. Len(frames) : frames[k].pkg # i.pkg
    BY <1>1, <2>1, <2>2, WorldAssumption DEF StackOK, Open
  <2>7. \A j, k \in 1 .. Len(frames') : frames'[j].pkg = frames'[k].pkg => j = k
    BY <1>1, <2>1, <2>3, <2>6 DEF WalkedOnce
  <2>8. QED
    BY <1>1, <2>2, <2>4, <2>5, <2>7 DEF WalkedOnce
<1>6. CASE Return
  <2>1. /\ Len(frames) > 1 /\ frames' = SubSeq(frames, 1, Len(frames) - 1)
        /\ visited' = visited \cup {Top.pkg} /\ selected' = selected
    BY <1>6 DEF Return
  <2>2. Open' = Open \ {Top.pkg} /\ Top.pkg \in Open
    BY <1>1, <2>1, OpenPopped
  <2>3. \A j, k \in 1 .. Len(frames') : frames'[j].pkg = frames'[k].pkg => j = k
    BY <1>1, <2>1, PoppedFrames DEF WalkedOnce
  <2>4. QED
    BY <1>1, <2>1, <2>2, <2>3 DEF WalkedOnce, Selected
<1>7. CASE Replay
  BY <1>7, Replayed DEF WalkedOnce
<1>8. QED
  BY <1>2, <1>3, <1>4, <1>5, <1>6, <1>7 DEF WalkStep, Skipped, Objected, Rejoined

-------------------------------------------------------------------------------
(* The evidence of what is selected.                                       *)

LEMMA EvidenceStep ==
    ASSUME IInv, WalkStep, UNCHANGED world, rewrites' = 0 => rewrites = 0
    PROVE  SelectedOnEvidence'
<1>1. TypeOK /\ SelectedOnEvidence /\ catalog' = catalog
  BY DEF IInv, world
<1>2. CASE UNCHANGED selected
  BY <1>1, <1>2 DEF SelectedOnEvidence, Selected, SourceOf
<1>3. ASSUME NEW i \in Import, NEW choice \in Choice, Joined(i, choice)
      PROVE  SelectedOnEvidence'
  <2>1. /\ Selected' = Selected \cup {i.pkg} /\ selected'[i.pkg] = choice
        /\ \A p \in Package \ {i.pkg} : selected'[p] = selected[p]
    BY <1>1, <1>3, SelectedJoined DEF Joined
  <2>2. /\ choice.entry \in Entry /\ choice.bytes \in Bytes /\ choice.bytes \in Sources
        /\ choice.entry \in catalog /\ choice.entry.name = i.pkg
    BY <1>3 DEF Choice, Sources, Joined, LockedCandidates, candidates
  <2>3. PICK data : /\ inspectCandidate(choice.entry, i, data, choice.bytes) = None
                    /\ rewrites = 0 => choice.bytes = data
    BY <1>3 DEF Joined
  <2>4. /\ Parsed[choice.bytes] # None
        /\ None \notin {choice.entry.digest, choice.entry.proof}
        /\ data = choice.entry.digest
        /\ Parsed[choice.bytes].digest \in {None, choice.entry.digest}
        /\ Parsed[choice.bytes].proof = choice.entry.proof
        /\ choice.entry.owner \in {None, Parsed[choice.bytes].owner}
    BY <2>2, <2>3, InspectAccepts
  <2>5. rewrites' = 0 => choice.bytes = choice.entry.digest
    BY <2>3, <2>4
  <2> SUFFICES ASSUME NEW p \in Selected'
               PROVE  LET entry == selected'[p].entry
                          source == Parsed[selected'[p].bytes]
                      IN  /\ entry \in catalog /\ entry.name = p
                          /\ None \notin {entry.digest, entry.proof}
                          /\ source # None /\ source.proof = entry.proof
                          /\ entry.owner \in {None, source.owner}
                          /\ source.digest \in {None, entry.digest}
                          /\ rewrites' = 0 => selected'[p].bytes = entry.digest
    BY <1>1 DEF SelectedOnEvidence, SourceOf
  <2>6. CASE p = i.pkg
    BY <2>1, <2>2, <2>4, <2>5, <2>6
  <2>7. CASE p # i.pkg
    BY <1>1, <2>1, <2>7 DEF SelectedOnEvidence, SourceOf, Selected
  <2>8. QED
    BY <2>6, <2>7
<1>4. CASE Replay
  BY <1>4, Replayed DEF SelectedOnEvidence
<1>5. QED
  BY <1>2, <1>3, <1>4
  DEF WalkStep, walk, Start, ApplyLock, Skipped, Objected, Rejoined, Return, Finish, graph

-------------------------------------------------------------------------------
(* The links.                                                              *)

(* The package whose imports are being resolved is selected or the root,   *)
(* and it is not visited yet.                                              *)
LEMMA TopPackage ==
    ASSUME IInv, frames # << >>
    PROVE  /\ Top.pkg \in Selected \cup {Root} /\ Top.pkg \in Open \cup {Root}
           /\ Top.pkg \notin visited /\ Root \notin visited
           /\ \A k \in 2 .. Len(frames) : frames[k].pkg = Top.pkg => k = Len(frames)
<1>1. frames \in Seq(Frame) /\ frames[1].pkg = Root /\ WalkedOnce /\ visited \subseteq Package
  BY DEF IInv, TypeOK, StackOK
<1>2. Len(frames) \in Nat \ {0}
  BY <1>1
<1>3. CASE Len(frames) = 1
  BY <1>1, <1>3, WorldAssumption DEF Top
<1>4. CASE Len(frames) > 1
  <2>1. Len(frames) \in 2 .. Len(frames)
    BY <1>2, <1>4
  <2>2. Top.pkg \in Open
    BY <2>1 DEF Open, Top
  <2>3. \A k \in 2 .. Len(frames) : frames[k].pkg = Top.pkg => k = Len(frames)
    BY <1>1, <2>1 DEF WalkedOnce, Top
  <2>4. QED
    BY <1>1, <2>2, <2>3, WorldAssumption DEF WalkedOnce
<1>5. QED
  BY <1>2, <1>3, <1>4

(* The edge of import i is the only one addEdge adds.                      *)
LEMMA NewEdge ==
    ASSUME NEW i, edges' = addEdge(i)
    PROVE  /\ \A e \in edges' : e \in edges \/ (e.from = Top.pkg /\ e.to = i.pkg)
           /\ edges \subseteq edges'
           /\ Links' = Links \cup {<<Top.pkg, i.pkg>>}
<1> DEFINE new == EdgeOf(Top.pkg, i)
<1>1. edges' = edges \cup {new}
  BY DEF addEdge
<1>2. new.from = Top.pkg /\ new.to = i.pkg
  BY DEF EdgeOf
<1> HIDE DEF new
<1>3. Links' = Links \cup {<<Top.pkg, i.pkg>>}
  BY <1>1, <1>2 DEF Links
<1>4. QED
  BY <1>1, <1>2, <1>3

LEMMA EdgesStep ==
    ASSUME IInv, WalkStep
    PROVE  EdgesOK'
<1>1. /\ TypeOK /\ StackOK /\ WalkedOnce /\ EdgesOK /\ frames \in Seq(Frame)
      /\ Selected \subseteq Package
  BY DEF IInv, TypeOK, Selected
<1>2. CASE UNCHANGED walk \/ Finish \/ ApplyLock
  <2>1. UNCHANGED <<frames, selected, visited, edges>>
    BY <1>2 DEF walk, Finish, ApplyLock, graph
  <2>2. QED
    BY <1>1, <2>1 DEF EdgesOK, Selected
<1>3. CASE Start
  BY <1>1, <1>3 DEF Start, EdgesOK, StackOK, graph
<1>4. ASSUME NEW i \in Import, frames # << >>, frames' = Handled(i),
             UNCHANGED <<selected, visited, edges>>
      PROVE  EdgesOK'
  <2>1. Selected' = Selected
    BY <1>4 DEF Selected
  <2>2. /\ Len(frames') = Len(frames)
        /\ \A k \in 1 .. Len(frames) : frames'[k].pkg = frames[k].pkg
    BY <1>1, <1>4, HandledFrames
  <2>3. QED
    BY <1>1, <1>4, <2>1, <2>2 DEF EdgesOK
<1>5. ASSUME NEW i \in Import, Rejoined(i)
      PROVE  EdgesOK'
  <2>1. /\ frames # << >> /\ i.pkg \in visited
        /\ Selected' = Selected /\ visited' = visited
    BY <1>5 DEF Rejoined, Selected
  <2>2. /\ Len(frames') = Len(frames)
        /\ \A k \in 1 .. Len(frames) : frames'[k].pkg = frames[k].pkg
    BY <1>1, <1>5, <2>1, HandledFrames DEF Rejoined
  <2>3. \A e \in edges' : e \in edges \/ (e.from = Top.pkg /\ e.to = i.pkg)
    BY <1>5, NewEdge DEF Rejoined
  <2>4. QED
    BY <1>1, <2>1, <2>2, <2>3, TopPackage DEF EdgesOK, WalkedOnce
<1>6. ASSUME NEW i \in Import, NEW choice \in Choice, Joined(i, choice)
      PROVE  EdgesOK'
  <2> DEFINE f == [pkg |-> i.pkg, todo |-> Parsed[choice.bytes].imports]
             n == Len(frames)
  <2>1. f \in Frame /\ f.pkg = i.pkg /\ i.pkg \in Package
    BY OpenedFrame, ImportTypes
  <2>2. /\ frames # << >> /\ frames' = Append(Handled(i), f) /\ visited' = visited
        /\ i.pkg \notin Open /\ i.pkg \notin Selected
    BY <1>6 DEF Joined, Selected
  <2> HIDE DEF f
  <2>3. /\ Len(frames') = Len(frames) + 1 /\ frames'[Len(frames) + 1] = f
        /\ \A k \in 1 .. Len(frames) : frames'[k].pkg = frames[k].pkg
        /\ Len(frames) \in Nat \ {0}
    BY <1>1, <2>1, <2>2, PushedFrames
  <2>4. Selected' = Selected \cup {i.pkg}
    BY <1>1, <1>6, SelectedJoined DEF Joined
  <2>5. \A e \in edges' : e \in edges \/ (e.from = Top.pkg /\ e.to = i.pkg)
    BY <1>6, NewEdge DEF Joined
  <2>6. i.pkg # Root /\ i.pkg # Top.pkg
    BY <2>1, <2>2, TopPackage, WorldAssumption
  <2>7. ASSUME NEW e \in edges
        PROVE  /\ e.from \in Selected' \cup {Root} /\ e.to \in Selected'
               /\ e.from \in visited' => e.to \in visited'
               /\ \A k \in 2 .. Len(frames') :
                     e.from = frames'[k].pkg =>
                         \/ e.to \in visited'
                         \/ k < Len(frames') /\ e.to = frames'[k + 1].pkg
    <3>1. e.from \in Selected \cup {Root} /\ e.to \in Selected
      BY <1>1 DEF EdgesOK
    <3>2. e.from # i.pkg
      BY <2>2, <2>6, <3>1
    <3>3. ASSUME NEW k \in 2 .. Len(frames'), e.from = frames'[k].pkg
          PROVE  \/ e.to \in visited'
                 \/ k < Len(frames') /\ e.to = frames'[k + 1].pkg
      <4>1. k \in 2 .. n /\ e.from = frames[k].pkg
        BY <2>1, <2>3, <3>2, <3>3
      <4>2. e.to \in visited \/ (k < n /\ e.to = frames[k + 1].pkg)
        BY <1>1, <4>1 DEF EdgesOK
      <4>3. QED
        BY <2>2, <2>3, <4>1, <4>2
    <3>4. QED
      BY <1>1, <2>2, <2>4, <3>1, <3>3 DEF EdgesOK
  <2>8. ASSUME NEW e, e.from = Top.pkg, e.to = i.pkg
        PROVE  /\ e.from \in Selected' \cup {Root} /\ e.to \in Selected'
               /\ e.from \in visited' => e.to \in visited'
               /\ \A k \in 2 .. Len(frames') :
                     e.from = frames'[k].pkg =>
                         \/ e.to \in visited'
                         \/ k < Len(frames') /\ e.to = frames'[k + 1].pkg
    <3>1. ASSUME NEW k \in 2 .. Len(frames'), e.from = frames'[k].pkg
          PROVE  k < Len(frames') /\ e.to = frames'[k + 1].pkg
      <4>1. k \in 2 .. n /\ frames[k].pkg = Top.pkg
        BY <2>1, <2>3, <2>6, <2>8, <3>1
      <4>2. k = n
        BY <2>2, <4>1, TopPackage
      <4>3. QED
        BY <2>1, <2>3, <2>8, <4>2
    <3>2. QED
      BY <2>2, <2>4, <2>8, <3>1, TopPackage
  <2>9. QED
    BY <2>5, <2>7, <2>8 DEF EdgesOK
<1>7. CASE Return
  <2>1. /\ Len(frames) > 1 /\ frames' = SubSeq(frames, 1, Len(frames) - 1)
        /\ visited' = visited \cup {Top.pkg} /\ Selected' = Selected /\ edges' = edges
    BY <1>7 DEF Return, Selected
  <2>2. /\ Len(frames') = Len(frames) - 1 /\ Len(frames) \in Nat
        /\ \A k \in 1 .. Len(frames) - 1 : frames'[k] = frames[k]
    BY <1>1, <2>1, PoppedFrames
  <2>3. \A e \in edges : e.from = Top.pkg => e.to \in visited
    BY <1>1, <2>1, <2>2 DEF EdgesOK, Top
  <2>4. ASSUME NEW e \in edges, NEW k \in 2 .. Len(frames) - 1, e.from = frames[k].pkg
        PROVE  \/ e.to \in visited'
               \/ k < Len(frames) - 1 /\ e.to = frames[k + 1].pkg
    BY <1>1, <2>1, <2>2, <2>4 DEF EdgesOK, Top
  <2>5. QED
    BY <1>1, <2>1, <2>2, <2>3, <2>4 DEF EdgesOK
<1>8. CASE Replay
  BY <1>8, Replayed DEF EdgesOK
<1>9. QED
  BY <1>2, <1>3, <1>4, <1>5, <1>6, <1>7, <1>8 DEF WalkStep, Skipped, Objected

(* A link to a visited package, or to a new one, closes no cycle.          *)
LEMMA AcyclicStep ==
    ASSUME IInv, WalkStep
    PROVE  Acyclic'
<1>1. TypeOK /\ WalkedOnce /\ EdgesOK /\ Graph!IsAcyclic(Links)
  BY DEF IInv, Acyclic
<1>2. CASE UNCHANGED edges
  BY <1>1, <1>2 DEF Acyclic, Links, Graph!IsAcyclic
<1>3. \A p, q : <<p, q>> \in Links => \E e \in edges : p = e.from /\ q = e.to
  BY DEF Links
<1>4. ASSUME NEW i \in Import, Rejoined(i), NEW S \in SUBSET Package, S # {}
      PROVE  \E p \in S : \A q \in S : <<p, q>> \notin Links \cup {<<Top.pkg, i.pkg>>}
  <2>1. i.pkg \in visited /\ Top.pkg \notin visited
    BY <1>4, TopPackage DEF Rejoined
  <2>2. CASE S \cap visited = {}
    <3>1. PICK p \in S : \A q \in S : <<p, q>> \notin Links
      BY <1>1, <1>4 DEF Graph!IsAcyclic
    <3>2. QED
      BY <2>1, <2>2, <3>1
  <2>3. CASE S \cap visited # {}
    <3>1. PICK p \in S \cap visited : \A q \in S \cap visited : <<p, q>> \notin Links
      BY <1>1, <2>3 DEF Graph!IsAcyclic
    <3>2. \A q : <<p, q>> \in Links => q \in visited
      BY <1>1, <1>3, <3>1 DEF EdgesOK
    <3>3. QED
      BY <2>1, <3>1, <3>2
  <2>4. QED
    BY <2>2, <2>3
<1>5. ASSUME NEW i \in Import, NEW choice \in Choice, Joined(i, choice),
             NEW S \in SUBSET Package, S # {}
      PROVE  \E p \in S : \A q \in S : <<p, q>> \notin Links \cup {<<Top.pkg, i.pkg>>}
  <2>1. i.pkg \notin Selected /\ i.pkg # Root /\ i.pkg # Top.pkg
    <3>1. i.pkg \in Package /\ i.pkg \notin Open /\ i.pkg \notin Selected /\ frames # << >>
      BY <1>5, ImportTypes DEF Joined, Selected
    <3>2. QED
      BY <3>1, TopPackage, WorldAssumption
  <2>2. CASE i.pkg \in S
    <3>1. \A q : <<i.pkg, q>> \notin Links
      BY <1>1, <1>3, <2>1 DEF EdgesOK
    <3>2. QED
      BY <2>1, <2>2, <3>1
  <2>3. CASE i.pkg \notin S
    <3>1. PICK p \in S : \A q \in S : <<p, q>> \notin Links
      BY <1>1, <1>5 DEF Graph!IsAcyclic
    <3>2. QED
      BY <2>3, <3>1
  <2>4. QED
    BY <2>2, <2>3
<1>6. CASE \E i \in Import : Rejoined(i)
  <2>1. PICK i \in Import : Rejoined(i)
    BY <1>6
  <2>2. Links' = Links \cup {<<Top.pkg, i.pkg>>}
    BY <2>1, NewEdge DEF Rejoined
  <2>3. QED
    BY <1>4, <2>1, <2>2 DEF Acyclic, Graph!IsAcyclic
<1>7. CASE \E i \in Import : \E choice \in Choice : Joined(i, choice)
  <2>1. PICK i \in Import, choice \in Choice : Joined(i, choice)
    BY <1>7
  <2>2. Links' = Links \cup {<<Top.pkg, i.pkg>>}
    BY <2>1, NewEdge DEF Joined
  <2>3. QED
    BY <1>5, <2>1, <2>2 DEF Acyclic, Graph!IsAcyclic
<1>8. CASE Replay
  BY <1>8, Replayed DEF Acyclic, Links, Graph!IsAcyclic
<1>9. QED
  BY <1>2, <1>6, <1>7, <1>8
  DEF WalkStep, walk, Start, ApplyLock, Skipped, Objected, Return, Finish, graph

-------------------------------------------------------------------------------
(* Cycles: what is reached stays reached, and further along a new link.    *)

LEMMA LeadsOn ==
    ASSUME NEW L, NEW M, L \subseteq M, NEW p, NEW q, Leads(L, p, q)
    PROVE  /\ Leads(M, p, q)
           /\ \A r : <<q, r>> \in M => Leads(M, p, r)
<1>1. ASSUME NEW S \in SUBSET Package, p \in S, \A l \in M : l[1] \in S => l[2] \in S
      PROVE  q \in S
  <2>1. \A l \in L : l[1] \in S => l[2] \in S
    BY <1>1
  <2>2. QED
    BY <1>1, <2>1 DEF Leads
<1>2. ASSUME NEW r, <<q, r>> \in M,
             NEW S \in SUBSET Package, p \in S, \A l \in M : l[1] \in S => l[2] \in S
      PROVE  r \in S
  <2>1. q \in S
    BY <1>1, <1>2
  <2>2. <<q, r>>[1] \in S => <<q, r>>[2] \in S
    BY <1>2
  <2>3. QED
    BY <2>1, <2>2
<1>3. QED
  BY <1>1, <1>2 DEF Leads

LEMMA LeadsHome == \A L, p : Leads(L, p, p)
  BY DEF Leads

LEMMA PathStep ==
    ASSUME IInv, WalkStep
    PROVE  PathOK'
<1>1. TypeOK /\ StackOK /\ PathOK /\ frames \in Seq(Frame)
  BY DEF IInv, TypeOK
<1>2. ASSUME edges \subseteq edges', frames' \in Seq(Frame), Len(frames') <= Len(frames),
             \A k \in 1 .. Len(frames') : frames'[k].pkg = frames[k].pkg
      PROVE  PathOK'
  <2>1. Links \subseteq Links'
    BY <1>2 DEF Links
  <2>2. \A k \in 2 .. Len(frames) : \A j \in 2 .. k :
            Leads(Links', frames[j].pkg, frames[k].pkg)
    BY <1>1, <2>1, LeadsOn DEF PathOK
  <2>3. QED
    BY <1>1, <1>2, <2>2 DEF PathOK
<1>3. CASE UNCHANGED walk \/ Finish \/ ApplyLock
  <2>1. UNCHANGED <<frames, edges>>
    BY <1>3 DEF walk, Finish, ApplyLock, graph
  <2>2. QED
    BY <1>1, <2>1 DEF PathOK, Links
<1>4. CASE Start
  <2>1. Len(frames') \in {0, 1}
    BY <1>4 DEF Start
  <2>2. QED
    BY <2>1 DEF PathOK
<1>5. ASSUME NEW i \in Import, frames # << >>, frames' = Handled(i), edges \subseteq edges'
      PROVE  PathOK'
  BY <1>1, <1>2, <1>5, HandledFrames
<1>6. CASE \E i \in Import : Rejoined(i)
  BY <1>5, <1>6, NewEdge DEF Rejoined
<1>7. ASSUME NEW i \in Import, NEW choice \in Choice, Joined(i, choice)
      PROVE  PathOK'
  <2> DEFINE f == [pkg |-> i.pkg, todo |-> Parsed[choice.bytes].imports]
             n == Len(frames)
  <2>1. f \in Frame /\ f.pkg = i.pkg /\ i.pkg \in Package
    BY OpenedFrame, ImportTypes
  <2>2. frames # << >> /\ frames' = Append(Handled(i), f) /\ edges' = addEdge(i)
    BY <1>7 DEF Joined
  <2> HIDE DEF f
  <2>3. /\ Len(frames') = n + 1 /\ frames'[n + 1] = f /\ n \in Nat \ {0}
        /\ \A k \in 1 .. n : frames'[k].pkg = frames[k].pkg
    BY <1>1, <2>1, <2>2, PushedFrames
  <2>4. Links \subseteq Links' /\ <<Top.pkg, i.pkg>> \in Links'
    BY <2>2, NewEdge
  <2>5. ASSUME NEW k \in 2 .. n, NEW j \in 2 .. k
        PROVE  Leads(Links', frames[j].pkg, frames[k].pkg)
    BY <1>1, <2>4, LeadsOn DEF PathOK
  <2>6. ASSUME NEW j \in 2 .. n
        PROVE  Leads(Links', frames[j].pkg, i.pkg)
    <3>1. Leads(Links, frames[j].pkg, Top.pkg)
      BY <1>1, <2>3, <2>6 DEF PathOK, Top
    <3>2. QED
      BY <2>4, <3>1, LeadsOn
  <2>7. ASSUME NEW k \in 2 .. n + 1, NEW j \in 2 .. k
        PROVE  Leads(Links', frames'[j].pkg, frames'[k].pkg)
    <3>1. CASE k \in 2 .. n
      <4>1. k \in 1 .. n /\ j \in 1 .. n
        BY <2>3, <3>1
      <4>2. QED
        BY <2>3, <2>5, <3>1, <4>1
    <3>2. CASE k = n + 1 /\ j \in 2 .. n
      <4>1. j \in 1 .. n
        BY <2>3, <3>2
      <4>2. QED
        BY <2>1, <2>3, <2>6, <3>2, <4>1
    <3>3. CASE k = n + 1 /\ j = n + 1
      BY <3>3, LeadsHome
    <3>4. QED
      BY <2>3, <3>1, <3>2, <3>3
  <2>8. QED
    BY <2>3, <2>7 DEF PathOK
<1>8. CASE Return
  <2>1. /\ Len(frames) > 1 /\ frames' = SubSeq(frames, 1, Len(frames) - 1)
        /\ edges' = edges
    BY <1>8 DEF Return
  <2>2. QED
    BY <1>1, <1>2, <2>1, PoppedFrames
<1>9. CASE Replay
  BY <1>9, Replayed DEF PathOK
<1>10. QED
  BY <1>3, <1>4, <1>5, <1>6, <1>7, <1>8, <1>9 DEF WalkStep, Skipped, Objected

-------------------------------------------------------------------------------
(* What becomes of every import.                                           *)

(* The imports of a selected package and of the root are imports.          *)
LEMMA ImportsTyped ==
    ASSUME TypeOK, NEW p \in Selected \cup {Root}
    PROVE  ImportsOf(p) \subseteq Import
<1>1. CASE p = Root
  BY <1>1, DeclaredTypes DEF TypeOK, ImportsOf
<1>2. CASE p # Root
  <2>1. selected[p].bytes \in Sources
    BY <1>2 DEF TypeOK, Selected
  <2>2. QED
    BY <1>2, <2>1, DeclaredTypes DEF ImportsOf, SourceOf
<1>3. QED
  BY <1>1, <1>2

(* An import of the top package stays waiting while another is handled.    *)
LEMMA StillWaiting ==
    ASSUME frames \in Seq(Frame), frames' \in Seq(Frame), frames # << >>,
           Len(frames') \in {Len(frames), Len(frames) + 1},
           \A k \in 1 .. Len(frames) : frames'[k].pkg = frames[k].pkg,
           \A k \in 1 .. Len(frames) : k # Len(frames) => frames'[k] = frames[k],
           NEW i, frames'[Len(frames)].todo = Top.todo \ {i},
           NEW p, NEW j, Waiting(p, j)
    PROVE  Waiting(p, j)' \/ (p = Top.pkg /\ j = i)
<1>1. PICK k \in 1 .. Len(frames) : frames[k].pkg = p /\ j \in frames[k].todo
  BY DEF Waiting
<1>2. CASE k < Len(frames)
  BY <1>1, <1>2 DEF Waiting
<1>3. CASE k = Len(frames)
  BY <1>1, <1>3 DEF Waiting, Top
<1>4. QED
  BY <1>1, <1>2, <1>3

LEMMA StillWaitingHandled ==
    ASSUME frames \in Seq(Frame), frames # << >>, NEW i, frames' = Handled(i),
           NEW p, NEW j, Waiting(p, j)
    PROVE  Waiting(p, j)' \/ (p = Top.pkg /\ j = i)
<1>1. /\ frames' \in Seq(Frame) /\ Len(frames') = Len(frames)
      /\ \A k \in 1 .. Len(frames) : frames'[k].pkg = frames[k].pkg
      /\ \A k \in 1 .. Len(frames) : k # Len(frames) => frames'[k] = frames[k]
      /\ frames'[Len(frames)].todo = Top.todo \ {i}
  BY HandledFrames
<1>2. QED
  BY <1>1, StillWaiting

LEMMA StillWaitingPushed ==
    ASSUME frames \in Seq(Frame), frames # << >>, NEW i, NEW f \in Frame,
           frames' = Append(Handled(i), f), NEW p, NEW j, Waiting(p, j)
    PROVE  Waiting(p, j)' \/ (p = Top.pkg /\ j = i)
<1>1. frames' \in Seq(Frame) /\ Len(frames') = Len(frames) + 1
  BY PushedFrames
<1>2. \A k \in 1 .. Len(frames) : frames'[k].pkg = frames[k].pkg
  BY PushedFrames
<1>3. \A k \in 1 .. Len(frames) : k # Len(frames) => frames'[k] = frames[k]
  <2>1. /\ Handled(i) \in Seq(Frame) /\ Len(Handled(i)) = Len(frames)
        /\ \A k \in 1 .. Len(frames) : k # Len(frames) => Handled(i)[k] = frames[k]
    BY HandledFrames
  <2>2. \A k \in 1 .. Len(frames) : frames'[k] = Handled(i)[k]
    BY <2>1
  <2>3. QED
    BY <2>1, <2>2
<1>4. frames'[Len(frames)].todo = Top.todo \ {i}
  BY PushedFrames
<1>5. QED
  BY <1>1, <1>2, <1>3, <1>4, StillWaiting

(* An import of an open package is an import of one that leads to the top. *)
LEMMA SkippedOnCycle ==
    ASSUME IInv, NEW i \in Import, Skipped(i)
    PROVE  OnCycle(Top.pkg, i)
<1>1. PICK j \in 2 .. Len(frames) : frames[j].pkg = i.pkg
  BY DEF Skipped, Open
<1>2. frames \in Seq(Frame) /\ Len(frames) \in 2 .. Len(frames)
  BY <1>1 DEF IInv, TypeOK
<1>3. Leads(Links, i.pkg, Top.pkg)
  BY <1>1, <1>2 DEF IInv, PathOK, Top
<1>4. i.pkg \in Selected
  BY DEF Skipped, IInv, WalkedOnce
<1>5. QED
  BY <1>3, <1>4 DEF OnCycle

LEMMA AccountedStep ==
    ASSUME IInv, WalkStep, UNCHANGED world
    PROVE  Accounted'
<1>1. /\ TypeOK /\ StackOK /\ WalkedOnce /\ Accounted /\ frames \in Seq(Frame)
      /\ root' = root
  BY DEF IInv, TypeOK, world
<1>2. UNCHANGED selected => Selected' = Selected /\ \A p : ImportsOf(p)' = ImportsOf(p)
  BY <1>1 DEF Selected, ImportsOf, SourceOf
<1>3. CASE UNCHANGED walk \/ Finish
  <2>1. UNCHANGED <<root, frames, selected, edges, decisions>>
    BY <1>1, <1>3 DEF walk, Finish, graph
  <2>2. \A p, j : Linked(p, j) => Linked(p, j)'
    BY <2>1 DEF Linked, SourceOf
  <2>3. \A p, j : Waiting(p, j) => Waiting(p, j)'
    BY <2>1 DEF Waiting
  <2>4. \A p, j : OnCycle(p, j) => OnCycle(p, j)'
    BY <2>1 DEF OnCycle, Links, Selected
  <2>5. QED
    BY <1>1, <1>2, <2>1, <2>2, <2>3, <2>4 DEF Accounted
<1>4. CASE Start
  <2>1. /\ Selected' = {} /\ ImportsOf(Root)' = root.imports
        /\ frames' = << >> \/ frames' = << [pkg |-> Root, todo |-> root.imports] >>
    BY <1>1, <1>4 DEF Start, StackOK, Selected, ImportsOf, graph
  <2>2. QED
    BY <2>1 DEF Accounted, Waiting
<1>5. CASE ApplyLock
  <2>1. PICK l \in unapplied : MergeLock(l)
    BY <1>5 DEF ApplyLock
  <2>2. l \in LockEntry
    BY <1>1, <2>1 DEF TypeOK
  <2>3. decisions' = decisions \/ decisions' # << >>
    BY <1>1, <2>1, <2>2, MergedTypes DEF TypeOK
  <2>4. UNCHANGED <<root, frames, selected, edges>>
    BY <1>1, <1>5 DEF ApplyLock, graph
  <2>5. \A p, j : /\ Linked(p, j) => Linked(p, j)'
                  /\ Waiting(p, j) => Waiting(p, j)'
                  /\ OnCycle(p, j) => OnCycle(p, j)'
    BY <2>4 DEF Linked, SourceOf, Waiting, OnCycle, Links, Selected
  <2>6. QED
    BY <1>1, <1>2, <2>3, <2>4, <2>5 DEF Accounted
<1>6. CASE \E i \in Import : \E c \in Claim : Objected(i, c)
  <2>1. PICK c \in Claim : decisions' = Append(decisions, c)
    BY <1>6 DEF Objected
  <2>2. decisions' # << >>
    BY <1>1, <2>1 DEF TypeOK
  <2>3. QED
    BY <2>2 DEF Accounted
<1>7. CASE \E i \in Import : Skipped(i)
  <2>1. PICK i \in Import : Skipped(i)
    BY <1>7
  <2>2. /\ frames # << >> /\ frames' = Handled(i)
        /\ UNCHANGED <<selected, edges, decisions>>
    BY <2>1 DEF Skipped
  <2>3. \A p, j : /\ Linked(p, j) => Linked(p, j)'
                  /\ OnCycle(p, j) => OnCycle(p, j)'
    BY <2>2 DEF Linked, SourceOf, OnCycle, Links, Selected
  <2>4. \A p, j : Waiting(p, j) => Waiting(p, j)' \/ (p = Top.pkg /\ j = i)
    BY <1>1, <2>2, StillWaitingHandled
  <2>5. OnCycle(Top.pkg, i)
    BY <2>1, SkippedOnCycle
  <2>6. QED
    BY <1>1, <1>2, <2>2, <2>3, <2>4, <2>5 DEF Accounted
<1>8. ASSUME edges \subseteq edges', \A p \in Selected : selected'[p] = selected[p],
             NEW p \in Selected \cup {Root}, NEW j \in ImportsOf(p)
      PROVE  /\ Linked(p, j) => Linked(p, j)'
             /\ OnCycle(p, j) => OnCycle(p, j)'
  <2>1. j.pkg \in Package
    BY <1>1, <1>8, ImportsTyped, ImportTypes
  <2>2. Links \subseteq Links'
    BY <1>8 DEF Links
  <2>3. Linked(p, j) => Linked(p, j)'
    BY <1>8, <2>1 DEF Linked, SourceOf, Selected
  <2>4. Leads(Links, j.pkg, p) => Leads(Links', j.pkg, p)
    BY <2>2, LeadsOn
  <2>5. j.pkg \in Selected => j.pkg \in Selected'
    BY <1>8 DEF Selected
  <2>6. QED
    BY <2>3, <2>4, <2>5 DEF OnCycle
<1>9. CASE \E i \in Import : Rejoined(i)
  <2>1. PICK i \in Import : Rejoined(i)
    BY <1>9
  <2>2. /\ frames # << >> /\ frames' = Handled(i) /\ edges' = addEdge(i)
        /\ selected' = selected /\ decisions' = decisions
    BY <2>1 DEF Rejoined
  <2>3. edges \subseteq edges'
    BY <2>2, NewEdge
  <2>4. \A p, j : Waiting(p, j) => Waiting(p, j)' \/ (p = Top.pkg /\ j = i)
    BY <1>1, <2>2, StillWaitingHandled
  <2>5. \A p : p = Top.pkg => Linked(p, i)'
    <3>1. selected[i.pkg] # None
      BY <1>1, <2>1 DEF Rejoined, WalkedOnce, Selected
    <3>2. QED
      BY <2>1, <2>2, <3>1 DEF Linked, Rejoined, addEdge, SourceOf
  <2>6. QED
    <3> SUFFICES ASSUME decisions' = << >>, NEW p \in Selected \cup {Root},
                        NEW j \in ImportsOf(p)
                 PROVE  Linked(p, j)' \/ Waiting(p, j)' \/ OnCycle(p, j)'
      BY <1>2, <2>2 DEF Accounted
    <3>1. Linked(p, j) \/ Waiting(p, j) \/ OnCycle(p, j)
      BY <1>1, <2>2 DEF Accounted
    <3>2. QED
      BY <1>8, <2>2, <2>3, <2>4, <2>5, <3>1
<1>10. CASE \E i \in Import : \E choice \in Choice : Joined(i, choice)
  <2>1. PICK i \in Import, choice \in Choice : Joined(i, choice)
    BY <1>10
  <2> DEFINE f == [pkg |-> i.pkg, todo |-> Parsed[choice.bytes].imports]
  <2>2. f \in Frame /\ f.pkg = i.pkg /\ f.todo = Parsed[choice.bytes].imports
    BY OpenedFrame
  <2>3. /\ frames # << >> /\ frames' = Append(Handled(i), f) /\ edges' = addEdge(i)
        /\ decisions' = decisions
    BY <2>1 DEF Joined
  <2> HIDE DEF f
  <2>4. /\ Selected' = Selected \cup {i.pkg} /\ selected'[i.pkg] = choice
        /\ \A p \in Package \ {i.pkg} : selected'[p] = selected[p]
        /\ i.pkg \in Package /\ i.pkg \notin Selected /\ choice # None
    BY <1>1, <2>1, SelectedJoined, ImportTypes, WorldAssumption
    DEF Joined, Selected, Choice, Sources
  <2>5. /\ \A p \in Selected : selected'[p] = selected[p]
        /\ \A p \in Selected \cup {Root} : ImportsOf(p)' = ImportsOf(p)
    BY <1>1, <2>4 DEF ImportsOf, SourceOf, Selected
  <2>6. ImportsOf(i.pkg)' = f.todo
    BY <2>2, <2>4, WorldAssumption DEF ImportsOf, SourceOf
  <2>7. edges \subseteq edges'
    BY <2>3, NewEdge
  <2>8. \A p, j : Waiting(p, j) => Waiting(p, j)' \/ (p = Top.pkg /\ j = i)
    BY <1>1, <2>2, <2>3, StillWaitingPushed
  <2>9. \A p : p = Top.pkg => Linked(p, i)'
    <3>1. importMatches(Parsed[choice.bytes], i) = None
      BY <2>1, InspectAccepts DEF Joined, Choice, Sources
    <3>2. QED
      BY <2>3, <2>4, <3>1 DEF Linked, addEdge, SourceOf
  <2>10. \A j \in f.todo : Waiting(i.pkg, j)'
    <3>1. /\ Len(frames') = Len(frames) + 1 /\ frames'[Len(frames) + 1] = f
          /\ Len(frames) \in Nat
      BY <1>1, <2>2, <2>3, PushedFrames
    <3>2. QED
      BY <2>2, <3>1 DEF Waiting
  <2>11. QED
    <3>1. ASSUME decisions' = << >>, NEW p \in Selected \cup {Root}, NEW j \in ImportsOf(p)
          PROVE  Linked(p, j)' \/ Waiting(p, j)' \/ OnCycle(p, j)'
      <4>1. Linked(p, j) \/ Waiting(p, j) \/ OnCycle(p, j)
        BY <1>1, <2>3, <3>1 DEF Accounted
      <4>2. QED
        BY <1>8, <2>5, <2>7, <2>8, <2>9, <3>1, <4>1
    <3>2. QED
      BY <2>4, <2>5, <2>6, <2>10, <3>1 DEF Accounted
<1>11. CASE Return
  <2>1. /\ Len(frames) > 1 /\ frames # << >> /\ Top.todo = {}
        /\ frames' = SubSeq(frames, 1, Len(frames) - 1)
        /\ UNCHANGED <<selected, edges, decisions>>
    BY <1>11 DEF Return
  <2>2. \A p, j : /\ Linked(p, j) => Linked(p, j)'
                  /\ OnCycle(p, j) => OnCycle(p, j)'
    BY <2>1 DEF Linked, SourceOf, OnCycle, Links, Selected
  <2>3. ASSUME NEW p, NEW j, Waiting(p, j)
        PROVE  Waiting(p, j)'
    <3>1. PICK k \in 1 .. Len(frames) : frames[k].pkg = p /\ j \in frames[k].todo
      BY <2>3 DEF Waiting
    <3>2. k \in 1 .. Len(frames) - 1
      BY <2>1, <3>1 DEF Top
    <3>3. QED
      BY <1>1, <2>1, <3>1, <3>2, PoppedFrames DEF Waiting
  <2>4. QED
    BY <1>1, <1>2, <2>1, <2>2, <2>3 DEF Accounted
<1>12. CASE Replay
  BY <1>12, Replayed DEF Accounted
<1>13. QED
  BY <1>3, <1>4, <1>5, <1>6, <1>7, <1>9, <1>10, <1>11, <1>12 DEF WalkStep

-------------------------------------------------------------------------------
(* The locks.                                                              *)

LEMMA RefutedStays ==
    ASSUME decisions \in Seq(Claim), RefutedSoFar,
           decisions' = decisions \/ \E c \in Claim : decisions' = Append(decisions, c)
    PROVE  RefutedSoFar'
<1>1. PICK k \in DOMAIN decisions : decisions[k].state = Refuted
  BY DEF RefutedSoFar
<1>2. CASE decisions' = decisions
  BY <1>1, <1>2 DEF RefutedSoFar
<1>3. ASSUME NEW c \in Claim, decisions' = Append(decisions, c)
      PROVE  RefutedSoFar'
  <2>1. k \in DOMAIN decisions' /\ decisions'[k] = decisions[k]
    BY <1>1, <1>3
  <2>2. QED
    BY <1>1, <2>1 DEF RefutedSoFar
<1>4. QED
  BY <1>2, <1>3

(* Merging the lock l of the lockfile: the root's lock on its package was  *)
(* the same, or there is a refutation.                                     *)
LEMMA LockMerged ==
    ASSUME IInv, frames # << >>, NEW l \in LockEntry, MergeLock(l)
    PROVE  /\ \A p \in Package : root.locks[p] # None => lockRefs'[p] = root.locks[p]
           /\ root.locks[l.name] \in {None, l.digest} \/ RefutedSoFar'
<1>1. /\ \A p \in Package : root.locks[p] # None => lockRefs[p] = root.locks[p]
      /\ lockRefs \in [Package -> Bytes \cup {None}] /\ decisions \in Seq(Claim)
  BY DEF IInv, LocksOK, TypeOK
<1>2. l.name \in Package /\ l.digest \in Bytes
  BY DEF LockEntry
<1>3. CASE lockRefs[l.name] \notin {None, l.digest}
  <2> DEFINE c == refutedClaim("LOCK_DIGEST_CONFLICT", l.name)
  <2>1. decisions' = Append(decisions, c) /\ lockRefs' = lockRefs
    BY <1>3 DEF MergeLock
  <2>2. c \in Claim /\ c.state = Refuted
    BY <1>2, RaisedClaims DEF ClaimOrder, refutedClaim
  <2> HIDE DEF c
  <2>3. Len(decisions) + 1 \in DOMAIN decisions' /\ decisions'[Len(decisions) + 1] = c
    BY <1>1, <2>1, <2>2
  <2>4. RefutedSoFar'
    BY <2>2, <2>3 DEF RefutedSoFar
  <2>5. QED
    BY <1>1, <2>1, <2>4
<1>4. CASE lockRefs[l.name] \in {None, l.digest}
  <2>1. lockRefs' = [lockRefs EXCEPT ![l.name] = l.digest]
    BY <1>4 DEF MergeLock
  <2>2. root.locks[l.name] # None => root.locks[l.name] = l.digest
    BY <1>1, <1>2, <1>4
  <2>3. QED
    BY <1>1, <1>2, <2>1, <2>2
<1>5. QED
  BY <1>3, <1>4

LEMMA LocksStep ==
    ASSUME IInv, WalkStep, UNCHANGED world
    PROVE  LocksOK'
<1>1. /\ TypeOK /\ StackOK /\ LocksOK /\ frames \in Seq(Frame) /\ decisions \in Seq(Claim)
      /\ root' = root
  BY DEF IInv, TypeOK, world
<1>2. ASSUME UNCHANGED <<locks, selected>>, frames' = << >> \/ frames # << >>,
             decisions' = decisions \/ \E c \in Claim : decisions' = Append(decisions, c)
      PROVE  LocksOK'
  <2>1. RefutedSoFar => RefutedSoFar'
    BY <1>1, <1>2, RefutedStays
  <2>2. Selected' = Selected
    BY <1>2 DEF Selected
  <2>3. QED
    BY <1>1, <1>2, <2>1, <2>2 DEF LocksOK, locks
<1>3. CASE UNCHANGED walk \/ Finish
  <2>1. UNCHANGED <<locks, selected, frames, decisions>>
    BY <1>3 DEF walk, Finish, graph
  <2>2. QED
    BY <1>2, <2>1
<1>4. CASE Start
  <2>1. frames = << >> /\ UNCHANGED <<provided, selected, decisions>>
    BY <1>4 DEF Start, graph
  <2>2. Selected' = {}
    BY <1>1, <2>1 DEF StackOK, Selected
  <2>3. CASE ValidStart
    <3>1. /\ lockRefs' = root.locks
          /\ unapplied' = IF provided = None THEN {} ELSE provided.packages
      BY <1>4, <2>3 DEF Start
    <3>2. QED
      BY <1>1, <2>1, <2>2, <3>1 DEF LocksOK
  <2>4. CASE ~ ValidStart
    <3>1. UNCHANGED <<frames, lockRefs, unapplied>>
      BY <1>4, <2>4 DEF Start
    <3>2. QED
      BY <1>1, <2>1, <2>2, <3>1 DEF LocksOK
  <2>5. QED
    BY <2>3, <2>4
<1>5. CASE ApplyLock
  <2>1. PICK l \in unapplied : MergeLock(l) /\ unapplied' = unapplied \ {l}
    BY <1>5 DEF ApplyLock
  <2>2. l \in LockEntry
    BY <1>1, <2>1 DEF TypeOK
  <2>3. frames # << >> /\ UNCHANGED <<provided, frames, selected>>
    BY <1>5 DEF ApplyLock, Running, graph
  <2>4. Selected' = {}
    BY <1>1, <2>1, <2>3 DEF LocksOK, Selected
  <2>5. /\ \A p \in Package : root.locks[p] # None => lockRefs'[p] = root.locks[p]
        /\ root.locks[l.name] \in {None, l.digest} \/ RefutedSoFar'
    BY <2>1, <2>2, <2>3, LockMerged
  <2>6. decisions' = decisions \/ \E c \in Claim : decisions' = Append(decisions, c)
    BY <1>1, <2>1, <2>2, MergedTypes
  <2>7. RefutedSoFar => RefutedSoFar'
    BY <1>1, <2>6, RefutedStays
  <2>8. QED
    BY <1>1, <2>1, <2>3, <2>4, <2>5, <2>7 DEF LocksOK
<1>6. CASE \/ \E i \in Import : Skipped(i)
           \/ \E i \in Import : \E c \in Claim : Objected(i, c)
           \/ \E i \in Import : Rejoined(i)
  BY <1>2, <1>6 DEF Skipped, Objected, Rejoined
<1>7. ASSUME NEW i \in Import, NEW choice \in Choice, Joined(i, choice)
      PROVE  LocksOK'
  <2>1. /\ frames # << >> /\ unapplied = {} /\ UNCHANGED <<locks, decisions>>
        /\ choice.entry \in LockedCandidates(i)
    BY <1>7 DEF Joined
  <2>2. /\ Selected' = Selected \cup {i.pkg} /\ selected'[i.pkg] = choice
        /\ \A p \in Package \ {i.pkg} : selected'[p] = selected[p]
    BY <1>1, <1>7, SelectedJoined DEF Joined
  <2>3. lockRefs[i.pkg] \in {None, choice.entry.digest}
    BY <2>1 DEF LockedCandidates
  <2>4. \A p \in Selected' : lockRefs'[p] \in {None, selected'[p].entry.digest}
    BY <1>1, <2>1, <2>2, <2>3 DEF LocksOK, locks, Selected
  <2>5. RefutedSoFar' = RefutedSoFar
    BY <2>1 DEF RefutedSoFar
  <2>6. QED
    BY <1>1, <2>1, <2>4, <2>5 DEF LocksOK, locks
<1>8. CASE Return
  <2>1. UNCHANGED <<locks, selected, decisions>> /\ frames # << >>
    BY <1>1, <1>8 DEF Return, Running
  <2>2. QED
    BY <1>2, <2>1
<1>9. CASE Replay
  BY <1>9, Replayed DEF LocksOK
<1>10. QED
  BY <1>3, <1>4, <1>5, <1>6, <1>7, <1>8, <1>9 DEF WalkStep

-------------------------------------------------------------------------------
(* The end.                                                                *)

LEMMA EndStep ==
    ASSUME IInv, WalkStep
    PROVE  EndOK'
<1>1. /\ EndOK /\ TypeOK /\ StackOK /\ frames \in Seq(Frame)
  BY DEF IInv, TypeOK
<1>2. CASE UNCHANGED walk
  BY <1>1, <1>2 DEF walk, locks, EndOK
<1>3. CASE outcome = None /\ outcome' \in {None, errorClaim}
  BY <1>3 DEF EndOK
<1>4. CASE Finish
  <2>1. /\ UNCHANGED <<frames, decisions, unapplied>> /\ unapplied = {}
        /\ Len(frames) = 1 /\ frames[1].todo = {} /\ frames # << >>
        /\ finalClaim(ClaimOrder, decisions, outcome')
    BY <1>4 DEF Finish, Top, Running, locks
  <2>2. QED
    BY <2>1 DEF EndOK
<1>5. CASE Replay
  BY <1>3, <1>5, Replayed DEF EndOK
<1>6. QED
  BY <1>2, <1>3, <1>4, <1>5
  DEF WalkStep, Start, ApplyLock, Running, Skipped, Objected, Rejoined, Joined, Return

-------------------------------------------------------------------------------
(* The theorems.                                                           *)

LEMMA Initially == Init => IInv
<1> SUFFICES ASSUME Init PROVE IInv
  OBVIOUS
<1>1. Selected = {} /\ Open = {} /\ Links = {} /\ Len(frames) = 0
  BY DEF Init, Selected, Open, Links
<1>2. TypeOK /\ DiskOK
  <2>1. provided = None \/ provided \in Lockfile
    BY WorldAssumption DEF Init
  <2>2. lockRefs \in [Package -> Bytes \cup {None}]
    BY DEF Init
  <2>3. rewrites \in 0 .. MaxRewrites
    BY WorldAssumption DEF Init
  <2>4. QED
    BY <2>1, <2>2, <2>3, WorldAssumption DEF Init, TypeOK, DiskOK
<1>3. ProbeOK /\ StackOK /\ EdgesOK /\ Accounted /\ PathOK /\ LocksOK
  BY <1>1 DEF Init, ProbeOK, StackOK, EdgesOK, Accounted, PathOK, LocksOK
<1>4. WalkedOnce /\ SelectedOnEvidence
  BY <1>1 DEF Init, WalkedOnce, SelectedOnEvidence
<1>5. Acyclic
  BY <1>1 DEF Acyclic, Graph!IsAcyclic
<1>6. EndOK
  BY DEF Init, EndOK
<1>7. QED
  BY <1>2, <1>3, <1>4, <1>5, <1>6 DEF IInv

LEMMA Inductive == IInv /\ [Next]_vars => IInv'
<1> SUFFICES ASSUME IInv, [Next]_vars
             PROVE  IInv'
  OBVIOUS
<1>1. WalkStep /\ UNCHANGED world /\ (rewrites' = 0 => rewrites = 0)
  BY WalkSteps, DiskTyped
<1>2. QED
  BY <1>1, TypeStep, ProbeSteps, StackStep, WalkedOnceStep, EvidenceStep, EdgesStep,
     AcyclicStep, PathStep, AccountedStep, LocksStep, EndStep
  DEF IInv

(* The invariant holds of every resolution and of its replay.              *)
THEOREM Invariance == Spec => []IInv
  BY Initially, Inductive, PTL DEF Spec

(* However files change and candidates fail, the state keeps its type.     *)
THEOREM Typing == Spec => []TypeOK
  BY Invariance, PTL DEF IInv

(* Packages are open or visited, not both, and none is walked twice.       *)
THEOREM Walking == Spec => []WalkedOnce
  BY Invariance, PTL DEF IInv

(* Whatever is selected had the evidence the catalog promises when it was  *)
(* read, and the catalog's bytes unless a file was rewritten.              *)
THEOREM Evidence == Spec => []SelectedOnEvidence
  BY Invariance, PTL DEF IInv

(* The links of a resolution never close a cycle.                          *)
THEOREM Acyclicity == Spec => []Acyclic
  BY Invariance, PTL DEF IInv

LEMMA EndSkips == IInv => SkippedOnlyOnCycle
<1> SUFFICES ASSUME IInv, outcome = closedClaim,
                    NEW p \in Selected \cup {Root}, NEW i \in ImportsOf(p)
             PROVE  Linked(p, i) \/ (i.pkg \in Selected /\ Reaches(i.pkg, p))
  BY DEF SkippedOnlyOnCycle
<1>1. outcome \notin {None, errorClaim}
  BY WorldAssumption DEF closedClaim, errorClaim, Closed
<1>2. /\ finalClaim(ClaimOrder, decisions, closedClaim)
      /\ frames # << >> /\ Len(frames) = 1 /\ frames[1].todo = {}
  BY <1>1 DEF IInv, EndOK
<1>3. decisions = << >>
  <2>1. \A k \in DOMAIN decisions : decisions[k] \in Claim
    BY DEF IInv, TypeOK
  <2>2. closedClaim \notin Claim
    <3>1. \A c \in Claim : c.state \in {Refuted, Unknown}
      BY DEF Claim, ClaimSet
    <3>2. closedClaim.state = Closed
      BY DEF closedClaim
    <3>3. QED
      BY <3>1, <3>2 DEF Refuted, Unknown, Closed
  <2>3. QED
    BY <1>2, <2>1, <2>2 DEF finalClaim
<1>4. ~ Waiting(p, i)
  BY <1>2 DEF Waiting
<1>5. Linked(p, i) \/ OnCycle(p, i)
  BY <1>2, <1>3, <1>4 DEF IInv, Accounted
<1>6. QED
  BY <1>5 DEF OnCycle, Leads, Reaches

(* CLOSED leaves an import without a link only where the link would close  *)
(* a cycle.                                                                *)
THEOREM Skipping == Spec => []SkippedOnlyOnCycle
  BY Invariance, EndSkips, PTL

-------------------------------------------------------------------------------
(* The verdict.                                                            *)

(* The claim a resolution ends with has the worst state found.             *)
LEMMA FinalState ==
    ASSUME TypeOK, NEW c, finalClaim(ClaimOrder, decisions, c)
    PROVE  c.state = Graph!Worst /\ c # None
<1>1. CASE decisions = << >>
  <2>1. c = closedClaim /\ Flaws = {}
    BY <1>1 DEF finalClaim, Flaws
  <2>2. QED
    BY <2>1, WorldAssumption DEF closedClaim, Closed, Graph!Worst
<1>2. CASE decisions # << >>
  <2>1. PICK k \in DOMAIN decisions :
            /\ c = decisions[k]
            /\ \A j \in DOMAIN decisions : ~ Precedes(ClaimOrder, decisions[j], decisions[k])
    BY <1>2 DEF finalClaim
  <2>2. \A j \in DOMAIN decisions : decisions[j] \in Claim
    BY DEF TypeOK
  <2>3. \A d \in Claim : d.state \in {Refuted, Unknown}
    BY DEF Claim, ClaimSet
  <2>4. \A j \in DOMAIN decisions : decisions[j].state = Refuted => c.state = Refuted
    BY <2>1, <2>2, <2>3 DEF Precedes, StateRank, Refuted, Unknown
  <2>5. c \in Claim /\ c.state \in Flaws
    BY <2>1, <2>2 DEF Flaws
  <2>6. CASE c.state = Refuted
    BY <2>5, <2>6, WorldAssumption DEF Graph!Worst, Refuted
  <2>7. CASE c.state = Unknown
    <3>1. "REFUTED" \notin Flaws
      BY <2>4, <2>7 DEF Flaws, Refuted, Unknown
    <3>2. QED
      BY <2>5, <2>7, <3>1, WorldAssumption DEF Graph!Worst, Unknown
  <2>8. QED
    BY <2>3, <2>5, <2>6, <2>7
<1>3. QED
  BY <1>1, <1>2

LEMMA LocksAssert == IInv => LocksAreAssertions
<1> SUFFICES ASSUME IInv PROVE LocksAreAssertions
  OBVIOUS
<1>1. \A p \in Selected : lockRefs[p] \in {None, selected[p].entry.digest}
  BY DEF IInv, LocksOK
<1>2. ASSUME outcome \notin {None, errorClaim}, provided # None,
             NEW l \in provided.packages, root.locks[l.name] \notin {None, l.digest}
      PROVE  outcome.state = Refuted
  <2>1. finalClaim(ClaimOrder, decisions, outcome) /\ frames # << >> /\ unapplied = {}
    BY <1>2 DEF IInv, EndOK
  <2>2. RefutedSoFar
    BY <1>2, <2>1 DEF IInv, LocksOK
  <2>3. "REFUTED" \in Flaws
    BY <2>2 DEF RefutedSoFar, Flaws, Refuted
  <2>4. outcome.state = Graph!Worst
    BY <2>1, FinalState DEF IInv
  <2>5. QED
    BY <2>3, <2>4 DEF Graph!Worst, Refuted
<1>3. QED
  BY <1>1, <1>2 DEF LocksAreAssertions

(* A lock is an assertion: nothing is selected against it, and a lockfile  *)
(* that contradicts the root's locks refutes the resolution.               *)
THEOREM Locking == Spec => []LocksAreAssertions
  BY Invariance, LocksAssert, PTL

-------------------------------------------------------------------------------
(* The resolver implements LinkGraph.                                      *)

LEMMA GraphInitially == Init => Graph!Init
  BY DEF Init, Graph!Init, Selected, Links, Flaws, Verdict

shown == <<Selected, Links, Flaws, Verdict>>

LEMMA GraphSteps ==
    ASSUME IInv, WalkStep
    PROVE  Replay \/ [Graph!Next]_shown
<1>1. /\ TypeOK /\ StackOK /\ WalkedOnce /\ decisions \in Seq(Claim)
      /\ frames \in Seq(Frame)
  BY DEF IInv, TypeOK
<1>2. ASSUME UNCHANGED <<selected, edges, decisions, outcome>>
      PROVE  UNCHANGED shown
  BY <1>2 DEF shown, Selected, Links, Flaws, Verdict
<1>3. CASE Start
  <2>1. CASE ValidStart
    BY <1>2, <1>3, <2>1 DEF Start, graph
  <2>2. CASE ~ ValidStart
    <3>1. /\ outcome = None /\ outcome' = errorClaim /\ decisions = << >> /\ Selected = {}
          /\ UNCHANGED <<selected, edges, decisions>>
      BY <1>1, <1>3, <2>2 DEF Start, StackOK, graph
    <3>2. Verdict = None /\ Verdict' = "ERROR"
      BY <3>1, WorldAssumption DEF Verdict, errorClaim
    <3>3. Flaws = {}
      BY <3>1 DEF Flaws
    <3>4. UNCHANGED <<Selected, Links, Flaws>>
      BY <3>1 DEF Selected, Links, Flaws
    <3>5. Graph!Reject
      BY <3>1, <3>2, <3>3, <3>4 DEF Graph!Reject
    <3>6. QED
      BY <3>5 DEF Graph!Next
  <2>3. QED
    BY <2>1, <2>2
<1>4. ASSUME NEW c \in Claim, outcome = None, decisions' = Append(decisions, c),
             UNCHANGED <<selected, edges, outcome>>
      PROVE  Graph!Next
  <2>1. Flaws' = Flaws \cup {c.state}
    <3>1. /\ DOMAIN decisions' = DOMAIN decisions \cup {Len(decisions) + 1}
          /\ decisions'[Len(decisions) + 1] = c
          /\ \A k \in DOMAIN decisions : decisions'[k] = decisions[k]
      BY <1>1, <1>4
    <3>2. QED
      BY <3>1 DEF Flaws
  <2>2. c.state \in {"REFUTED", "UNKNOWN"}
    BY DEF Claim, ClaimSet, Refuted, Unknown
  <2>3. Verdict = None /\ UNCHANGED <<Selected, Links, Verdict>>
    BY <1>4 DEF Selected, Links, Verdict
  <2>4. Graph!Flaw(c.state)
    BY <2>1, <2>3 DEF Graph!Flaw
  <2>5. QED
    BY <2>2, <2>4 DEF Graph!Next
<1>5. ASSUME NEW i \in Import, frames # << >>, outcome = None,
             Selected' = Selected \cup {i.pkg}, Links' = Links \cup {<<Top.pkg, i.pkg>>},
             UNCHANGED <<decisions, outcome>>
      PROVE  Graph!Next
  <2>1. Verdict = None /\ UNCHANGED <<Flaws, Verdict>>
    BY <1>5 DEF Flaws, Verdict
  <2>2. /\ Top.pkg \in Selected \cup {Root} /\ Selected \subseteq Package
        /\ i.pkg \in Package
    BY <1>5, TopPackage, ImportTypes DEF Selected
  <2>3. Graph!IsAcyclic(Links')
    BY AcyclicStep DEF Acyclic, Graph!IsAcyclic
  <2>4. Graph!Link(Top.pkg, i.pkg)
    BY <1>5, <2>1, <2>2, <2>3 DEF Graph!Link
  <2>5. QED
    BY <2>2, <2>4 DEF Graph!Next
<1>6. CASE \E i \in Import : Rejoined(i)
  <2>1. PICK i \in Import : Rejoined(i)
    BY <1>6
  <2>2. Selected' = Selected \cup {i.pkg}
    BY <1>1, <2>1 DEF Rejoined, WalkedOnce, Selected
  <2>3. QED
    BY <1>5, <2>1, <2>2, NewEdge DEF Rejoined
<1>7. CASE \E i \in Import : \E choice \in Choice : Joined(i, choice)
  <2>1. PICK i \in Import, choice \in Choice : Joined(i, choice)
    BY <1>7
  <2>2. Selected' = Selected \cup {i.pkg}
    BY <1>1, <2>1, SelectedJoined DEF Joined
  <2>3. QED
    BY <1>5, <2>1, <2>2, NewEdge DEF Joined
<1>8. CASE Finish
  <2>1. /\ outcome = None /\ finalClaim(ClaimOrder, decisions, outcome')
        /\ UNCHANGED <<selected, edges, decisions>>
    BY <1>8 DEF Finish, Running, graph
  <2>2. outcome'.state = Graph!Worst /\ outcome' # None
    BY <1>1, <2>1, FinalState
  <2>3. Verdict = None /\ Verdict' = Graph!Worst
    BY <2>1, <2>2 DEF Verdict
  <2>4. UNCHANGED <<Selected, Links, Flaws>>
    BY <2>1 DEF Selected, Links, Flaws
  <2>5. Graph!Conclude
    BY <2>3, <2>4 DEF Graph!Conclude
  <2>6. QED
    BY <2>5 DEF Graph!Next
<1>9. CASE UNCHANGED walk \/ Return \/ \E i \in Import : Skipped(i)
  BY <1>2, <1>9 DEF walk, Return, Skipped
<1>10. CASE ApplyLock
  <2>1. PICK l \in unapplied : MergeLock(l)
    BY <1>10 DEF ApplyLock
  <2>2. l \in LockEntry
    BY <1>1, <2>1 DEF TypeOK
  <2>3. UNCHANGED <<selected, edges, outcome>> /\ outcome = None
    BY <1>10 DEF ApplyLock, graph, Running
  <2>4. CASE decisions' = decisions
    BY <1>2, <2>3, <2>4
  <2>5. CASE decisions' # decisions
    <3>1. \E c \in Claim : decisions' = Append(decisions, c)
      BY <1>1, <2>1, <2>2, <2>5, MergedTypes
    <3>2. QED
      BY <1>4, <2>3, <3>1
  <2>6. QED
    BY <2>4, <2>5
<1>11. CASE \E i \in Import : \E c \in Claim : Objected(i, c)
  BY <1>4, <1>11 DEF Objected
<1>12. QED
  BY <1>3, <1>6, <1>7, <1>8, <1>9, <1>10, <1>11 DEF WalkStep

(* A replay is a step of its own: it starts a new graph.                   *)
LEMMA ReplayRecords ==
    ASSUME IInv, Replay
    PROVE  first' # first
<1>1. TypeOK
  BY DEF IInv
<1>2. outcome \in {closedClaim} \cup Claim /\ provided \in {None} \cup Lockfile
  BY <1>1 DEF Replay, TypeOK
<1>3. first' \in Finished
  BY <1>1, <1>2 DEF Replay, TypeOK, Finished
<1>4. QED
  BY <1>3, WorldAssumption DEF Replay

(* Every resolution, and every replay of one, is one of LinkGraph: acyclic *)
(* at every step, with the verdict of the worst claim.                     *)
THEOREM Implementation == Spec => ImplementsLinkGraph
<1>1. IInv /\ [Next]_vars
        => [Graph!Next \/ first' # first]_<<Selected, Links, Flaws, Verdict>>
  BY WalkSteps, GraphSteps, ReplayRecords DEF shown
<1>2. QED
  BY <1>1, GraphInitially, Invariance, PTL DEF Spec, ImplementsLinkGraph
-------------------------------------------------------------------------------
(* The recursion runs out.                                                 *)

(* What a probe reads it has not tried.                                    *)
ReadsUntried ==
    probe # None /\ probe.reading # None => probe.reading.entry \in probe.untried

LEMMA ReadsUntriedStep ==
    ASSUME IInv, ReadsUntried, [Next]_vars
    PROVE  ReadsUntried'
<1>1. TypeOK /\ ProbeOK /\ (probe = None \/ probe \in Probe)
  BY DEF IInv, TypeOK
<1>2. CASE probe' = None \/ probe' = probe
  BY <1>2 DEF ReadsUntried
<1>3. CASE ReadCandidate
  <2>1. probe \in Probe /\ probe # None
    BY <1>1, <1>3 DEF ReadCandidate, Inspecting
  <2>2. PICK e \in NextCandidates :
            probe' = [probe EXCEPT !.reading = [entry |-> e, data |-> files[e.path]]]
    BY <1>3 DEF ReadCandidate
  <2>3. probe'.untried = probe.untried /\ probe'.reading.entry = e /\ e \in probe.untried
    BY <2>1, <2>2 DEF Probe, NextCandidates
  <2>4. QED
    BY <2>3 DEF ReadsUntried
<1>4. ASSUME NEW e, NEW c, probe \in Probe, probe' = Refuse(e, c)
      PROVE  ReadsUntried'
  BY <1>4 DEF ReadsUntried, Refuse, Probe
<1>5. CASE ReadUnavailable \/ RefuseCandidate
  BY <1>1, <1>4, <1>5 DEF ReadUnavailable, RefuseCandidate, Inspecting, Reading
<1>6. CASE \E i \in Pending : BeginProbe(i)
  BY <1>6 DEF BeginProbe, ReadsUntried
<1>7. CASE UNCHANGED vars \/ Rewrite \/ Start \/ ApplyLock \/ Return \/ Finish
  BY <1>2, <1>7 DEF vars, Rewrite, Start, ApplyLock, Return, Finish
<1>8. CASE SelectCandidate \/ ExhaustCandidates \/ Replay
  BY <1>2, <1>8 DEF SelectCandidate, ExhaustCandidates, Replay
<1>9. CASE \E i \in Pending : SkipOpen(i) \/ RefuseSelected(i) \/ LinkSelected(i)
  BY <1>2, <1>9 DEF SkipOpen, RefuseSelected, LinkSelected
<1>10. CASE \E i \in Pending : RefuteNoVersion(i) \/ RefuteLock(i)
  BY <1>2, <1>10 DEF RefuteNoVersion, RefuteLock
<1>11. QED
  BY <1>3, <1>5, <1>6, <1>7, <1>8, <1>9, <1>10 DEF Next, Step

(* Something at place k is done, and what weighs more stays.               *)
LEMMA Weighs ==
    ASSUME NEW k \in 1 .. 9,
           Remaining'[k] \subseteq Remaining[k], Remaining'[k] # Remaining[k],
           \A j \in 1 .. 9 : j < k => Remaining'[j] = Remaining[j]
    PROVE  LessRemains(Remaining', Remaining)
<1>1. DOMAIN Remaining = 1 .. 9
  BY DEF Remaining
<1>2. QED
  BY <1>1 DEF LessRemains

(* Turning to an import takes it from those that wait.                     *)
LEMMA HandledWaits ==
    ASSUME TypeOK, WalkedOnce, frames # << >>, NEW i \in Top.todo,
           frames' = Handled(i), visited' = visited
    PROVE  Walked' = Walked /\ Waits' \subseteq Waits /\ Waits' # Waits
<1>1. /\ frames \in Seq(Frame) /\ frames' \in Seq(Frame) /\ Len(frames') = Len(frames)
      /\ \A k \in 1 .. Len(frames) : frames'[k].pkg = frames[k].pkg
      /\ \A k \in 1 .. Len(frames) : k # Len(frames) => frames'[k] = frames[k]
      /\ frames'[Len(frames)].todo = Top.todo \ {i}
  BY HandledFrames DEF TypeOK
<1>2. DOMAIN frames = 1 .. Len(frames) /\ DOMAIN frames' = 1 .. Len(frames)
      /\ Len(frames) \in 1 .. Len(frames)
  BY <1>1
<1>3. Walked' = Walked
  BY <1>1, <1>2 DEF Walked
<1>4. \A k \in 1 .. Len(frames) : frames'[k].todo \subseteq frames[k].todo
  BY <1>1 DEF Top
<1>5. Waits' \subseteq Waits
  <2>1. ASSUME NEW x \in Waits'
        PROVE  x \in Waits
    <3>1. PICK k \in 1 .. Len(frames) : x \in {frames'[k].pkg} \X frames'[k].todo
      BY <1>2, <2>1 DEF Waits
    <3>2. x \in {frames[k].pkg} \X frames[k].todo
      BY <1>1, <1>4, <3>1
    <3>3. QED
      BY <1>2, <3>2 DEF Waits
  <2>2. QED
    BY <2>1
<1>6. <<Top.pkg, i>> \in Waits
  BY <1>2 DEF Waits, Top
<1>7. <<Top.pkg, i>> \notin Waits'
  <2>1. SUFFICES ASSUME NEW k \in 1 .. Len(frames), frames'[k].pkg = Top.pkg,
                        i \in frames'[k].todo
                 PROVE  FALSE
    BY <1>2 DEF Waits
  <2>2. k = Len(frames)
    BY <1>1, <1>2, <2>1 DEF WalkedOnce, Top
  <2>3. QED
    BY <1>1, <2>1, <2>2
<1>8. QED
  BY <1>3, <1>5, <1>6, <1>7

LEMMA HandledLess ==
    ASSUME IInv, frames # << >>, NEW i \in Top.todo, frames' = Handled(i),
           UNCHANGED <<visited, outcome, unapplied>>
    PROVE  LessRemains(Remaining', Remaining)
<1>1. Walked' = Walked /\ Waits' \subseteq Waits /\ Waits' # Waits
  BY HandledWaits DEF IInv
<1>2. frames' # << >>
  BY DEF Handled, IInv, TypeOK
<1>3. /\ Remaining'[6] \subseteq Remaining[6] /\ Remaining'[6] # Remaining[6]
      /\ \A j \in 1 .. 9 : j < 6 => Remaining'[j] = Remaining[j]
  BY <1>1, <1>2 DEF Remaining
<1>4. QED
  BY <1>3, Weighs

(* Selecting a package enters one that was not walked.                     *)
LEMMA SelectLess ==
    ASSUME IInv, SelectCandidate
    PROVE  LessRemains(Remaining', Remaining)
<1> DEFINE i == probe.imp
           choice == [entry |-> probe.reading.entry, bytes |-> Bytes2]
<1>1. /\ probe # None /\ frames # << >> /\ i.pkg \in Package /\ i.pkg \notin Open
      /\ selected[i.pkg] = None
  BY ProbeTypes, ImportTypes DEF SelectCandidate, Reading, IInv, ProbeOK
<1>2. i.pkg \notin visited
  BY <1>1 DEF IInv, WalkedOnce, Selected
<1>3. /\ frames' = Append(Handled(i), [pkg |-> i.pkg, todo |-> Parsed[choice.bytes].imports])
      /\ UNCHANGED <<visited, outcome, unapplied>>
  BY <1>1, <1>2 DEF SelectCandidate, walkDependencies, locks
<1>5. /\ Len(frames') = Len(frames) + 1 /\ DOMAIN frames' = 1 .. Len(frames) + 1
      /\ frames'[Len(frames) + 1].pkg = i.pkg /\ Len(frames) \in Nat
      /\ \A k \in 1 .. Len(frames) : frames'[k].pkg = frames[k].pkg
  <2> DEFINE new == [pkg |-> i.pkg, todo |-> Parsed[choice.bytes].imports]
  <2>1. i \in Import /\ choice \in Choice
    <3>1. probe.reading.entry \in Entry /\ i \in Import
      BY <1>1, ProbeTypes DEF SelectCandidate, Reading, IInv
    <3>2. Bytes2 \in Sources
      BY <3>1, Bytes2Type, InspectAccepts DEF SelectCandidate, Objection, Bytes2, IInv
    <3>3. QED
      BY <3>1, <3>2 DEF Choice
  <2> HIDE DEF i, choice
  <2>2. new \in Frame /\ new.pkg = i.pkg
    BY <2>1, OpenedFrame
  <2>3. frames' = Append(Handled(i), new)
    BY <1>3
  <2> HIDE DEF new
  <2>4. /\ frames' \in Seq(Frame) /\ Len(frames') = Len(frames) + 1
        /\ frames'[Len(frames) + 1] = new
        /\ \A k \in 1 .. Len(frames) : frames'[k].pkg = frames[k].pkg
    BY <1>1, <2>2, <2>3, PushedFrames DEF IInv, TypeOK
  <2>5. QED
    BY <2>2, <2>4 DEF IInv, TypeOK
<1>6. DOMAIN frames = 1 .. Len(frames)
  BY DEF IInv, TypeOK
<1>7. Walked' = Walked \cup {i.pkg}
  BY <1>3, <1>5, <1>6 DEF Walked
<1>8. i.pkg \notin Walked
  <2>1. \A k \in 1 .. Len(frames) : k = 1 \/ k \in 2 .. Len(frames)
    BY <1>5
  <2>2. frames[1].pkg # i.pkg
    BY <1>1, WorldAssumption DEF IInv, StackOK
  <2>3. QED
    BY <1>1, <1>2, <1>6, <2>1, <2>2 DEF Walked, Open
<1>9. frames' # << >>
  BY <1>5
<1>10. /\ Remaining'[4] \subseteq Remaining[4] /\ Remaining'[4] # Remaining[4]
       /\ \A j \in 1 .. 9 : j < 4 => Remaining'[j] = Remaining[j]
  BY <1>1, <1>3, <1>7, <1>8, <1>9 DEF Remaining
<1>11. QED
  BY <1>10, Weighs

(* Returning leaves a package that was open.                               *)
LEMMA ReturnLess ==
    ASSUME IInv, Return
    PROVE  LessRemains(Remaining', Remaining)
<1>1. /\ frames # << >> /\ Len(frames) > 1 /\ visited' = visited \cup {Top.pkg}
      /\ frames' = SubSeq(frames, 1, Len(frames) - 1)
      /\ UNCHANGED <<outcome, unapplied>> /\ frames \in Seq(Frame) /\ Len(frames) \in Nat
  BY DEF Return, Running, IInv, TypeOK, locks
<1>2. /\ Len(frames') = Len(frames) - 1 /\ frames' # << >>
      /\ DOMAIN frames' = 1 .. Len(frames) - 1 /\ DOMAIN frames = 1 .. Len(frames)
      /\ \A k \in 1 .. Len(frames) - 1 : frames'[k] = frames[k]
  <2>1. /\ frames' \in Seq(Frame) /\ Len(frames') = Len(frames) - 1
        /\ \A k \in 1 .. Len(frames) - 1 : frames'[k] = frames[k]
    BY <1>1, PoppedFrames
  <2>2. \A f \in Seq(Frame) : DOMAIN f = 1 .. Len(f) /\ (Len(f) > 0 => f # << >>)
    OBVIOUS
  <2>3. Len(frames') > 0
    BY <1>1, <2>1
  <2>4. frames \in Seq(Frame)
    BY <1>1
  <2>5. QED
    BY <2>1, <2>2, <2>3, <2>4
<1>3. Top.pkg \in Open /\ Top.pkg \in Package /\ Top.pkg \notin visited
  BY <1>1 DEF Top, Open, IInv, WalkedOnce, StackOK
<1>4. \A k \in 1 .. Len(frames) : k = Len(frames) \/ k \in 1 .. Len(frames) - 1
  BY <1>1
<1>5. Walked' = Walked
  <2>1. {frames[k].pkg : k \in 1 .. Len(frames)}
            = {frames'[k].pkg : k \in 1 .. Len(frames) - 1} \cup {Top.pkg}
    <3>1. {frames'[k].pkg : k \in 1 .. Len(frames) - 1}
              = {frames[k].pkg : k \in 1 .. Len(frames) - 1}
      BY <1>2
    <3>2. {frames[k].pkg : k \in 1 .. Len(frames)}
              = {frames[k].pkg : k \in 1 .. Len(frames) - 1} \cup {frames[Len(frames)].pkg}
      BY <1>1, <1>4
    <3>3. QED
      BY <3>1, <3>2 DEF Top
  <2>2. Walked = visited \cup {frames[k].pkg : k \in 1 .. Len(frames)}
    BY <1>2 DEF Walked
  <2>3. Walked' = visited' \cup {frames'[k].pkg : k \in 1 .. Len(frames) - 1}
    BY <1>2 DEF Walked
  <2>4. QED
    BY <1>1, <2>1, <2>2, <2>3
<1>6. /\ Remaining'[5] \subseteq Remaining[5] /\ Remaining'[5] # Remaining[5]
      /\ \A j \in 1 .. 9 : j < 5 => Remaining'[j] = Remaining[j]
  BY <1>1, <1>2, <1>3, <1>5 DEF Remaining
<1>7. QED
  BY <1>6, Weighs

(* Probing begins, tries and reads.                                        *)
LEMMA ProbeLess ==
    ASSUME IInv, ReadsUntried,
           \/ \E i \in Pending : BeginProbe(i)
           \/ ReadUnavailable \/ ReadCandidate \/ RefuseCandidate
    PROVE  LessRemains(Remaining', Remaining)
<1>1. UNCHANGED <<outcome, frames, unapplied, visited>>
  BY DEF BeginProbe, ReadUnavailable, ReadCandidate, RefuseCandidate, locks, graph
<1>2. \A j \in 1 .. 9 : j < 7 => Remaining'[j] = Remaining[j]
  <2>1. Walked' = Walked /\ Waits' = Waits
    BY <1>1 DEF Walked, Waits
  <2>2. /\ Remaining'[1] = Remaining[1] /\ Remaining'[2] = Remaining[2]
        /\ Remaining'[3] = Remaining[3] /\ Remaining'[4] = Remaining[4]
        /\ Remaining'[5] = Remaining[5] /\ Remaining'[6] = Remaining[6]
    BY <1>1, <2>1 DEF Remaining, Due
  <2>3. QED
    BY <2>2
<1>3. CASE \E i \in Pending : BeginProbe(i)
  <2>1. PICK i \in Pending : BeginProbe(i)
    BY <1>3
  <2>2. probe = None /\ probe' \in Probe
    <3>1. probe = None
      BY <2>1 DEF BeginProbe, Fresh, Current
    <3>2. LockedCandidates(i) \subseteq Entry /\ i \in Import
      BY PendingTypes DEF LockedCandidates, candidates, IInv, TypeOK, Entry
    <3>3. QED
      BY <2>1, <3>1, <3>2 DEF BeginProbe, Probe
  <2>3. probe' # None
    BY <2>2, WorldAssumption
  <2>4. Remaining'[7] \subseteq Remaining[7] /\ Remaining'[7] # Remaining[7]
    BY <2>2, <2>3 DEF Remaining, Due
  <2>5. QED
    BY <1>2, <2>4, Weighs
<1>4. ASSUME NEW e, NEW c, probe \in Probe, probe # None, e \in probe.untried,
             probe' = Refuse(e, c), probe' # None
      PROVE  LessRemains(Remaining', Remaining)
  <2>1. probe'.untried = probe.untried \ {e}
    BY <1>4 DEF Refuse, Probe
  <2>2. /\ Remaining'[7] = Remaining[7]
        /\ Remaining'[8] \subseteq Remaining[8] /\ Remaining'[8] # Remaining[8]
    BY <1>4, <2>1 DEF Remaining, Due
  <2>3. \A j \in 1 .. 9 : j < 8 => Remaining'[j] = Remaining[j]
    BY <1>2, <2>2
  <2>4. QED
    BY <2>2, <2>3, Weighs
<1>5. CASE ReadUnavailable
  <2>1. probe \in Probe /\ probe # None
    BY <1>5, ProbeTypes DEF ReadUnavailable, Inspecting, IInv
  <2>2. PICK e \in NextCandidates :
            probe' = Refuse(e, unknownClaim("PACKAGE_SOURCE_UNAVAILABLE", e.name))
    BY <1>5 DEF ReadUnavailable
  <2>3. e \in probe.untried /\ e \in Entry /\ e.name \in Package
    BY <2>1, <2>2, WorldAssumption DEF NextCandidates, Probe, IsEntry
  <2>4. unknownClaim("PACKAGE_SOURCE_UNAVAILABLE", e.name) \in Claim
    BY <2>3, RaisedClaims DEF ClaimOrder
  <2>5. probe' # None
    BY <2>1, <2>2, <2>3, <2>4, RefusedProbe, WorldAssumption
  <2>6. QED
    BY <1>4, <2>1, <2>2, <2>3, <2>5
<1>6. CASE RefuseCandidate
  <2>1. probe \in Probe /\ probe # None /\ probe.reading # None
        /\ Objection # None /\ probe' = Refuse(probe.reading.entry, Objection)
    BY <1>6, ProbeTypes DEF RefuseCandidate, Reading, IInv
  <2>2. probe.reading.entry \in probe.untried /\ probe.reading.entry \in Entry
    BY <2>1 DEF ReadsUntried, Probe
  <2>3. Objection \in Claim
    BY <2>1, <2>2, InspectClaim, Bytes2Type DEF Objection, Bytes2, IInv
  <2>4. probe' # None
    BY <2>1, <2>2, <2>3, RefusedProbe, WorldAssumption
  <2>5. QED
    BY <1>4, <2>1, <2>2, <2>4
<1>7. CASE ReadCandidate
  <2>1. probe \in Probe /\ probe # None /\ probe.reading = None
    BY <1>7, ProbeTypes DEF ReadCandidate, Inspecting, IInv
  <2>2. PICK e \in NextCandidates :
            /\ files[e.path] # None
            /\ probe' = [probe EXCEPT !.reading = [entry |-> e, data |-> files[e.path]]]
    BY <1>7 DEF ReadCandidate
  <2>3. e \in Entry /\ files[e.path] \in Bytes
    BY <2>1, <2>2, Bytes2Type DEF NextCandidates, Probe, IInv
  <2>4. [entry |-> e, data |-> files[e.path]] \in [entry : Entry, data : Bytes]
    BY <2>3
  <2>5. /\ probe' \in Probe /\ probe'.untried = probe.untried
        /\ probe'.reading = [entry |-> e, data |-> files[e.path]]
    BY <2>1, <2>2, <2>4 DEF Probe
  <2>6. probe' # None /\ probe'.reading # None
    <3>1. \A x \in [entry : Entry, data : Bytes] : x # None
      BY WorldAssumption
    <3>2. QED
      BY <2>4, <2>5, <3>1, WorldAssumption
  <2>7. /\ Remaining'[7] = Remaining[7] /\ Remaining'[8] = Remaining[8]
        /\ Remaining'[9] \subseteq Remaining[9] /\ Remaining'[9] # Remaining[9]
    BY <2>1, <2>5, <2>6 DEF Remaining, Due
  <2>8. \A j \in 1 .. 9 : j < 9 => Remaining'[j] = Remaining[j]
    BY <1>2, <2>7
  <2>9. QED
    BY <2>7, <2>8, Weighs
<1>8. QED
  BY <1>3, <1>5, <1>6, <1>7

(* The rest of the walk: it begins, merges a lock, is done with an import, *)
(* ends.                                                                   *)
LEMMA StartLess ==
    ASSUME IInv, Start
    PROVE  LessRemains(Remaining', Remaining)
<1>1. outcome = None /\ frames = << >> /\ unapplied' \in SUBSET LockEntry
  BY DEF Start, IInv, TypeOK, Lockfile
<1>2. CASE ~ ValidStart
  <2>1. outcome' # None
    BY <1>2, WorldAssumption DEF Start
  <2>2. Remaining'[1] \subseteq Remaining[1] /\ Remaining'[1] # Remaining[1]
    BY <1>1, <2>1 DEF Remaining, Due
  <2>3. QED
    BY <2>2, Weighs
<1>3. CASE ValidStart
  <2>1. outcome' = None /\ frames' # << >>
    BY <1>3 DEF Start
  <2>2. /\ Remaining'[1] = Remaining[1]
        /\ Remaining'[2] \subseteq Remaining[2] /\ Remaining'[2] # Remaining[2]
    BY <1>1, <2>1 DEF Remaining, Due
  <2>3. \A j \in 1 .. 9 : j < 2 => Remaining'[j] = Remaining[j]
    BY <2>2
  <2>4. QED
    BY <2>2, <2>3, Weighs
<1>4. QED
  BY <1>2, <1>3

LEMMA ApplyLockLess ==
    ASSUME IInv, ApplyLock
    PROVE  LessRemains(Remaining', Remaining)
<1>1. /\ UNCHANGED <<outcome, frames>>
      /\ \E l \in unapplied : unapplied' = unapplied \ {l}
  BY DEF ApplyLock
<1>2. /\ Remaining'[1] = Remaining[1] /\ Remaining'[2] = Remaining[2]
      /\ Remaining'[3] \subseteq Remaining[3] /\ Remaining'[3] # Remaining[3]
  BY <1>1 DEF Remaining, Due
<1>3. \A j \in 1 .. 9 : j < 3 => Remaining'[j] = Remaining[j]
  BY <1>2
<1>4. QED
  BY <1>2, <1>3, Weighs

LEMMA FinishLess ==
    ASSUME IInv, Finish
    PROVE  LessRemains(Remaining', Remaining)
<1>1. outcome = None /\ outcome' \in {closedClaim} \cup Claim
  BY DEF Finish, Running, IInv, TypeOK
<1>2. outcome' # None
  BY <1>1, WorldAssumption
<1>3. Remaining'[1] \subseteq Remaining[1] /\ Remaining'[1] # Remaining[1]
  BY <1>1, <1>2 DEF Remaining, Due
<1>4. QED
  BY <1>3, Weighs

LEMMA ImportLess ==
    ASSUME IInv,
           \/ ExhaustCandidates
           \/ \E i \in Pending : \/ SkipOpen(i) \/ RefuseSelected(i) \/ LinkSelected(i)
                                 \/ RefuteNoVersion(i) \/ RefuteLock(i)
    PROVE  LessRemains(Remaining', Remaining)
<1>1. CASE ExhaustCandidates
  <2>1. frames # << >> /\ probe.imp \in Top.todo /\ frames' = Handled(probe.imp)
    BY <1>1 DEF ExhaustCandidates, Decide, IInv, ProbeOK, Running
  <2>2. UNCHANGED <<visited, outcome, unapplied>>
    BY <1>1 DEF ExhaustCandidates, locks, graph
  <2>3. QED
    BY <2>1, <2>2, HandledLess
<1>2. ASSUME NEW i \in Pending,
             SkipOpen(i) \/ RefuseSelected(i) \/ RefuteNoVersion(i) \/ RefuteLock(i)
      PROVE  LessRemains(Remaining', Remaining)
  <2>1. frames # << >> /\ i \in Top.todo /\ frames' = Handled(i)
    BY <1>2, PendingTypes
    DEF IInv, SkipOpen, RefuseSelected, RefuteNoVersion, RefuteLock, Decide
  <2>2. UNCHANGED <<visited, outcome, unapplied>>
    BY <1>2 DEF SkipOpen, RefuseSelected, RefuteNoVersion, RefuteLock, locks, graph
  <2>3. QED
    BY <2>1, <2>2, HandledLess
<1>3. ASSUME NEW i \in Pending, LinkSelected(i)
      PROVE  LessRemains(Remaining', Remaining)
  <2>1. frames # << >> /\ i \in Top.todo /\ i.pkg \in Package
    BY PendingTypes DEF IInv
  <2>2. i.pkg \in visited
    BY <1>3, <2>1 DEF LinkSelected, Reuse, IInv, WalkedOnce, Selected
  <2>3. frames' = Handled(i) /\ UNCHANGED <<visited, outcome, unapplied>>
    BY <1>3, <2>2 DEF LinkSelected, walkDependencies, locks
  <2>4. QED
    BY <2>1, <2>3, HandledLess
<1>4. QED
  BY <1>1, <1>2, <1>3

LEMMA StepLess ==
    ASSUME IInv, ReadsUntried, Step
    PROVE  LessRemains(Remaining', Remaining)
  BY StartLess, ApplyLockLess, ImportLess, ProbeLess, SelectLess, ReturnLess, FinishLess
  DEF Step

LEMMA RewriteKeeps == Rewrite => Remaining' = Remaining
  BY DEF Rewrite, locks, graph, Remaining, Walked, Waits, Due

(* No step leaves as much to be done as before: with finitely many         *)
(* packages, imports, entries and locks the recursion of resolveImport and *)
(* walkDependencies comes to its end, cyclic imports included.             *)
THEOREM RunningOut == Spec => RunsOut
<1>1. Init => ReadsUntried
  BY DEF Init, ReadsUntried
<1>2. IInv /\ ReadsUntried /\ [Next]_vars => ReadsUntried'
  BY ReadsUntriedStep
<1>3. IInv /\ ReadsUntried /\ [Next]_vars
        => [/\ Step => LessRemains(Remaining', Remaining)
            /\ Rewrite => Remaining' = Remaining]_vars
  BY StepLess, RewriteKeeps
<1>4. QED
  BY <1>1, <1>2, <1>3, Invariance, PTL DEF Spec, RunsOut
===============================================================================
