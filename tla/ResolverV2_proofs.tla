--------------------------- MODULE ResolverV2_proofs ---------------------------
(***************************************************************************)
(* What holds of the v2 resolver for every catalog, consumer, file system  *)
(* and bound on rewrites.                                                  *)
(***************************************************************************)
EXTENDS ResolverV2, SequenceTheorems, WellFoundedInduction, TLAPS

-------------------------------------------------------------------------------
(* The predicates on imports and candidates.                               *)

(* A claim the resolver raises is a claim, and never None.                 *)
LEMMA RaisedClaims ==
    ASSUME NEW p \in Package
    PROVE  \A r \in DOMAIN ClaimOrder :
              /\ refutedClaim(r, p) \in Claim \ {None}
              /\ unknownClaim(r, p) \in Claim \ {None}
<1> SUFFICES ASSUME NEW r \in DOMAIN ClaimOrder
             PROVE  /\ refutedClaim(r, p) \in Claim \ {None}
                    /\ unknownClaim(r, p) \in Claim \ {None}
  OBVIOUS
<1> QED
  BY WorldAssumption DEF refutedClaim, unknownClaim, Claim, ClaimSet, Refuted, Unknown

(* v2ImportMatches answers with a claim or None.                           *)
LEMMA MatchClaim ==
    ASSUME NEW source, source.name \in Package, NEW imp
    PROVE  v2ImportMatches(source, imp) \in {None} \cup Claim
<1>1. \A r \in DOMAIN ClaimOrder : /\ refutedClaim(r, source.name) \in Claim
                                   /\ unknownClaim(r, source.name) \in Claim
  BY RaisedClaims
<1>2. QED
  BY <1>1 DEF v2ImportMatches, ClaimOrder

(* What inspectCandidate answers, and what it has seen when it accepts.    *)
LEMMA InspectClaim ==
    ASSUME NEW entry \in Entry, NEW imp, NEW data, NEW bytes \in Bytes \cup {None}
    PROVE  inspectCandidate(entry, imp, data, bytes) \in {None} \cup Claim
<1>1. \A r \in DOMAIN ClaimOrder : /\ refutedClaim(r, entry.name) \in Claim
                                   /\ unknownClaim(r, entry.name) \in Claim
  BY WorldAssumption, RaisedClaims DEF IsEntry
<1>2. bytes # None /\ Parsed[bytes] # None
        => v2ImportMatches(Parsed[bytes], imp) \in {None} \cup Claim
  BY MatchClaim, WorldAssumption DEF Sources
<1>3. QED
  BY <1>1, <1>2 DEF inspectCandidate, ClaimOrder

LEMMA InspectAccepts ==
    ASSUME NEW entry \in Entry, NEW imp, NEW data, NEW bytes \in Bytes \cup {None},
           inspectCandidate(entry, imp, data, bytes) = None
    PROVE  /\ bytes \in Sources /\ bytes = entry.digest
           /\ entry.name = Parsed[bytes].name
           /\ entry.identity = Parsed[bytes].identity
           /\ entry.identity.release # None /\ entry.identity.asset # None
           /\ entry.identity.toolchain = ContractId.toolchain
           /\ entry.identity.contract = ContractId.contract
           /\ entry.identity.symbols = exportedSymbolSetDigest(Parsed[bytes])
           /\ entry.identity = imp.identity
           /\ v2ImportMatches(Parsed[bytes], imp) = None
<1>1. \A r \in DOMAIN ClaimOrder : /\ refutedClaim(r, entry.name) # None
                                   /\ unknownClaim(r, entry.name) # None
  BY WorldAssumption, RaisedClaims DEF IsEntry
<1>2. /\ bytes # None /\ Parsed[bytes] # None
      /\ entry.identity.release # None /\ entry.identity.asset # None
      /\ DigestBound(entry, data, bytes)
      /\ entry.name = Parsed[bytes].name
      /\ entry.identity = Parsed[bytes].identity
      /\ Agrees(entry, Parsed[bytes], "toolchain", ContractId.toolchain)
      /\ Agrees(entry, Parsed[bytes], "contract", ContractId.contract)
      /\ exportedSymbolSetDigest(Parsed[bytes]) = entry.identity.symbols
      /\ identityMatchesImport(entry, imp)
      /\ v2ImportMatches(Parsed[bytes], imp) = None
  BY <1>1 DEF inspectCandidate, ClaimOrder
<1>3. QED
  BY <1>2 DEF Sources, DigestBound, Agrees, identityMatchesImport

-------------------------------------------------------------------------------
(* The inductive invariant.                                                *)

(* A probe inspects, for the import at hand, candidates of a package that  *)
(* is neither selected nor open.                                           *)
ProbeOK ==
    probe # None =>
        /\ Running /\ probe.imp \in Top.todo
        /\ probe.imp.pkg \notin Open /\ selected[probe.imp.pkg] = None
        /\ probe.untried \subseteq candidates(probe.imp)
        /\ probe.reading # None => probe.reading.entry \in candidates(probe.imp)

(* Before Start nothing has happened; then the root's frame is lowest.     *)
StackOK ==
    /\ frames = << >> => /\ Selected = {} /\ visited = {} /\ edges = {}
                         /\ decisions = << >> /\ outcome \in {None, errorClaim}
    /\ frames # << >> => frames[1].pkg = Root
    /\ \A k \in 2 .. Len(frames) : frames[k].pkg \in Package

(* Links join selected packages; out of a visited package they lead to     *)
(* visited ones, out of an open one to visited ones or to the next frame.  *)
EdgesOK ==
    \A e \in edges :
        /\ e.from \in Selected \cup {Root} /\ e.to \in Selected
        /\ e.from \in visited => e.to \in visited
        /\ \A k \in 2 .. Len(frames) :
              e.from = frames[k].pkg =>
                  \/ e.to \in visited
                  \/ k < Len(frames) /\ e.to = frames[k + 1].pkg

(* As long as there is no claim against the graph, every import of the     *)
(* root and of a selected package is linked or waits in a frame.           *)
Waiting(p, i) == \E k \in 1 .. Len(frames) : frames[k].pkg = p /\ i \in frames[k].todo
Accounted ==
    frames # << >> /\ decisions = << >> =>
        \A p \in Selected \cup {Root} : \A i \in ImportsOf(p) : Linked(p, i) \/ Waiting(p, i)

(* CLOSED comes only when no claim was raised and no import waits.         *)
EndOK ==
    outcome = closedClaim =>
        decisions = << >> /\ Len(frames) = 1 /\ frames[1].todo = {}

IInv ==
    /\ TypeOK /\ ProbeOK /\ StackOK /\ WalkedOnce
    /\ VerifiedSelection /\ EdgesOK /\ Acyclic /\ Accounted /\ EndOK

-------------------------------------------------------------------------------
(* The stack of frames.                                                    *)

(* Handling an import changes the to-do set of the top frame, no more.     *)
LEMMA HandledFrames ==
    ASSUME frames \in Seq(Frame), frames # << >>, NEW i
    PROVE  /\ Handled(i) \in Seq(Frame) /\ Len(Handled(i)) = Len(frames)
           /\ \A k \in 1 .. Len(frames) : Handled(i)[k].pkg = frames[k].pkg
           /\ \A k \in 1 .. Len(frames) : k # Len(frames) => Handled(i)[k] = frames[k]
           /\ Handled(i)[Len(frames)].todo = Top.todo \ {i}
<1>1. Len(frames) \in 1 .. Len(frames) /\ Len(frames) \in Nat \ {0}
  OBVIOUS
<1>2. Top \in Frame
  BY <1>1 DEF Top
<1>3. [Top EXCEPT !.todo = @ \ {i}] \in Frame
  BY <1>2 DEF Frame
<1>4. Handled(i) = [frames EXCEPT ![Len(frames)] = [Top EXCEPT !.todo = @ \ {i}]]
  BY DEF Handled, Top
<1> DEFINE top == [Top EXCEPT !.todo = @ \ {i}]
<1>5. top.pkg = Top.pkg /\ top.todo = Top.todo \ {i}
  BY <1>2 DEF Frame
<1>6. Handled(i) = [frames EXCEPT ![Len(frames)] = top] /\ top \in Frame
  BY <1>3, <1>4
<1> HIDE DEF top
<1>7. QED
  BY <1>1, <1>5, <1>6 DEF Top

(* Entering a package puts one frame on top of that.                       *)
LEMMA PushedFrames ==
    ASSUME frames \in Seq(Frame), frames # << >>, NEW i, NEW f \in Frame
    PROVE  /\ Append(Handled(i), f) \in Seq(Frame)
           /\ Len(Append(Handled(i), f)) = Len(frames) + 1
           /\ \A k \in 1 .. Len(frames) : Append(Handled(i), f)[k].pkg = frames[k].pkg
           /\ \A k \in 1 .. Len(frames) : k # Len(frames) => Append(Handled(i), f)[k] = frames[k]
           /\ Append(Handled(i), f)[Len(frames)].todo = Top.todo \ {i}
           /\ Append(Handled(i), f)[Len(frames) + 1] = f
<1>1. Len(frames) \in 1 .. Len(frames)
  OBVIOUS
<1>2. QED
  BY <1>1, HandledFrames

(* Returning takes the top frame off.                                      *)
LEMMA PoppedFrames ==
    ASSUME frames \in Seq(Frame), Len(frames) > 1
    PROVE  LET popped == SubSeq(frames, 1, Len(frames) - 1)
           IN  /\ popped \in Seq(Frame) /\ Len(popped) = Len(frames) - 1
               /\ \A k \in 1 .. Len(frames) - 1 : popped[k] = frames[k]
  OBVIOUS

-------------------------------------------------------------------------------
(* The steps of the walk, as far as the graph is concerned.                *)

walk == <<frames, selected, visited, edges, decisions, outcome>>

(* The import at hand meets an objection.                                  *)
Objected(i, c) ==
    /\ outcome = None /\ frames # << >> /\ i \in Top.todo /\ c \in Claim
    /\ frames' = Handled(i) /\ decisions' = Append(decisions, c)
    /\ UNCHANGED <<selected, visited, edges, outcome>>

(* It is linked to a package visited before.                               *)
Rejoined(i) ==
    /\ outcome = None /\ frames # << >> /\ i \in Top.todo /\ i.pkg \in visited
    /\ Pinned(i) /\ v2ImportMatches(SourceOf(i.pkg), i) = None
    /\ edges' = addEdge(i, selected[i.pkg]) /\ frames' = Handled(i)
    /\ UNCHANGED <<selected, visited, decisions, outcome>>

(* It is linked to choice, which is selected, and whose imports follow.    *)
Joined(i, choice) ==
    /\ outcome = None /\ frames # << >> /\ i \in Top.todo
    /\ i.pkg \notin Open /\ selected[i.pkg] = None
    /\ choice.entry \in candidates(i)
    /\ \E data : inspectCandidate(choice.entry, i, data, choice.bytes) = None
    /\ selected' = [selected EXCEPT ![i.pkg] = choice]
    /\ edges' = addEdge(i, choice)
    /\ frames' = Append(Handled(i), [pkg |-> i.pkg, todo |-> Parsed[choice.bytes].imports])
    /\ UNCHANGED <<visited, decisions, outcome>>

Choice == [entry : Entry, bytes : Sources]

WalkStep ==
    \/ UNCHANGED walk
    \/ Start
    \/ \E i \in Import : \E c \in Claim : Objected(i, c)
    \/ \E i \in Import : Rejoined(i)
    \/ \E i \in Import : \E choice \in Choice : Joined(i, choice)
    \/ Return \/ Finish

(* The import of a probe, and the candidate it reads, are of their kinds.  *)
LEMMA ProbeTypes ==
    ASSUME TypeOK, ProbeOK, probe # None
    PROVE  /\ probe \in Probe /\ probe.imp \in Import /\ probe.untried \subseteq Entry
           /\ probe.reading # None =>
                 probe.reading \in [entry : Entry, data : Bytes]
           /\ frames # << >> /\ outcome = None
  BY DEF TypeOK, ProbeOK, Probe, Running

(* The imports of the top frame are imports.                               *)
LEMMA PendingTypes ==
    ASSUME TypeOK, NEW i \in Pending
    PROVE  /\ i \in Import /\ i.pkg \in Package /\ i.constraint \in Constraint
           /\ frames # << >> /\ outcome = None /\ i \in Top.todo
<1>1. frames # << >> /\ outcome = None /\ i \in Top.todo
  BY DEF Pending, Running
<1>2. Top \in Frame
  BY <1>1 DEF TypeOK, Top
<1>3. QED
  BY <1>1, <1>2, WorldAssumption DEF Frame, IsImport

(* The bytes the second read finds.                                        *)
LEMMA Bytes2Type ==
    ASSUME TypeOK, NEW e \in Entry
    PROVE  files[e.path] \in Bytes \cup {None}
  BY WorldAssumption DEF TypeOK, IsEntry

(* Every step is one of them, and none touches catalog and root.           *)
LEMMA WalkSteps ==
    ASSUME IInv, [Next]_vars
    PROVE  WalkStep /\ UNCHANGED world
<1> USE DEF IInv
<1>1. CASE UNCHANGED vars
  BY <1>1 DEF vars, WalkStep, walk, world
<1>2. CASE Start
  BY <1>2 DEF Start, WalkStep
<1>3. ASSUME NEW i \in Pending, RefuteCycle(i)
      PROVE  WalkStep /\ UNCHANGED world
  <2>1. Objected(i, refutedClaim("DEPENDENCY_CYCLE", i.pkg))
    BY <1>3, PendingTypes, RaisedClaims DEF RefuteCycle, Decide, Objected, ClaimOrder
  <2>2. QED
    BY <1>3, <2>1, PendingTypes DEF WalkStep, RefuteCycle, Objected
<1>4. ASSUME NEW i \in Pending, RefuteDigestConflict(i)
      PROVE  WalkStep /\ UNCHANGED world
  <2>1. Objected(i, refutedClaim("PACKAGE_DIGEST_CONFLICT", i.pkg))
    BY <1>4, PendingTypes, RaisedClaims
    DEF RefuteDigestConflict, Decide, Objected, ClaimOrder
  <2>2. QED
    BY <1>4, <2>1, PendingTypes DEF WalkStep, RefuteDigestConflict, Objected
<1>5. ASSUME NEW i \in Pending, RefuteNoCandidate(i)
      PROVE  WalkStep /\ UNCHANGED world
  <2>1. Objected(i, refutedClaim("PACKAGE_DIGEST_NOT_FOUND", i.pkg))
    BY <1>5, PendingTypes, RaisedClaims
    DEF RefuteNoCandidate, Decide, Objected, ClaimOrder
  <2>2. QED
    BY <1>5, <2>1, PendingTypes DEF WalkStep, RefuteNoCandidate, Objected
<1>6. ASSUME NEW i \in Pending, RefuseSelected(i)
      PROVE  WalkStep /\ UNCHANGED world
  <2>1. i.pkg \in Selected
    BY <1>6, PendingTypes DEF RefuseSelected, Reuse, Selected
  <2>2. v2ImportMatches(SourceOf(i.pkg), i) \in Claim
    BY <1>6, <2>1, MatchClaim, PendingTypes DEF RefuseSelected, VerifiedSelection
  <2>3. Objected(i, v2ImportMatches(SourceOf(i.pkg), i))
    BY <1>6, <2>2, PendingTypes DEF RefuseSelected, Decide, Objected
  <2>4. QED
    BY <1>6, <2>3, PendingTypes DEF WalkStep, RefuseSelected, Objected
<1>7. ASSUME NEW i \in Pending, LinkSelected(i)
      PROVE  WalkStep /\ UNCHANGED world
  <2>1. i.pkg \in visited
    BY <1>7, PendingTypes DEF LinkSelected, Reuse, Selected, WalkedOnce
  <2>2. Rejoined(i)
    BY <1>7, <2>1, PendingTypes DEF LinkSelected, Reuse, Rejoined, walkDependencies
  <2>3. QED
    BY <1>7, <2>2, PendingTypes DEF WalkStep, LinkSelected
<1>8. CASE \E i \in Pending : BeginProbe(i)
  BY <1>8 DEF BeginProbe, WalkStep, walk, disk, world
<1>9. CASE ReadUnavailable \/ ReadCandidate \/ RefuseCandidate
  BY <1>9 DEF ReadUnavailable, ReadCandidate, RefuseCandidate, WalkStep, walk, disk, world
<1>10. CASE Rewrite
  BY <1>10 DEF Rewrite, WalkStep, walk, world
<1>11. CASE ExhaustCandidates
  <2>1. probe # None
    BY <1>11 DEF ExhaustCandidates
  <2>2. LeadingClaim \in Claim
    <3>1. probe.imp.pkg \in Package
      BY <2>1, ProbeTypes, WorldAssumption DEF IsImport
    <3>2. unknownClaim("NO_VERIFIABLE_PINNED_MANIFEST", probe.imp.pkg) \in Claim
      BY <3>1, RaisedClaims DEF ClaimOrder
    <3>3. QED
      BY <2>1, <3>2, ProbeTypes DEF Probe, LeadingClaim
  <2>3. Objected(probe.imp, LeadingClaim)
    BY <1>11, <2>1, <2>2, ProbeTypes DEF ExhaustCandidates, Decide, Objected, ProbeOK
  <2>4. QED
    BY <1>11, <2>1, <2>2, <2>3, ProbeTypes DEF WalkStep, ExhaustCandidates
<1>12. CASE SelectCandidate
  <2> DEFINE choice == [entry |-> probe.reading.entry, bytes |-> Bytes2]
  <2>1. probe # None /\ probe.reading # None
    BY <1>12 DEF SelectCandidate, Reading
  <2>2. probe.reading.entry \in Entry /\ Bytes2 \in Bytes \cup {None}
    BY <2>1, ProbeTypes, Bytes2Type DEF Bytes2
  <2>3. Bytes2 \in Sources /\ choice \in Choice
    BY <1>12, <2>2, InspectAccepts DEF SelectCandidate, Objection, Choice
  <2>4. probe.imp.pkg \notin visited
    BY <2>1, ProbeTypes, WorldAssumption DEF ProbeOK, WalkedOnce, Selected, IsImport
  <2>5. Joined(probe.imp, choice)
    BY <1>12, <2>1, <2>4, ProbeTypes
    DEF SelectCandidate, Objection, ProbeOK, Joined, walkDependencies
  <2>6. QED
    BY <1>12, <2>1, <2>3, <2>5, ProbeTypes DEF WalkStep, SelectCandidate
<1>13. CASE Return \/ Finish
  BY <1>13 DEF Return, Finish, WalkStep, world
<1>14. QED
  BY <1>1, <1>2, <1>3, <1>4, <1>5, <1>6, <1>7, <1>8, <1>9, <1>10, <1>11, <1>12, <1>13
  DEF Next, Step

-------------------------------------------------------------------------------
(* Each part of the invariant survives each step.                          *)

LEMMA TopTypes ==
    ASSUME TypeOK, frames # << >>
    PROVE  /\ Top \in Frame /\ Top.pkg \in Package \cup {Root} /\ Top.todo \subseteq Import
           /\ Len(frames) \in 1 .. Len(frames)
<1>1. frames \in Seq(Frame) /\ Len(frames) \in 1 .. Len(frames)
  BY DEF TypeOK
<1>2. Top \in Frame
  BY <1>1 DEF Top
<1>3. QED
  BY <1>1, <1>2 DEF Frame

LEMMA ImportTypes ==
    ASSUME NEW i \in Import
    PROVE  i.pkg \in Package /\ i.constraint \in Constraint
  BY WorldAssumption DEF IsImport

(* The frame walkDependencies opens.                                       *)
LEMMA OpenedFrame ==
    ASSUME NEW i \in Import, NEW choice \in Choice
    PROVE  [pkg |-> i.pkg, todo |-> Parsed[choice.bytes].imports] \in Frame
<1>1. choice.bytes \in Sources
  BY DEF Choice
<1>2. \A d \in Sources : Parsed[d].imports \subseteq Import
  <2> SUFFICES ASSUME NEW d \in Sources, NEW j \in Parsed[d].imports
               PROVE  j \in Import
    OBVIOUS
  <2>1. Parsed[d].imports \in {Parsed[b].imports : b \in Sources}
    OBVIOUS
  <2>2. j \in UNION {Parsed[b].imports : b \in Sources}
    BY <2>1
  <2>3. QED
    BY <2>2 DEF Import
<1>3. Parsed[choice.bytes].imports \subseteq Import
  BY <1>1, <1>2
<1>4. QED
  BY <1>3, ImportTypes DEF Frame

EdgeSet == [from : Package \cup {Root}, to : Package, constraint : Constraint, digest : Bytes]

LEMMA AddedEdge ==
    ASSUME TypeOK, frames # << >>, NEW i \in Import, NEW choice, choice.entry \in Entry
    PROVE  addEdge(i, choice) \subseteq EdgeSet
<1>1. choice.entry.digest \in Bytes
  BY WorldAssumption DEF IsEntry
<1>2. QED
  BY <1>1, TopTypes, ImportTypes DEF addEdge, EdgeSet, TypeOK

LEMMA WalkTyped ==
    ASSUME IInv, WalkStep, UNCHANGED world
    PROVE  /\ catalog' \subseteq Entry /\ root' \subseteq Import
           /\ frames' \in Seq(Frame)
           /\ selected' \in [Package -> {None} \cup [entry : Entry, bytes : Sources]]
           /\ visited' \subseteq Package
           /\ edges' \subseteq EdgeSet
           /\ decisions' \in Seq(Claim)
           /\ outcome' \in {None, closedClaim, errorClaim} \cup Claim
<1>1. TypeOK
  BY DEF IInv
<1>2. catalog' \subseteq Entry /\ root' \subseteq Import
  BY <1>1 DEF world, TypeOK
<1>3. CASE UNCHANGED walk
  BY <1>1, <1>2, <1>3 DEF walk, TypeOK, EdgeSet
<1>4. CASE Start
  <2>1. [pkg |-> Root, todo |-> root] \in Frame
    BY <1>1 DEF TypeOK, Frame, Import
  <2>2. << [pkg |-> Root, todo |-> root] >> \in Seq(Frame) /\ frames \in Seq(Frame)
    BY <1>1, <2>1 DEF TypeOK
  <2>3. frames' \in Seq(Frame) /\ outcome' \in {None, errorClaim}
    BY <1>4, <2>2 DEF Start
  <2>4. QED
    BY <1>1, <1>2, <1>4, <2>3 DEF Start, TypeOK, EdgeSet
<1>5. ASSUME NEW i \in Import, NEW c \in Claim, Objected(i, c)
      PROVE  frames' \in Seq(Frame) /\ decisions' \in Seq(Claim)
  BY <1>1, <1>5, HandledFrames DEF Objected, TypeOK
<1>6. CASE \E i \in Import : \E c \in Claim : Objected(i, c)
  BY <1>1, <1>2, <1>5, <1>6 DEF Objected, TypeOK, EdgeSet
<1>7. ASSUME NEW i \in Import, Rejoined(i)
      PROVE  frames' \in Seq(Frame) /\ edges' \subseteq EdgeSet
  <2>1. i.pkg \in Selected
    BY <1>7 DEF Rejoined, IInv, WalkedOnce
  <2>2. selected[i.pkg].entry \in Entry
    BY <1>1, <2>1 DEF TypeOK, Selected
  <2>3. QED
    BY <1>1, <1>7, <2>2, HandledFrames, AddedEdge DEF Rejoined, TypeOK
<1>8. CASE \E i \in Import : Rejoined(i)
  BY <1>1, <1>2, <1>7, <1>8 DEF Rejoined, TypeOK
<1>9. ASSUME NEW i \in Import, NEW choice \in Choice, Joined(i, choice)
      PROVE  /\ frames' \in Seq(Frame) /\ edges' \subseteq EdgeSet
             /\ selected' \in [Package -> {None} \cup [entry : Entry, bytes : Sources]]
  <2>1. frames' \in Seq(Frame)
    BY <1>1, <1>9, OpenedFrame, PushedFrames DEF Joined, TypeOK
  <2>2. edges' \subseteq EdgeSet
    BY <1>1, <1>9, AddedEdge DEF Joined, Choice
  <2>3. selected' \in [Package -> {None} \cup [entry : Entry, bytes : Sources]]
    BY <1>1, <1>9, ImportTypes DEF Joined, Choice, TypeOK
  <2>4. QED
    BY <2>1, <2>2, <2>3
<1>10. CASE \E i \in Import : \E choice \in Choice : Joined(i, choice)
  BY <1>1, <1>2, <1>9, <1>10 DEF Joined, TypeOK
<1>11. CASE Return
  <2>1. frames \in Seq(Frame) /\ Len(frames) > 1 /\ frames # << >>
    BY <1>1, <1>11 DEF Return, TypeOK
  <2>2. frames' \in Seq(Frame)
    BY <1>11, <2>1, PoppedFrames DEF Return
  <2>3. Top.pkg \in Package
    BY <2>1 DEF IInv, StackOK, Top
  <2>4. QED
    BY <1>1, <1>2, <1>11, <2>2, <2>3 DEF Return, TypeOK, EdgeSet
<1>12. CASE Finish
  BY <1>1, <1>2, <1>12 DEF Finish, TypeOK, EdgeSet
<1>13. QED
  BY <1>3, <1>4, <1>6, <1>8, <1>10, <1>11, <1>12 DEF WalkStep

LEMMA DiskTyped ==
    ASSUME IInv, [Next]_vars
    PROVE  files' \in [Path -> Bytes \cup {None}] /\ rewrites' \in 0 .. MaxRewrites
<1>1. files \in [Path -> Bytes \cup {None}] /\ rewrites \in 0 .. MaxRewrites
  BY DEF IInv, TypeOK
<1>2. CASE Rewrite
  BY <1>1, <1>2, WorldAssumption DEF Rewrite
<1>3. CASE ~ Rewrite
  <2>1. UNCHANGED disk
    BY <1>3 DEF Next, Step, vars, disk, Start, RefuteCycle, RefuteDigestConflict,
       RefuseSelected, LinkSelected, RefuteNoCandidate, BeginProbe, ReadUnavailable,
       ReadCandidate, RefuseCandidate, SelectCandidate, ExhaustCandidates, Return, Finish
  <2>2. QED
    BY <1>1, <2>1 DEF disk
<1>4. QED
  BY <1>2, <1>3

(* A refused candidate leaves the probe, and nothing enters it.            *)
LEMMA RefusedProbe ==
    ASSUME probe \in Probe, NEW e \in Entry, NEW c \in Claim
    PROVE  /\ Refuse(e, c) \in Probe
           /\ Refuse(e, c).imp = probe.imp /\ Refuse(e, c).reading = None
           /\ Refuse(e, c).untried = probe.untried \ {e}
<1>1. /\ (IF probe.refuted = None /\ c.state = Refuted THEN c ELSE probe.refuted) \in {None} \cup Claim
      /\ (IF probe.unknown = None /\ c.state = Unknown THEN c ELSE probe.unknown) \in {None} \cup Claim
      /\ probe.imp \in Import /\ probe.untried \ {e} \in SUBSET Entry
  BY DEF Probe
<1>2. QED
  BY <1>1 DEF Refuse, Probe

(* What a step makes of the probe.                                         *)
LEMMA ProbeSteps ==
    ASSUME IInv, [Next]_vars
    PROVE  (probe' = None \/ probe' \in Probe) /\ ProbeOK'
<1>1. TypeOK /\ ProbeOK /\ (probe = None \/ probe \in Probe)
  BY DEF IInv, TypeOK
<1>2. CASE probe' = None
  BY <1>2 DEF ProbeOK
<1>3. CASE probe' = probe /\ probe = None
  BY <1>2, <1>3
<1>4. CASE UNCHANGED vars \/ Rewrite
  <2>1. UNCHANGED <<world, probe, frames, selected, outcome>>
    BY <1>4 DEF vars, world, Rewrite
  <2>2. QED
    BY <1>1, <2>1 DEF ProbeOK, Running, Top, Open, candidates, world
<1>5. CASE Start
  BY <1>1, <1>3, <1>5 DEF Start, ProbeOK, Running
<1>6. ASSUME NEW i \in Pending, BeginProbe(i)
      PROVE  probe' \in Probe /\ ProbeOK'
  <2>1. UNCHANGED <<world, frames, selected, outcome>>
    BY <1>6 DEF BeginProbe, world
  <2>2. /\ Running /\ i \in Top.todo /\ i \in Import
        /\ i.pkg \notin Open /\ selected[i.pkg] = None
    BY <1>1, <1>6, PendingTypes DEF BeginProbe, Fresh, Current
  <2>3. probe' = [imp |-> i, untried |-> candidates(i), reading |-> None,
                  refuted |-> None, unknown |-> None]
    BY <1>6 DEF BeginProbe
  <2>4. candidates(i) \subseteq Entry
    BY <1>1 DEF candidates, TypeOK, Entry
  <2>5. probe' \in Probe
    BY <2>2, <2>3, <2>4 DEF Probe
  <2>6. QED
    BY <2>1, <2>2, <2>3, <2>5 DEF ProbeOK, Running, Top, Open, candidates, world
<1>7. ASSUME NEW e \in probe.untried, NEW c \in Claim, probe \in Probe, probe # None,
             probe' = Refuse(e, c), UNCHANGED <<world, frames, selected, outcome>>
      PROVE  probe' \in Probe /\ ProbeOK'
  <2>1. e \in Entry
    BY <1>7 DEF Probe
  <2>2. /\ probe' \in Probe /\ probe'.imp = probe.imp /\ probe'.reading = None
        /\ probe'.untried \subseteq probe.untried
    BY <1>7, <2>1, RefusedProbe
  <2>3. QED
    BY <1>1, <1>7, <2>2 DEF ProbeOK, Running, Top, Open, candidates, world
<1>8. ASSUME ReadUnavailable
      PROVE  probe' \in Probe /\ ProbeOK'
  <2>1. probe \in Probe /\ probe # None
    BY <1>1, <1>8 DEF ReadUnavailable, Inspecting
  <2>2. PICK e \in NextCandidates :
            probe' = Refuse(e, unknownClaim("PACKAGE_SOURCE_UNAVAILABLE", e.name))
    BY <1>8 DEF ReadUnavailable
  <2>3. e \in probe.untried /\ e.name \in Package
    BY <2>1, <2>2, WorldAssumption DEF NextCandidates, Probe, IsEntry
  <2>4. unknownClaim("PACKAGE_SOURCE_UNAVAILABLE", e.name) \in Claim
    BY <2>3, RaisedClaims DEF ClaimOrder
  <2>5. UNCHANGED <<world, frames, selected, outcome>>
    BY <1>8 DEF ReadUnavailable, world
  <2>6. QED
    BY <1>7, <2>1, <2>2, <2>3, <2>4, <2>5
<1>9. ASSUME ReadCandidate
      PROVE  probe' \in Probe /\ ProbeOK'
  <2>1. probe \in Probe /\ probe # None
    BY <1>1, <1>9 DEF ReadCandidate, Inspecting
  <2>2. PICK e \in NextCandidates :
            /\ files[e.path] # None
            /\ probe' = [probe EXCEPT !.reading = [entry |-> e, data |-> files[e.path]]]
    BY <1>9 DEF ReadCandidate
  <2>3. e \in probe.untried /\ e \in Entry
    BY <2>1, <2>2 DEF NextCandidates, Probe
  <2> DEFINE read == [entry |-> e, data |-> files[e.path]]
  <2>4. read \in [entry : Entry, data : Bytes] /\ read.entry = e
    BY <1>1, <2>2, <2>3, Bytes2Type
  <2>5. probe' = [probe EXCEPT !.reading = read]
    BY <2>2
  <2> HIDE DEF read
  <2>6. /\ probe' \in Probe /\ probe'.imp = probe.imp /\ probe'.reading = read
        /\ probe'.untried = probe.untried
    BY <2>1, <2>4, <2>5 DEF Probe
  <2>7. UNCHANGED <<world, frames, selected, outcome>>
    BY <1>9 DEF ReadCandidate, world
  <2>8. QED
    BY <1>1, <2>1, <2>3, <2>4, <2>6, <2>7
    DEF ProbeOK, Running, Top, Open, candidates, world
<1>10. ASSUME RefuseCandidate
       PROVE  probe' \in Probe /\ ProbeOK'
  <2>1. probe \in Probe /\ probe # None /\ probe.reading # None
    BY <1>1, <1>10 DEF RefuseCandidate, Reading
  <2> DEFINE e == probe.reading.entry
  <2>2. e \in Entry /\ Bytes2 \in Bytes \cup {None}
    BY <1>1, <2>1, ProbeTypes, Bytes2Type DEF Bytes2
  <2>3. Objection \in Claim
    BY <1>10, <2>2, InspectClaim DEF RefuseCandidate, Objection
  <2>4. probe' = Refuse(e, Objection)
    BY <1>10 DEF RefuseCandidate
  <2>5. /\ probe' \in Probe /\ probe'.imp = probe.imp /\ probe'.reading = None
        /\ probe'.untried \subseteq probe.untried
    BY <2>1, <2>2, <2>3, <2>4, RefusedProbe
  <2>6. UNCHANGED <<world, frames, selected, outcome>>
    BY <1>10 DEF RefuseCandidate, world
  <2>7. QED
    BY <1>1, <2>1, <2>5, <2>6 DEF ProbeOK, Running, Top, Open, candidates, world
<1>11. CASE Return \/ Finish \/ SelectCandidate \/ ExhaustCandidates
  BY <1>2, <1>3, <1>11 DEF Return, Finish, SelectCandidate, ExhaustCandidates
<1>12. CASE \E i \in Pending : \/ RefuteCycle(i) \/ RefuteDigestConflict(i)
                               \/ RefuseSelected(i) \/ LinkSelected(i) \/ RefuteNoCandidate(i)
  BY <1>3, <1>12 DEF RefuteCycle, RefuteDigestConflict, RefuseSelected, LinkSelected,
     RefuteNoCandidate, Reuse, Fresh, Current
<1>13. QED
  BY <1>4, <1>5, <1>6, <1>8, <1>9, <1>10, <1>11, <1>12 DEF Next, Step

LEMMA TypeStep ==
    ASSUME IInv, [Next]_vars
    PROVE  TypeOK'
  BY WalkSteps, WalkTyped, DiskTyped, ProbeSteps DEF TypeOK, EdgeSet

(* What the open packages become.                                          *)
LEMMA OpenHandled ==
    ASSUME frames \in Seq(Frame), frames # << >>, NEW i, frames' = Handled(i)
    PROVE  Open' = Open /\ frames' # << >>
  BY HandledFrames DEF Open

LEMMA OpenPushed ==
    ASSUME frames \in Seq(Frame), frames # << >>, NEW i, NEW f \in Frame,
           frames' = Append(Handled(i), f)
    PROVE  Open' = Open \cup {f.pkg} /\ frames' # << >>
<1>a. Len(Append(Handled(i), f)) = Len(frames) + 1
  BY PushedFrames
<1>b. Append(Handled(i), f)[Len(frames) + 1] = f
  BY PushedFrames
<1>c. \A k \in 1 .. Len(frames) : Append(Handled(i), f)[k].pkg = frames[k].pkg
  BY PushedFrames
<1>1. /\ Len(frames') = Len(frames) + 1 /\ frames'[Len(frames) + 1] = f
      /\ \A k \in 1 .. Len(frames) : frames'[k].pkg = frames[k].pkg
  BY <1>a, <1>b, <1>c
<1>0. Len(frames) \in Nat \ {0}
  OBVIOUS
<1>2. Open' \subseteq Open \cup {f.pkg}
  BY <1>0, <1>1 DEF Open
<1>3. Open \subseteq Open'
  BY <1>0, <1>1 DEF Open
<1>4. f.pkg \in Open'
  BY <1>0, <1>1 DEF Open
<1>5. QED
  BY <1>0, <1>1, <1>2, <1>3, <1>4

LEMMA OpenPopped ==
    ASSUME frames \in Seq(Frame), Len(frames) > 1, WalkedOnce,
           frames' = SubSeq(frames, 1, Len(frames) - 1)
    PROVE  Open' = Open \ {Top.pkg} /\ Top.pkg \in Open /\ frames' # << >>
<1>1. /\ Len(frames') = Len(frames) - 1 /\ Len(frames) \in Nat
      /\ \A k \in 1 .. Len(frames) - 1 : frames'[k] = frames[k]
      /\ frames' \in Seq(Frame)
  BY PoppedFrames
<1>2. Open' \subseteq Open \ {Top.pkg}
  <2> SUFFICES ASSUME NEW k \in 2 .. Len(frames) - 1
               PROVE  frames[k].pkg \in Open \ {Top.pkg}
    BY <1>1 DEF Open
  <2>1. k \in 1 .. Len(frames) /\ Len(frames) \in 1 .. Len(frames) /\ k # Len(frames)
    BY <1>1
  <2>2. frames[k].pkg # Top.pkg
    BY <2>1 DEF Top, WalkedOnce
  <2>3. QED
    BY <1>1, <2>2 DEF Open
<1>3. Open \ {Top.pkg} \subseteq Open'
  <2> SUFFICES ASSUME NEW k \in 2 .. Len(frames), frames[k].pkg # Top.pkg
               PROVE  frames[k].pkg \in Open'
    BY DEF Open
  <2>1. k \in 2 .. Len(frames')
    BY <1>1 DEF Top
  <2>2. QED
    BY <1>1, <2>1 DEF Open
<1>4. Top.pkg \in Open
  BY <1>1 DEF Open, Top
<1>5. Len(frames') # 0
  BY <1>1
<1>6. QED
  BY <1>2, <1>3, <1>4, <1>5

LEMMA StackStep ==
    ASSUME IInv, WalkStep
    PROVE  StackOK'
<1>1. TypeOK /\ StackOK /\ frames \in Seq(Frame)
  BY DEF IInv, TypeOK
<1>2. CASE UNCHANGED walk
  BY <1>1, <1>2 DEF walk, StackOK, Selected
<1>3. CASE Start
  <2>1. CASE ValidateV2Root(root)
    BY <1>3, <2>1 DEF Start, StackOK
  <2>2. CASE ~ ValidateV2Root(root)
    BY <1>1, <1>3, <2>2 DEF Start, StackOK, Selected
  <2>3. QED
    BY <2>1, <2>2
<1>4. ASSUME NEW i \in Import, frames # << >>, frames' = Handled(i)
      PROVE  StackOK'
  BY <1>1, <1>4, HandledFrames, OpenHandled DEF StackOK
<1>5. ASSUME NEW i \in Import, NEW choice \in Choice, Joined(i, choice)
      PROVE  StackOK'
  <2> DEFINE f == [pkg |-> i.pkg, todo |-> Parsed[choice.bytes].imports]
  <2>1. f \in Frame /\ f.pkg \in Package
    BY OpenedFrame, ImportTypes
  <2>2. frames # << >> /\ frames' = Append(Handled(i), f)
    BY <1>5 DEF Joined
  <2> HIDE DEF f
  <2>3. /\ Len(frames') = Len(frames) + 1 /\ frames'[Len(frames) + 1] = f
        /\ \A k \in 1 .. Len(frames) : frames'[k].pkg = frames[k].pkg
        /\ Len(frames) \in Nat \ {0} /\ frames' # << >>
    BY <1>1, <2>1, <2>2, PushedFrames, OpenPushed
  <2>4. QED
    BY <1>1, <2>1, <2>2, <2>3 DEF StackOK
<1>6. CASE Return
  <2>1. Len(frames) > 1 /\ frames' = SubSeq(frames, 1, Len(frames) - 1)
    BY <1>6 DEF Return
  <2>2. QED
    BY <1>1, <2>1, PoppedFrames, OpenPopped DEF StackOK, IInv
<1>7. CASE Finish
  BY <1>1, <1>7 DEF Finish, StackOK, Running
<1>8. QED
  BY <1>2, <1>3, <1>4, <1>5, <1>6, <1>7 DEF WalkStep, Objected, Rejoined

(* What is selected once a package is joined.                              *)
LEMMA SelectedJoined ==
    ASSUME TypeOK, NEW i \in Import, NEW choice \in Choice,
           selected' = [selected EXCEPT ![i.pkg] = choice]
    PROVE  /\ Selected' = Selected \cup {i.pkg}
           /\ selected'[i.pkg] = choice
           /\ \A p \in Package \ {i.pkg} : selected'[p] = selected[p]
<1>1. choice # None /\ i.pkg \in Package
  BY ImportTypes, WorldAssumption DEF Choice, Sources
<1>2. QED
  BY <1>1 DEF TypeOK, Selected

LEMMA WalkedOnceStep ==
    ASSUME IInv, WalkStep
    PROVE  WalkedOnce'
<1>1. TypeOK /\ StackOK /\ WalkedOnce /\ frames \in Seq(Frame)
  BY DEF IInv, TypeOK
<1>2. CASE UNCHANGED walk \/ Finish
  BY <1>1, <1>2 DEF walk, WalkedOnce, Selected, Open, Finish
<1>3. CASE Start
  <2>1. frames = << >> /\ UNCHANGED <<selected, visited>> /\ Len(frames') \in {0, 1}
    BY <1>3 DEF Start
  <2>2. Selected' = {} /\ visited' = {}
    BY <1>1, <2>1 DEF StackOK, Selected
  <2>3. 2 .. Len(frames') = {} /\ \A j, k \in 1 .. Len(frames') : j = k
    BY <2>1
  <2>5. Open' = {}
    BY <2>3 DEF Open
  <2>4. QED
    BY <2>2, <2>3, <2>5 DEF WalkedOnce
<1>4. ASSUME NEW i \in Import, frames # << >>, frames' = Handled(i),
             UNCHANGED <<selected, visited>>
      PROVE  WalkedOnce'
  BY <1>1, <1>4, HandledFrames, OpenHandled DEF WalkedOnce, Selected
<1>5. ASSUME NEW i \in Import, NEW choice \in Choice, Joined(i, choice)
      PROVE  WalkedOnce'
  <2> DEFINE f == [pkg |-> i.pkg, todo |-> Parsed[choice.bytes].imports]
  <2>1. f \in Frame /\ f.pkg = i.pkg /\ i.pkg \in Package
    BY OpenedFrame, ImportTypes
  <2>2. /\ frames # << >> /\ frames' = Append(Handled(i), f)
        /\ i.pkg \notin Open /\ i.pkg \notin Selected /\ visited' = visited
    BY <1>5 DEF Joined, Selected
  <2> HIDE DEF f
  <2>3. /\ Len(frames') = Len(frames) + 1 /\ frames'[Len(frames) + 1] = f
        /\ \A k \in 1 .. Len(frames) : frames'[k].pkg = frames[k].pkg
        /\ Len(frames) \in Nat \ {0}
    BY <1>1, <2>1, <2>2, PushedFrames
  <2>4. Open' = Open \cup {i.pkg}
    BY <1>1, <2>1, <2>2, OpenPushed
  <2>8. Selected' = Selected \cup {i.pkg}
    BY <1>1, <1>5, SelectedJoined DEF Joined
  <2>5. \A k \in 1 .. Len(frames) : frames[k].pkg # i.pkg
    BY <1>1, <2>1, <2>2, WorldAssumption DEF StackOK, Open
  <2>6. \A j, k \in 1 .. Len(frames') : frames'[j].pkg = frames'[k].pkg => j = k
    BY <1>1, <2>1, <2>3, <2>5 DEF WalkedOnce
  <2>7. QED
    BY <1>1, <2>2, <2>4, <2>6, <2>8 DEF WalkedOnce
<1>6. CASE Return
  <2>1. /\ Len(frames) > 1 /\ frames' = SubSeq(frames, 1, Len(frames) - 1)
        /\ visited' = visited \cup {Top.pkg} /\ selected' = selected
    BY <1>6 DEF Return
  <2>2. Open' = Open \ {Top.pkg} /\ Top.pkg \in Open
    BY <1>1, <2>1, OpenPopped
  <2>3. \A j, k \in 1 .. Len(frames') : frames'[j].pkg = frames'[k].pkg => j = k
    BY <1>1, <2>1, PoppedFrames DEF WalkedOnce
  <2>4. QED
    BY <1>1, <2>1, <2>2, <2>3 DEF WalkedOnce, Selected
<1>7. QED
  BY <1>2, <1>3, <1>4, <1>5, <1>6 DEF WalkStep, Objected, Rejoined

LEMMA VerifiedStep ==
    ASSUME IInv, WalkStep, UNCHANGED world
    PROVE  VerifiedSelection'
<1>1. TypeOK /\ VerifiedSelection /\ catalog' = catalog
  BY DEF IInv, world
<1>2. CASE UNCHANGED selected
  BY <1>1, <1>2 DEF VerifiedSelection, Selected, SourceOf
<1>3. ASSUME NEW i \in Import, NEW choice \in Choice, Joined(i, choice)
      PROVE  VerifiedSelection'
  <2>1. /\ Selected' = Selected \cup {i.pkg} /\ selected'[i.pkg] = choice
        /\ \A p \in Package \ {i.pkg} : selected'[p] = selected[p]
    BY <1>1, <1>3, SelectedJoined DEF Joined
  <2>2. /\ choice.entry \in Entry /\ choice.bytes \in Bytes /\ choice.bytes \in Sources
        /\ choice.entry \in catalog /\ choice.entry.name = i.pkg
    BY <1>3 DEF Choice, Sources, Joined, candidates
  <2>3. PICK data : inspectCandidate(choice.entry, i, data, choice.bytes) = None
    BY <1>3 DEF Joined
  <2>4. /\ choice.bytes = choice.entry.digest
        /\ choice.entry.name = Parsed[choice.bytes].name
        /\ choice.entry.identity = Parsed[choice.bytes].identity
        /\ choice.entry.identity.release # None /\ choice.entry.identity.asset # None
        /\ choice.entry.identity.toolchain = ContractId.toolchain
        /\ choice.entry.identity.contract = ContractId.contract
        /\ choice.entry.identity.symbols = exportedSymbolSetDigest(Parsed[choice.bytes])
    BY <2>2, <2>3, InspectAccepts
  <2>5. Parsed[choice.bytes] # None
    BY <2>2 DEF Sources
  <2> SUFFICES ASSUME NEW p \in Selected'
               PROVE  LET entry == selected'[p].entry
                          source == Parsed[selected'[p].bytes]
                      IN  /\ entry \in catalog /\ entry.name = p
                          /\ selected'[p].bytes = entry.digest
                          /\ source # None /\ source.name = p
                          /\ source.identity = entry.identity
                          /\ entry.identity.release # None /\ entry.identity.asset # None
                          /\ entry.identity.toolchain = ContractId.toolchain
                          /\ entry.identity.contract = ContractId.contract
                          /\ entry.identity.symbols = exportedSymbolSetDigest(source)
    BY <1>1 DEF VerifiedSelection, SourceOf, exportedSymbolSetDigest
  <2>6. CASE p = i.pkg
    BY <2>1, <2>2, <2>4, <2>5, <2>6
  <2>7. CASE p # i.pkg
    BY <1>1, <2>1, <2>7 DEF VerifiedSelection, SourceOf, Selected
  <2>8. QED
    BY <2>6, <2>7
<1>4. QED
  BY <1>2, <1>3 DEF WalkStep, walk, Start, Objected, Rejoined, Return, Finish

(* The package whose imports are being resolved is selected or the root,   *)
(* and it is not visited yet.                                              *)
LEMMA TopPackage ==
    ASSUME IInv, frames # << >>
    PROVE  /\ Top.pkg \in Selected \cup {Root} /\ Top.pkg \in Open \cup {Root}
           /\ Top.pkg \notin visited /\ Root \notin visited
           /\ \A k \in 2 .. Len(frames) : frames[k].pkg = Top.pkg => k = Len(frames)
<1>1. frames \in Seq(Frame) /\ frames[1].pkg = Root /\ WalkedOnce /\ visited \subseteq Package
  BY DEF IInv, TypeOK, StackOK
<1>2. Len(frames) \in Nat \ {0}
  BY <1>1
<1>3. CASE Len(frames) = 1
  BY <1>1, <1>3, WorldAssumption DEF Top
<1>4. CASE Len(frames) > 1
  <2>1. Len(frames) \in 2 .. Len(frames)
    BY <1>2, <1>4
  <2>2. Top.pkg \in Open
    BY <2>1 DEF Open, Top
  <2>3. \A k \in 2 .. Len(frames) : frames[k].pkg = Top.pkg => k = Len(frames)
    BY <1>1, <2>1 DEF WalkedOnce, Top
  <2>4. QED
    BY <1>1, <2>2, <2>3, WorldAssumption DEF WalkedOnce
<1>5. QED
  BY <1>2, <1>3, <1>4

(* The edge of import i is the only one addEdge adds.                      *)
LEMMA NewEdge ==
    ASSUME NEW i, NEW choice, edges' = addEdge(i, choice)
    PROVE  /\ \A e \in edges' : e \in edges \/ (e.from = Top.pkg /\ e.to = i.pkg)
           /\ edges \subseteq edges'
           /\ Links' = Links \cup {<<Top.pkg, i.pkg>>}
<1> DEFINE new == [from |-> Top.pkg, to |-> i.pkg, constraint |-> i.constraint,
                   digest |-> choice.entry.digest]
<1>1. edges' = edges \cup {new}
  BY DEF addEdge
<1>2. new.from = Top.pkg /\ new.to = i.pkg
  OBVIOUS
<1> HIDE DEF new
<1>3. Links' = Links \cup {<<Top.pkg, i.pkg>>}
  BY <1>1, <1>2 DEF Links
<1>4. QED
  BY <1>1, <1>2, <1>3

LEMMA EdgesStep ==
    ASSUME IInv, WalkStep
    PROVE  EdgesOK'
<1>1. /\ TypeOK /\ StackOK /\ WalkedOnce /\ EdgesOK /\ frames \in Seq(Frame)
      /\ Selected \subseteq Package
  BY DEF IInv, TypeOK, Selected
<1>2. CASE UNCHANGED walk \/ Finish
  BY <1>1, <1>2 DEF walk, EdgesOK, Selected, Finish
<1>3. CASE Start
  BY <1>1, <1>3 DEF Start, EdgesOK, StackOK
<1>4. ASSUME NEW i \in Import, NEW c \in Claim, Objected(i, c)
      PROVE  EdgesOK'
  <2>1. /\ frames # << >> /\ frames' = Handled(i) /\ Selected' = Selected
        /\ UNCHANGED <<visited, edges>>
    BY <1>4 DEF Objected, Selected
  <2>2. /\ Len(frames') = Len(frames)
        /\ \A k \in 1 .. Len(frames) : frames'[k].pkg = frames[k].pkg
    BY <1>1, <2>1, HandledFrames
  <2>3. QED
    BY <1>1, <2>1, <2>2 DEF EdgesOK
<1>5. ASSUME NEW i \in Import, Rejoined(i)
      PROVE  EdgesOK'
  <2>1. /\ frames # << >> /\ i.pkg \in visited
        /\ Selected' = Selected /\ visited' = visited
    BY <1>5 DEF Rejoined, Selected
  <2>2. /\ Len(frames') = Len(frames)
        /\ \A k \in 1 .. Len(frames) : frames'[k].pkg = frames[k].pkg
    BY <1>1, <1>5, <2>1, HandledFrames DEF Rejoined
  <2>3. \A e \in edges' : e \in edges \/ (e.from = Top.pkg /\ e.to = i.pkg)
    BY <1>5, NewEdge DEF Rejoined
  <2>4. QED
    BY <1>1, <2>1, <2>2, <2>3, TopPackage DEF EdgesOK, WalkedOnce
<1>6. ASSUME NEW i \in Import, NEW choice \in Choice, Joined(i, choice)
      PROVE  EdgesOK'
  <2> DEFINE f == [pkg |-> i.pkg, todo |-> Parsed[choice.bytes].imports]
             n == Len(frames)
  <2>1. f \in Frame /\ f.pkg = i.pkg /\ i.pkg \in Package
    BY OpenedFrame, ImportTypes
  <2>2. /\ frames # << >> /\ frames' = Append(Handled(i), f) /\ visited' = visited
        /\ i.pkg \notin Open /\ i.pkg \notin Selected
    BY <1>6 DEF Joined, Selected
  <2> HIDE DEF f
  <2>3. /\ Len(frames') = Len(frames) + 1 /\ frames'[Len(frames) + 1] = f
        /\ \A k \in 1 .. Len(frames) : frames'[k].pkg = frames[k].pkg
        /\ Len(frames) \in Nat \ {0}
    BY <1>1, <2>1, <2>2, PushedFrames
  <2>4. Selected' = Selected \cup {i.pkg}
    BY <1>1, <1>6, SelectedJoined DEF Joined
  <2>5. \A e \in edges' : e \in edges \/ (e.from = Top.pkg /\ e.to = i.pkg)
    BY <1>6, NewEdge DEF Joined
  <2>6. i.pkg # Root /\ i.pkg # Top.pkg
    BY <2>1, <2>2, TopPackage, WorldAssumption
  <2>7. ASSUME NEW e \in edges
        PROVE  /\ e.from \in Selected' \cup {Root} /\ e.to \in Selected'
               /\ e.from \in visited' => e.to \in visited'
               /\ \A k \in 2 .. Len(frames') :
                     e.from = frames'[k].pkg =>
                         \/ e.to \in visited'
                         \/ k < Len(frames') /\ e.to = frames'[k + 1].pkg
    <3>1. e.from \in Selected \cup {Root} /\ e.to \in Selected
      BY <1>1 DEF EdgesOK
    <3>2. e.from # i.pkg
      BY <2>2, <2>6, <3>1
    <3>3. ASSUME NEW k \in 2 .. Len(frames'), e.from = frames'[k].pkg
          PROVE  \/ e.to \in visited'
                 \/ k < Len(frames') /\ e.to = frames'[k + 1].pkg
      <4>1. k \in 2 .. n /\ e.from = frames[k].pkg
        BY <2>1, <2>3, <3>2, <3>3
      <4>2. e.to \in visited \/ (k < n /\ e.to = frames[k + 1].pkg)
        BY <1>1, <4>1 DEF EdgesOK
      <4>3. QED
        BY <2>2, <2>3, <4>1, <4>2
    <3>4. QED
      BY <1>1, <2>2, <2>4, <3>1, <3>3 DEF EdgesOK
  <2>8. ASSUME NEW e, e.from = Top.pkg, e.to = i.pkg
        PROVE  /\ e.from \in Selected' \cup {Root} /\ e.to \in Selected'
               /\ e.from \in visited' => e.to \in visited'
               /\ \A k \in 2 .. Len(frames') :
                     e.from = frames'[k].pkg =>
                         \/ e.to \in visited'
                         \/ k < Len(frames') /\ e.to = frames'[k + 1].pkg
    <3>1. ASSUME NEW k \in 2 .. Len(frames'), e.from = frames'[k].pkg
          PROVE  k < Len(frames') /\ e.to = frames'[k + 1].pkg
      <4>1. k \in 2 .. n /\ frames[k].pkg = Top.pkg
        BY <2>1, <2>3, <2>6, <2>8, <3>1
      <4>2. k = n
        BY <2>2, <4>1, TopPackage
      <4>3. QED
        BY <2>1, <2>3, <2>8, <4>2
    <3>2. QED
      BY <2>2, <2>4, <2>8, <3>1, TopPackage
  <2>9. QED
    BY <2>5, <2>7, <2>8 DEF EdgesOK
<1>7. CASE Return
  <2>1. /\ Len(frames) > 1 /\ frames' = SubSeq(frames, 1, Len(frames) - 1)
        /\ visited' = visited \cup {Top.pkg} /\ Selected' = Selected /\ edges' = edges
    BY <1>7 DEF Return, Selected
  <2>2. /\ Len(frames') = Len(frames) - 1 /\ Len(frames) \in Nat
        /\ \A k \in 1 .. Len(frames) - 1 : frames'[k] = frames[k]
    BY <1>1, <2>1, PoppedFrames
  <2>3. \A e \in edges : e.from = Top.pkg => e.to \in visited
    BY <1>1, <2>1, <2>2 DEF EdgesOK, Top
  <2>4. ASSUME NEW e \in edges, NEW k \in 2 .. Len(frames) - 1, e.from = frames[k].pkg
        PROVE  \/ e.to \in visited'
               \/ k < Len(frames) - 1 /\ e.to = frames[k + 1].pkg
    BY <1>1, <2>1, <2>2, <2>4 DEF EdgesOK, Top
  <2>5. QED
    BY <1>1, <2>1, <2>2, <2>3, <2>4 DEF EdgesOK
<1>8. QED
  BY <1>2, <1>3, <1>4, <1>5, <1>6, <1>7 DEF WalkStep

(* A link to a visited package, or to a new one, closes no cycle.          *)
LEMMA AcyclicStep ==
    ASSUME IInv, WalkStep
    PROVE  Acyclic'
<1>1. TypeOK /\ WalkedOnce /\ EdgesOK /\ Graph!IsAcyclic(Links)
  BY DEF IInv, Acyclic
<1>2. CASE UNCHANGED edges
  BY <1>1, <1>2 DEF Acyclic, Links, Graph!IsAcyclic
<1>3. \A p, q : <<p, q>> \in Links => \E e \in edges : p = e.from /\ q = e.to
  BY DEF Links
<1>4. ASSUME NEW i \in Import, Rejoined(i), NEW S \in SUBSET Package, S # {}
      PROVE  \E p \in S : \A q \in S : <<p, q>> \notin Links \cup {<<Top.pkg, i.pkg>>}
  <2>1. i.pkg \in visited /\ Top.pkg \notin visited
    BY <1>4, TopPackage DEF Rejoined
  <2>2. CASE S \cap visited = {}
    <3>1. PICK p \in S : \A q \in S : <<p, q>> \notin Links
      BY <1>1, <1>4 DEF Graph!IsAcyclic
    <3>2. QED
      BY <2>1, <2>2, <3>1
  <2>3. CASE S \cap visited # {}
    <3>1. PICK p \in S \cap visited : \A q \in S \cap visited : <<p, q>> \notin Links
      BY <1>1, <2>3 DEF Graph!IsAcyclic
    <3>2. \A q : <<p, q>> \in Links => q \in visited
      BY <1>1, <1>3, <3>1 DEF EdgesOK
    <3>3. QED
      BY <2>1, <3>1, <3>2
  <2>4. QED
    BY <2>2, <2>3
<1>5. ASSUME NEW i \in Import, NEW choice \in Choice, Joined(i, choice),
             NEW S \in SUBSET Package, S # {}
      PROVE  \E p \in S : \A q \in S : <<p, q>> \notin Links \cup {<<Top.pkg, i.pkg>>}
  <2>1. i.pkg \notin Selected /\ i.pkg # Root /\ i.pkg # Top.pkg
    <3>1. i.pkg \in Package /\ i.pkg \notin Open /\ i.pkg \notin Selected /\ frames # << >>
      BY <1>5, ImportTypes DEF Joined, Selected
    <3>2. QED
      BY <3>1, TopPackage, WorldAssumption
  <2>2. CASE i.pkg \in S
    <3>1. \A q : <<i.pkg, q>> \notin Links
      BY <1>1, <1>3, <2>1 DEF EdgesOK
    <3>2. QED
      BY <2>1, <2>2, <3>1
  <2>3. CASE i.pkg \notin S
    <3>1. PICK p \in S : \A q \in S : <<p, q>> \notin Links
      BY <1>1, <1>5 DEF Graph!IsAcyclic
    <3>2. QED
      BY <2>3, <3>1
  <2>4. QED
    BY <2>2, <2>3
<1>6. CASE \E i \in Import : Rejoined(i)
  <2>1. PICK i \in Import : Rejoined(i)
    BY <1>6
  <2>2. Links' = Links \cup {<<Top.pkg, i.pkg>>}
    BY <2>1, NewEdge DEF Rejoined
  <2>3. QED
    BY <1>4, <2>1, <2>2 DEF Acyclic, Graph!IsAcyclic
<1>7. CASE \E i \in Import : \E choice \in Choice : Joined(i, choice)
  <2>1. PICK i \in Import, choice \in Choice : Joined(i, choice)
    BY <1>7
  <2>2. Links' = Links \cup {<<Top.pkg, i.pkg>>}
    BY <2>1, NewEdge DEF Joined
  <2>3. QED
    BY <1>5, <2>1, <2>2 DEF Acyclic, Graph!IsAcyclic
<1>8. QED
  BY <1>2, <1>6, <1>7 DEF WalkStep, walk, Start, Objected, Return, Finish

(* The imports of a selected package and of the root are imports.          *)
LEMMA ImportsTyped ==
    ASSUME TypeOK, NEW p \in Selected \cup {Root}
    PROVE  ImportsOf(p) \subseteq Import
<1>1. CASE p = Root
  BY <1>1 DEF TypeOK, ImportsOf, Import
<1>2. CASE p # Root
  <2>1. selected[p].bytes \in Sources
    BY <1>2 DEF TypeOK, Selected
  <2>2. Parsed[selected[p].bytes].imports \in {Parsed[b].imports : b \in Sources}
    BY <2>1
  <2>3. QED
    BY <1>2, <2>2 DEF ImportsOf, SourceOf, Import
<1>3. QED
  BY <1>1, <1>2

(* An import of the top package stays waiting while another is handled.    *)
LEMMA StillWaiting ==
    ASSUME frames \in Seq(Frame), frames' \in Seq(Frame), frames # << >>,
           Len(frames') \in {Len(frames), Len(frames) + 1},
           \A k \in 1 .. Len(frames) : frames'[k].pkg = frames[k].pkg,
           \A k \in 1 .. Len(frames) : k # Len(frames) => frames'[k] = frames[k],
           NEW i, frames'[Len(frames)].todo = Top.todo \ {i},
           NEW p, NEW j, Waiting(p, j)
    PROVE  Waiting(p, j)' \/ (p = Top.pkg /\ j = i)
<1>1. PICK k \in 1 .. Len(frames) : frames[k].pkg = p /\ j \in frames[k].todo
  BY DEF Waiting
<1>2. CASE k < Len(frames)
  BY <1>1, <1>2 DEF Waiting
<1>3. CASE k = Len(frames)
  BY <1>1, <1>3 DEF Waiting, Top
<1>4. QED
  BY <1>1, <1>2, <1>3

LEMMA AccountedStep ==
    ASSUME IInv, WalkStep, UNCHANGED world
    PROVE  Accounted'
<1>1. /\ TypeOK /\ StackOK /\ WalkedOnce /\ Accounted /\ frames \in Seq(Frame)
      /\ root' = root
  BY DEF IInv, TypeOK, world
<1>2. CASE UNCHANGED walk \/ Finish
  <2>1. UNCHANGED <<root, frames, selected, edges, decisions>>
    BY <1>1, <1>2 DEF walk, Finish
  <2>2. Selected' = Selected
    BY <2>1 DEF Selected
  <2>3. \A p : ImportsOf(p)' = ImportsOf(p)
    BY <2>1 DEF ImportsOf, SourceOf
  <2>4. \A p, j : Linked(p, j) => Linked(p, j)'
    BY <2>1 DEF Linked, Pinned, SourceOf
  <2>5. \A p, j : Waiting(p, j) => Waiting(p, j)'
    BY <2>1 DEF Waiting
  <2>6. QED
    BY <1>1, <2>1, <2>2, <2>3, <2>4, <2>5 DEF Accounted
<1>3. CASE Start
  <2>1. /\ Selected' = {} /\ ImportsOf(Root)' = root
        /\ frames' = << >> \/ frames' = << [pkg |-> Root, todo |-> root] >>
    BY <1>1, <1>3 DEF Start, StackOK, Selected, ImportsOf
  <2>2. QED
    BY <2>1 DEF Accounted, Waiting
<1>4. CASE \E i \in Import : \E c \in Claim : Objected(i, c)
  <2>1. PICK c \in Claim : decisions' = Append(decisions, c)
    BY <1>4 DEF Objected
  <2>2. decisions \in Seq(Claim)
    BY <1>1 DEF TypeOK
  <2>3. decisions' # << >>
    BY <2>1, <2>2
  <2>4. QED
    BY <2>3 DEF Accounted
<1>5. ASSUME NEW i \in Import, Rejoined(i), decisions = << >>,
             NEW p \in Selected \cup {Root}, NEW j \in ImportsOf(p)
      PROVE  Linked(p, j)' \/ Waiting(p, j)'
  <2>1. /\ frames # << >> /\ frames' = Handled(i) /\ selected' = selected
        /\ edges' = addEdge(i, selected[i.pkg])
    BY <1>5 DEF Rejoined
  <2>2. CASE Linked(p, j)
    BY <2>1, <2>2 DEF Linked, addEdge, Pinned, SourceOf
  <2>3. CASE p = Top.pkg /\ j = i
    <3>1. selected[i.pkg] # None
      BY <1>1, <1>5 DEF Rejoined, WalkedOnce, Selected
    <3>2. QED
      BY <1>5, <2>1, <2>3, <3>1 DEF Linked, Rejoined, addEdge, Pinned, SourceOf
  <2>4. CASE Waiting(p, j)
    <3>1. /\ frames' \in Seq(Frame) /\ Len(frames') = Len(frames)
          /\ \A k \in 1 .. Len(frames) : frames'[k].pkg = frames[k].pkg
          /\ \A k \in 1 .. Len(frames) : k # Len(frames) => frames'[k] = frames[k]
          /\ frames'[Len(frames)].todo = Top.todo \ {i}
      BY <1>1, <2>1, HandledFrames
    <3>2. Waiting(p, j)' \/ (p = Top.pkg /\ j = i)
      BY <1>1, <2>1, <2>4, <3>1, StillWaiting
    <3>3. QED
      BY <2>3, <3>2
  <2>5. QED
    BY <1>1, <1>5, <2>1, <2>2, <2>4 DEF Accounted
<1>6. ASSUME NEW i \in Import, NEW choice \in Choice, Joined(i, choice), decisions = << >>,
             NEW p \in Selected \cup {Root}, NEW j \in ImportsOf(p)
      PROVE  Linked(p, j)' \/ Waiting(p, j)'
  <2> DEFINE f == [pkg |-> i.pkg, todo |-> Parsed[choice.bytes].imports]
  <2>1. /\ frames # << >> /\ frames' = Append(Handled(i), f)
        /\ edges' = addEdge(i, choice) /\ selected[i.pkg] = None
    BY <1>6 DEF Joined
  <2>2. /\ selected'[i.pkg] = choice /\ choice # None
        /\ \A q \in Package \ {i.pkg} : selected'[q] = selected[q]
    BY <1>1, <1>6, SelectedJoined, WorldAssumption DEF Joined, Choice, Sources
  <2>3. CASE Linked(p, j)
    <3>1. j.pkg \in Package \ {i.pkg}
      BY <1>1, <1>6, <2>1, <2>3, ImportsTyped, ImportTypes DEF Linked
    <3>2. QED
      BY <2>1, <2>2, <2>3, <3>1 DEF Linked, addEdge, Pinned, SourceOf
  <2>4. CASE p = Top.pkg /\ j = i
    <3>1. i.digest \in {None, choice.entry.digest}
      BY <1>6 DEF Joined, candidates
    <3>2. v2ImportMatches(Parsed[choice.bytes], i) = None
      BY <1>6, InspectAccepts DEF Joined, Choice, Sources
    <3>3. QED
      BY <2>1, <2>2, <2>4, <3>1, <3>2 DEF Linked, addEdge, Pinned, SourceOf
  <2>5. CASE Waiting(p, j)
    <3>1. f \in Frame
      BY OpenedFrame
    <3> HIDE DEF f
    <3>2. /\ frames' \in Seq(Frame) /\ Len(frames') = Len(frames) + 1
          /\ \A k \in 1 .. Len(frames) : frames'[k].pkg = frames[k].pkg
          /\ \A k \in 1 .. Len(frames) : k # Len(frames) => frames'[k] = frames[k]
          /\ frames'[Len(frames)].todo = Top.todo \ {i}
      <4>1. frames' \in Seq(Frame) /\ Len(frames') = Len(frames) + 1
        BY <1>1, <2>1, <3>1, PushedFrames
      <4>2. \A k \in 1 .. Len(frames) : frames'[k].pkg = frames[k].pkg
        BY <1>1, <2>1, <3>1, PushedFrames
      <4>3. \A k \in 1 .. Len(frames) : k # Len(frames) => frames'[k] = frames[k]
        BY <1>1, <2>1, <3>1, PushedFrames
      <4>4. frames'[Len(frames)].todo = Top.todo \ {i}
        BY <1>1, <2>1, <3>1, PushedFrames
      <4>5. QED
        BY <4>1, <4>2, <4>3, <4>4
    <3>3. Waiting(p, j)' \/ (p = Top.pkg /\ j = i)
      BY <1>1, <2>1, <2>5, <3>2, StillWaiting
    <3>4. QED
      BY <2>4, <3>3
  <2>6. QED
    BY <1>1, <1>6, <2>1, <2>3, <2>5 DEF Accounted
<1>7. ASSUME NEW i \in Import, NEW choice \in Choice, Joined(i, choice),
             NEW j \in Parsed[choice.bytes].imports
      PROVE  Waiting(i.pkg, j)'
  <2> DEFINE f == [pkg |-> i.pkg, todo |-> Parsed[choice.bytes].imports]
  <2>1. f \in Frame /\ f.pkg = i.pkg /\ j \in f.todo
    BY <1>7, OpenedFrame
  <2>2. frames # << >> /\ frames' = Append(Handled(i), f)
    BY <1>7 DEF Joined
  <2> HIDE DEF f
  <2>3. /\ Len(frames') = Len(frames) + 1 /\ frames'[Len(frames) + 1] = f
        /\ Len(frames) \in Nat
    BY <1>1, <2>1, <2>2, PushedFrames
  <2>4. QED
    BY <2>1, <2>3 DEF Waiting
<1>8. ASSUME Return, decisions = << >>,
             NEW p \in Selected \cup {Root}, NEW j \in ImportsOf(p)
      PROVE  Linked(p, j)' \/ Waiting(p, j)'
  <2>1. /\ Len(frames) > 1 /\ frames # << >> /\ Top.todo = {}
        /\ frames' = SubSeq(frames, 1, Len(frames) - 1)
        /\ UNCHANGED <<selected, edges>>
    BY <1>8 DEF Return
  <2>2. CASE Linked(p, j)
    BY <2>1, <2>2 DEF Linked, Pinned, SourceOf
  <2>3. CASE Waiting(p, j)
    <3>1. PICK k \in 1 .. Len(frames) : frames[k].pkg = p /\ j \in frames[k].todo
      BY <2>3 DEF Waiting
    <3>2. k \in 1 .. Len(frames) - 1
      BY <2>1, <3>1 DEF Top
    <3>3. QED
      BY <1>1, <2>1, <3>1, <3>2, PoppedFrames DEF Waiting
  <2>4. QED
    BY <1>1, <1>8, <2>1, <2>2, <2>3 DEF Accounted
<1>9. CASE \E i \in Import : Rejoined(i)
  <2>1. PICK i \in Import : Rejoined(i)
    BY <1>9
  <2>2. UNCHANGED <<selected, decisions>>
    BY <2>1 DEF Rejoined
  <2>3. Selected' = Selected /\ \A p : ImportsOf(p)' = ImportsOf(p)
    BY <1>1, <2>2 DEF Selected, ImportsOf, SourceOf
  <2>4. QED
    BY <1>5, <2>1, <2>2, <2>3 DEF Accounted
<1>10. CASE \E i \in Import : \E choice \in Choice : Joined(i, choice)
  <2>1. PICK i \in Import, choice \in Choice : Joined(i, choice)
    BY <1>10
  <2>2. /\ Selected' = Selected \cup {i.pkg} /\ selected'[i.pkg] = choice
        /\ \A p \in Package \ {i.pkg} : selected'[p] = selected[p]
        /\ i.pkg \in Package /\ i.pkg \notin Selected /\ decisions' = decisions
    BY <1>1, <2>1, SelectedJoined, ImportTypes DEF Joined, Selected
  <2>3. \A p \in Selected \cup {Root} : ImportsOf(p)' = ImportsOf(p)
    BY <1>1, <2>2 DEF ImportsOf, SourceOf, Selected
  <2>4. ImportsOf(i.pkg)' = Parsed[choice.bytes].imports
    BY <2>2, WorldAssumption DEF ImportsOf, SourceOf
  <2>5. QED
    BY <1>6, <1>7, <2>1, <2>2, <2>3, <2>4 DEF Accounted
<1>11. CASE Return
  <2>1. UNCHANGED <<selected, decisions>>
    BY <1>11 DEF Return
  <2>2. Selected' = Selected /\ \A p : ImportsOf(p)' = ImportsOf(p)
    BY <1>1, <2>1 DEF Selected, ImportsOf, SourceOf
  <2>3. QED
    BY <1>8, <1>11, <2>1, <2>2 DEF Accounted
<1>12. QED
  BY <1>2, <1>3, <1>4, <1>9, <1>10, <1>11 DEF WalkStep

LEMMA EndStep ==
    ASSUME IInv, WalkStep
    PROVE  EndOK'
<1>1. /\ EndOK /\ TypeOK /\ frames \in Seq(Frame) /\ decisions \in Seq(Claim)
  BY DEF IInv, TypeOK
<1>2. CASE UNCHANGED walk
  BY <1>1, <1>2 DEF walk, EndOK
<1>3. CASE Start
  <2>1. errorClaim # closedClaim
    BY DEF errorClaim, closedClaim, Closed
  <2>2. QED
    BY <1>3, <2>1, WorldAssumption DEF Start, EndOK
<1>4. ASSUME UNCHANGED outcome, frames # << >>, Top.todo # {} \/ Len(frames) > 1
      PROVE  EndOK'
  <2>1. CASE outcome = closedClaim
    <3>1. Len(frames) = 1 /\ frames[1].todo = {}
      BY <1>1, <2>1 DEF EndOK
    <3>2. Top.todo = {}
      BY <3>1 DEF Top
    <3>3. QED
      BY <1>4, <3>1, <3>2
  <2>2. CASE outcome # closedClaim
    <3>1. outcome' = outcome
      BY <1>4
    <3>2. QED
      BY <2>2, <3>1 DEF EndOK, closedClaim
  <2>3. QED
    BY <2>1, <2>2
<1>5. CASE Finish
  <2>1. /\ UNCHANGED <<frames, decisions>> /\ Len(frames) = 1 /\ frames[1].todo = {}
    BY <1>5 DEF Finish, Top
  <2>2. CASE decisions = << >>
    BY <2>1, <2>2 DEF EndOK
  <2>3. CASE decisions # << >>
    <3>1. PICK k \in DOMAIN decisions : outcome' = decisions[k]
      BY <1>5, <2>3 DEF Finish, finalClaim
    <3>6. outcome' \in Claim
      BY <1>1, <3>1
    <3>2. outcome'.state \in {Refuted, Unknown}
      BY <3>6 DEF Claim, ClaimSet
    <3>3. closedClaim.state = Closed
      BY DEF closedClaim
    <3>4. outcome' # closedClaim
      BY <3>2, <3>3 DEF Refuted, Unknown, Closed
    <3>5. QED
      BY <3>4 DEF EndOK
  <2>4. QED
    BY <2>2, <2>3
<1>6. CASE Return
  BY <1>1, <1>4, <1>6 DEF Return
<1>7. QED
  BY <1>2, <1>3, <1>4, <1>5, <1>6 DEF WalkStep, Objected, Rejoined, Joined

-------------------------------------------------------------------------------
(* The theorems.                                                           *)

LEMMA Initially == Init => IInv
<1> SUFFICES ASSUME Init PROVE IInv
  OBVIOUS
<1>1. Selected = {} /\ Open = {} /\ Links = {}
  BY DEF Init, Selected, Open, Links
<1>2. TypeOK
  <2>1. catalog \subseteq Entry /\ root \subseteq Import
    BY DEF Init, Entry, Import
  <2>2. QED
    BY <2>1, WorldAssumption DEF Init, TypeOK
<1>3. ProbeOK /\ StackOK /\ EdgesOK /\ Accounted
  BY <1>1 DEF Init, ProbeOK, StackOK, EdgesOK, Accounted
<1>4. WalkedOnce /\ VerifiedSelection
  BY <1>1 DEF Init, WalkedOnce, VerifiedSelection
<1>5. Acyclic
  BY <1>1 DEF Acyclic, Graph!IsAcyclic
<1>6. EndOK
  BY WorldAssumption DEF Init, EndOK
<1>7. QED
  BY <1>2, <1>3, <1>4, <1>5, <1>6 DEF IInv

LEMMA Inductive == IInv /\ [Next]_vars => IInv'
  BY TypeStep, ProbeSteps, WalkSteps, StackStep, WalkedOnceStep, VerifiedStep, EdgesStep,
     AcyclicStep, AccountedStep, EndStep
  DEF IInv

(* The invariant holds of every resolution.                                *)
THEOREM Invariance == Spec => []IInv
  BY Initially, Inductive, PTL DEF Spec

(* However files change and candidates fail, the state keeps its type.     *)
THEOREM Typing == Spec => []TypeOK
  BY Invariance, PTL DEF IInv

(* Whatever is selected was verified on the bytes that were parsed.        *)
THEOREM Verification == Spec => []VerifiedSelection
  BY Invariance, PTL DEF IInv

(* Packages are open or visited, not both, and none is walked twice.       *)
THEOREM Walking == Spec => []WalkedOnce
  BY Invariance, PTL DEF IInv

(* The links of a resolution never close a cycle.                          *)
THEOREM Acyclicity == Spec => []Acyclic
  BY Invariance, PTL DEF IInv

LEMMA EndComplete == IInv => ClosedIsComplete
<1> SUFFICES ASSUME IInv, outcome = closedClaim,
                    NEW p \in Selected \cup {Root}, NEW i \in ImportsOf(p)
             PROVE  Linked(p, i)
  BY DEF ClosedIsComplete
<1>1. decisions = << >> /\ Len(frames) = 1 /\ frames[1].todo = {}
  BY DEF IInv, EndOK
<1>2. frames # << >>
  BY <1>1
<1>3. ~ Waiting(p, i)
  BY <1>1 DEF Waiting
<1>4. QED
  BY <1>1, <1>2, <1>3 DEF IInv, Accounted

(* A CLOSED resolution links every import of every package it contains.    *)
THEOREM Completeness == Spec => []ClosedIsComplete
  BY Invariance, EndComplete, PTL

LEMMA Grows ==
    ASSUME IInv, WalkStep
    PROVE  /\ \A p \in Selected : selected'[p] = selected[p]
           /\ visited \subseteq visited' /\ edges \subseteq edges'
           /\ \E n \in 0 .. Len(decisions') : decisions = SubSeq(decisions', 1, n)
<1>1. TypeOK /\ decisions \in Seq(Claim) /\ Len(decisions) \in Nat
  BY DEF IInv, TypeOK
<1>2. /\ decisions = SubSeq(decisions, 1, Len(decisions))
      /\ \A c \in Claim : /\ decisions = SubSeq(Append(decisions, c), 1, Len(decisions))
                          /\ Len(Append(decisions, c)) = Len(decisions) + 1
  BY <1>1
<1>3. \E n \in 0 .. Len(decisions') : decisions = SubSeq(decisions', 1, n)
  <2>1. CASE decisions' = decisions
    <3>1. /\ Len(decisions) \in 0 .. Len(decisions')
          /\ decisions = SubSeq(decisions', 1, Len(decisions))
      BY <1>1, <1>2, <2>1
    <3>2. QED
      BY <3>1
  <2>2. ASSUME NEW c \in Claim, decisions' = Append(decisions, c)
        PROVE  \E n \in 0 .. Len(decisions') : decisions = SubSeq(decisions', 1, n)
    <3>1. /\ Len(decisions) \in 0 .. Len(decisions')
          /\ decisions = SubSeq(decisions', 1, Len(decisions))
      BY <1>1, <1>2, <2>2
    <3>2. QED
      BY <3>1
  <2>3. QED
    BY <2>1, <2>2 DEF WalkStep, walk, Start, Objected, Rejoined, Joined, Return, Finish
<1>4. ASSUME NEW i \in Import, NEW choice \in Choice, Joined(i, choice)
      PROVE  \A p \in Selected : selected'[p] = selected[p]
  BY <1>1, <1>4, SelectedJoined DEF Joined, Selected
<1>5. \A p \in Selected : selected'[p] = selected[p]
  BY <1>4 DEF WalkStep, walk, Start, Objected, Rejoined, Return, Finish
<1>6. visited \subseteq visited'
  BY DEF WalkStep, walk, Start, Objected, Rejoined, Joined, Return, Finish
<1>7. edges \subseteq edges'
  BY DEF WalkStep, walk, Start, Objected, Rejoined, Joined, Return, Finish, addEdge
<1>8. QED
  BY <1>3, <1>5, <1>6, <1>7

(* Nothing that was selected, visited, linked or decided is taken back.    *)
THEOREM Growth == Spec => OnlyGrows
<1>1. IInv /\ [Next]_vars =>
        [ /\ \A p \in Selected : selected'[p] = selected[p]
          /\ visited \subseteq visited' /\ edges \subseteq edges'
          /\ \E n \in 0 .. Len(decisions') : decisions = SubSeq(decisions', 1, n) ]_vars
  BY WalkSteps, Grows
<1>2. QED
  BY <1>1, Invariance, PTL DEF Spec, OnlyGrows

-------------------------------------------------------------------------------
(* Links are declared.  What waits in a frame is declared by its package.  *)

FramesDeclared ==
    \A k \in 1 .. Len(frames) : frames[k].todo \subseteq ImportsOf(frames[k].pkg)

Declared == LinksAreDeclared /\ FramesDeclared

(* One edge, declared by p, to a selected package.                         *)
DeclaredEdge(e, p, i, digest) ==
    e.from = p /\ e.to = i.pkg /\ e.constraint = i.constraint /\ e.digest = digest

LEMMA AddedOne ==
    ASSUME NEW i, NEW choice, edges' = addEdge(i, choice)
    PROVE  \E e : edges' = edges \cup {e}
                  /\ DeclaredEdge(e, Top.pkg, i, choice.entry.digest)
<1> DEFINE new == [from |-> Top.pkg, to |-> i.pkg, constraint |-> i.constraint,
                   digest |-> choice.entry.digest]
<1>1. edges' = edges \cup {new}
  BY DEF addEdge
<1>2. DeclaredEdge(new, Top.pkg, i, choice.entry.digest)
  BY DEF DeclaredEdge
<1>3. QED
  BY <1>1, <1>2

(* The packages in frames are selected, or the root.                       *)
LEMMA FramePackages ==
    ASSUME IInv, NEW k \in 1 .. Len(frames)
    PROVE  frames[k].pkg \in Selected \cup {Root}
<1>1. frames \in Seq(Frame) /\ StackOK /\ WalkedOnce
  BY DEF IInv, TypeOK
<1>2. frames # << >>
  BY <1>1
<1>3. CASE k = 1
  BY <1>1, <1>2, <1>3 DEF StackOK
<1>4. CASE k # 1
  BY <1>1, <1>4 DEF WalkedOnce, Open
<1>5. QED
  BY <1>3, <1>4

LEMMA FramesDeclaredStep ==
    ASSUME IInv, Declared, WalkStep, UNCHANGED world
    PROVE  FramesDeclared'
<1>1. /\ TypeOK /\ frames \in Seq(Frame) /\ FramesDeclared /\ root' = root
  BY DEF IInv, TypeOK, Declared, world
<1>2. CASE UNCHANGED walk \/ Finish
  BY <1>1, <1>2 DEF walk, Finish, FramesDeclared, ImportsOf, SourceOf
<1>3. CASE Start
  BY <1>1, <1>3 DEF Start, FramesDeclared, ImportsOf
<1>4. ASSUME NEW i \in Import, frames # << >>, frames' = Handled(i), UNCHANGED selected
      PROVE  FramesDeclared'
  <2>1. /\ Len(frames') = Len(frames) /\ Len(frames) \in Nat \ {0}
        /\ \A k \in 1 .. Len(frames) : frames'[k].pkg = frames[k].pkg
        /\ \A k \in 1 .. Len(frames) : k # Len(frames) => frames'[k] = frames[k]
        /\ frames'[Len(frames)].todo = Top.todo \ {i}
    BY <1>1, <1>4, HandledFrames
  <2>2. \A p : ImportsOf(p)' = ImportsOf(p)
    BY <1>1, <1>4 DEF ImportsOf, SourceOf
  <2>3. \A k \in 1 .. Len(frames) : frames'[k].todo \subseteq frames[k].todo
    BY <2>1 DEF Top
  <2>4. QED
    BY <1>1, <2>1, <2>2, <2>3 DEF FramesDeclared
<1>5. ASSUME NEW i \in Import, NEW choice \in Choice, Joined(i, choice)
      PROVE  FramesDeclared'
  <2> DEFINE f == [pkg |-> i.pkg, todo |-> Parsed[choice.bytes].imports]
  <2>1. f \in Frame /\ f.pkg = i.pkg /\ f.todo = Parsed[choice.bytes].imports
    BY OpenedFrame
  <2>2. frames # << >> /\ frames' = Append(Handled(i), f)
    BY <1>5 DEF Joined
  <2>3. /\ selected'[i.pkg] = choice /\ i.pkg \notin Selected \cup {Root}
        /\ \A p \in Selected : selected'[p] = selected[p]
    BY <1>1, <1>5, SelectedJoined, ImportTypes, WorldAssumption DEF Joined, Selected
  <2> HIDE DEF f
  <2>4. /\ Len(frames') = Len(frames) + 1 /\ frames'[Len(frames) + 1] = f
        /\ Len(frames) \in Nat \ {0}
        /\ \A k \in 1 .. Len(frames) : frames'[k].pkg = frames[k].pkg
    BY <1>1, <2>1, <2>2, PushedFrames
  <2>5. \A k \in 1 .. Len(frames) : k # Len(frames) => frames'[k] = frames[k]
    BY <1>1, <2>1, <2>2, PushedFrames
  <2>6. frames'[Len(frames)].todo = Top.todo \ {i}
    BY <1>1, <2>1, <2>2, PushedFrames
  <2> DEFINE now(p) == IF p = Root THEN root' ELSE Parsed[selected'[p].bytes].imports
  <2>7. now(i.pkg) = f.todo
    BY <2>1, <2>3
  <2>8. \A p \in Selected \cup {Root} : now(p) = ImportsOf(p)
    BY <1>1, <2>3 DEF ImportsOf, SourceOf
  <2>9. \A k \in 1 .. Len(frames) : frames'[k].todo \subseteq frames[k].todo
    BY <2>4, <2>5, <2>6 DEF Top
  <2> HIDE DEF now
  <2>10. \A k \in 1 .. Len(frames) : frames'[k].todo \subseteq now(frames'[k].pkg)
    BY <1>1, <2>4, <2>8, <2>9, FramePackages DEF FramesDeclared
  <2>11. \A k \in 1 .. Len(frames') : frames'[k].todo \subseteq now(frames'[k].pkg)
    BY <2>1, <2>4, <2>7, <2>10
  <2>12. QED
    BY <2>11 DEF FramesDeclared, ImportsOf, SourceOf, now
<1>6. CASE Return
  <2>1. /\ Len(frames) > 1 /\ frames' = SubSeq(frames, 1, Len(frames) - 1)
        /\ selected' = selected
    BY <1>6 DEF Return
  <2>2. /\ Len(frames') = Len(frames) - 1 /\ Len(frames) \in Nat
        /\ \A k \in 1 .. Len(frames) - 1 : frames'[k] = frames[k]
    BY <1>1, <2>1, PoppedFrames
  <2>3. \A p : ImportsOf(p)' = ImportsOf(p)
    BY <1>1, <2>1 DEF ImportsOf, SourceOf
  <2>4. QED
    BY <1>1, <2>2, <2>3 DEF FramesDeclared
<1>7. QED
  BY <1>2, <1>3, <1>4, <1>5, <1>6 DEF WalkStep, Objected, Rejoined

LEMMA LinksDeclaredStep ==
    ASSUME IInv, Declared, WalkStep, UNCHANGED world
    PROVE  LinksAreDeclared'
<1>1. /\ TypeOK /\ frames \in Seq(Frame) /\ WalkedOnce /\ LinksAreDeclared /\ root' = root
      /\ StackOK
  BY DEF IInv, TypeOK, Declared, world
<1>2. CASE UNCHANGED <<selected, edges>>
  BY <1>1, <1>2 DEF LinksAreDeclared, Selected, ImportsOf, SourceOf
<1>3. ASSUME NEW i \in Import, frames # << >>, i \in Top.todo
      PROVE  i \in ImportsOf(Top.pkg) /\ Top.pkg \in Selected \cup {Root}
  <2>1. Len(frames) \in 1 .. Len(frames)
    BY <1>1, <1>3
  <2>2. QED
    BY <1>3, <2>1, TopPackage DEF Declared, FramesDeclared, Top
<1>4. CASE \E i \in Import : Rejoined(i)
  <2>1. PICK i \in Import : Rejoined(i)
    BY <1>4
  <2>2. /\ i \in ImportsOf(Top.pkg) /\ Top.pkg \in Selected \cup {Root}
        /\ i.pkg \in Selected /\ selected' = selected
    BY <1>1, <1>3, <2>1 DEF Rejoined, WalkedOnce
  <2>3. PICK e : /\ edges' = edges \cup {e}
                 /\ DeclaredEdge(e, Top.pkg, i, selected[i.pkg].entry.digest)
    BY <2>1, AddedOne DEF Rejoined
  <2>4. Selected' = Selected /\ \A p : ImportsOf(p)' = ImportsOf(p)
    BY <1>1, <2>2 DEF Selected, ImportsOf, SourceOf
  <2>5. QED
    BY <1>1, <2>2, <2>3, <2>4 DEF LinksAreDeclared, DeclaredEdge
<1>5. CASE \E i \in Import : \E choice \in Choice : Joined(i, choice)
  <2>1. PICK i \in Import, choice \in Choice : Joined(i, choice)
    BY <1>5
  <2>2. /\ i \in ImportsOf(Top.pkg) /\ Top.pkg \in Selected \cup {Root}
    BY <1>3, <2>1 DEF Joined
  <2>3. PICK e : /\ edges' = edges \cup {e}
                 /\ DeclaredEdge(e, Top.pkg, i, choice.entry.digest)
    BY <2>1, AddedOne DEF Joined
  <2>4. /\ Selected' = Selected \cup {i.pkg} /\ selected'[i.pkg] = choice
        /\ i.pkg \notin Selected \cup {Root}
        /\ \A p \in Selected : selected'[p] = selected[p]
    BY <1>1, <2>1, SelectedJoined, ImportTypes, WorldAssumption DEF Joined, Selected
  <2>5. \A p \in Selected \cup {Root} : ImportsOf(p)' = ImportsOf(p)
    BY <1>1, <2>4 DEF ImportsOf, SourceOf
  <2>6. ASSUME NEW d \in edges
        PROVE  /\ d.from \in Selected' \cup {Root} /\ d.to \in Selected'
               /\ d.digest = selected'[d.to].entry.digest
               /\ \E j \in ImportsOf(d.from)' : j.pkg = d.to /\ j.constraint = d.constraint
    BY <1>1, <2>4, <2>5 DEF LinksAreDeclared
  <2>7. /\ e.from \in Selected' \cup {Root} /\ e.to \in Selected'
        /\ e.digest = selected'[e.to].entry.digest
        /\ \E j \in ImportsOf(e.from)' : j.pkg = e.to /\ j.constraint = e.constraint
    BY <2>2, <2>3, <2>4, <2>5 DEF DeclaredEdge
  <2>8. \A p \in Selected' : \E d \in edges' : d.to = p
    BY <1>1, <2>3, <2>4 DEF LinksAreDeclared, DeclaredEdge
  <2>9. QED
    BY <2>3, <2>6, <2>7, <2>8 DEF LinksAreDeclared
<1>6. QED
  BY <1>2, <1>4, <1>5 DEF WalkStep, walk, Start, Objected, Return, Finish

(* Every link stands for an import its source declares, with the digest    *)
(* that was selected, and no selected package is without one.              *)
THEOREM Declaration == Spec => []LinksAreDeclared
<1>1. Init => Declared
  BY DEF Init, Declared, LinksAreDeclared, FramesDeclared, Selected
<1>2. IInv /\ Declared /\ [Next]_vars => Declared'
  BY WalkSteps, FramesDeclaredStep, LinksDeclaredStep DEF Declared
<1>3. Declared => LinksAreDeclared
  BY DEF Declared
<1>4. QED
  BY <1>1, <1>2, <1>3, Invariance, PTL DEF Spec

-------------------------------------------------------------------------------
(* What is linked is served by the merged exports.                         *)

(* The export that made an import match.                                   *)
LEMMA MatchedExport ==
    ASSUME NEW source, NEW imp, v2ImportMatches(source, imp) = None,
           source.name \in Package
    PROVE  \E k \in DOMAIN source.exports : Offers(source.exports[k], imp)
<1>1. \A r \in DOMAIN ClaimOrder : /\ refutedClaim(r, source.name) # None
                                   /\ unknownClaim(r, source.name) # None
  BY RaisedClaims
<1> DEFINE matches == {k \in DOMAIN source.exports :
                          /\ source.exports[k].semantic = imp.semantic
                          /\ source.exports[k].shape = imp.shape}
           chosen == CHOOSE k \in matches : TRUE
<1>2. /\ matches # {}
      /\ imp.capabilities \subseteq source.exports[chosen].capabilities
      /\ source.exports[chosen].effects = imp.effects
  BY <1>1 DEF v2ImportMatches, ClaimOrder
<1>3. chosen \in matches
  BY <1>2
<1>4. QED
  BY <1>2, <1>3 DEF Offers

(* A set of places in a list has a first one.                              *)
LEMMA FirstPlace ==
    ASSUME NEW T \in SUBSET Nat, T # {}
    PROVE  \E m \in T : \A n \in T : m <= n
<1> DEFINE R == OpToRel(<, Nat)
<1>1. IsWellFoundedOn(R, Nat)
  BY NatLessThanWellFounded
<1>2. \A m, n \in Nat : n < m => <<n, m>> \in R
  BY DEF OpToRel
<1> HIDE DEF R
<1>3. PICK m \in T : \A n \in T : ~ (<<n, m>> \in R)
  BY <1>1, WFMin
<1>4. \A n \in T : m <= n
  <2> SUFFICES ASSUME NEW n \in T PROVE m <= n
    OBVIOUS
  <2>1. ~ (n < m)
    BY <1>2, <1>3, Zenon
  <2>2. QED
    BY <2>1
<1>5. QED
  BY <1>4

LEMMA Served == IInv /\ ClosedIsComplete => MergeServesLinks
<1> DEFINE exports(i) == SourceOf(i.pkg).exports
<1> SUFFICES ASSUME IInv, ClosedIsComplete, outcome = closedClaim,
                    NEW p \in Selected \cup {Root}, NEW i \in ImportsOf(p)
             PROVE  \E k \in DOMAIN exports(i) : \E row \in mergeV2Exports :
                       /\ Offers(exports(i)[k], i)
                       /\ row.package = i.pkg /\ row.export.id = exports(i)[k].id
                       /\ \/ row.export = exports(i)[k]
                          \/ \E m \in 1 .. k - 1 : row.export = exports(i)[m]
  BY DEF MergeServesLinks
<1> DEFINE source == SourceOf(i.pkg)
<1>1. selected[i.pkg] # None /\ v2ImportMatches(source, i) = None
  BY DEF ClosedIsComplete, Linked
<1>2. i.pkg \in Selected
  BY <1>1, ImportsTyped, ImportTypes DEF Selected, IInv
<1>3. selected[i.pkg].bytes \in Sources /\ source.name \in Package
  BY <1>2, WorldAssumption DEF IInv, TypeOK, SourceOf, Selected
<1>4. PICK k \in DOMAIN source.exports : Offers(source.exports[k], i)
  BY <1>1, <1>3, MatchedExport
<1>5. source.exports \in Seq(Range(source.exports))
  BY <1>3, WorldAssumption DEF SourceOf
<1>6. DOMAIN source.exports = 1 .. Len(source.exports) /\ Len(source.exports) \in Nat
  BY <1>5
(* The first export of that id is the one that is merged.                  *)
<1> DEFINE T == {m \in 1 .. k : source.exports[m].id = source.exports[k].id}
<1>7. k \in Nat /\ k \in T /\ T \in SUBSET Nat
  BY <1>4, <1>6
<1>8. PICK m \in T : \A n \in T : m <= n
  BY <1>7, FirstPlace
<1>9. \A n \in 1 .. m - 1 : source.exports[n].id # source.exports[m].id
  BY <1>7, <1>8
<1>10. m \in DOMAIN source.exports
  BY <1>4, <1>6, <1>7, <1>8
<1> DEFINE row == [package |-> i.pkg, export |-> source.exports[m]]
<1>11. row \in mergeV2Exports
  BY <1>2, <1>9, <1>10 DEF mergeV2Exports
<1>12. m = k \/ m \in 1 .. k - 1
  BY <1>7, <1>8
<1>13. QED
  BY <1>4, <1>8, <1>11, <1>12

(* What a CLOSED resolution links is among the exports it merges, or       *)
(* hidden there by an earlier export of its id.                            *)
THEOREM Merging == Spec => []MergeServesLinks
  BY Invariance, EndComplete, Served, PTL

-------------------------------------------------------------------------------
(* What is selected has the identity of an import somebody declares.       *)

Owed ==
    /\ Selected # {} \/ frames # << >> => ValidateV2Root(root)
    /\ \A p \in Selected : \E q \in Selected \cup {Root} : \E i \in ImportsOf(q) :
          selected[p].entry.identity = i.identity

LEMMA OwedStep ==
    ASSUME IInv, Declared, Owed, WalkStep, UNCHANGED world
    PROVE  Owed'
<1>1. /\ TypeOK /\ frames \in Seq(Frame) /\ Owed /\ root' = root
      /\ FramesDeclared /\ ValidateV2Root(root)' = ValidateV2Root(root)
  BY DEF IInv, TypeOK, Declared, world, ValidateV2Root
<1>2. UNCHANGED selected => Selected' = Selected /\ \A p : ImportsOf(p)' = ImportsOf(p)
  BY <1>1 DEF Selected, ImportsOf, SourceOf
<1>3. CASE UNCHANGED selected /\ frames # << >>
  BY <1>1, <1>2, <1>3 DEF Owed
<1>4. CASE UNCHANGED walk
  BY <1>1, <1>2, <1>4 DEF Owed, walk
<1>5. CASE Start
  BY <1>1, <1>2, <1>5 DEF Start, Owed
<1>6. CASE \E i \in Import : \E choice \in Choice : Joined(i, choice)
  <2>1. PICK i \in Import, choice \in Choice : Joined(i, choice)
    BY <1>6
  <2>2. frames # << >> /\ Len(frames) \in 1 .. Len(frames)
    BY <1>1, <2>1 DEF Joined
  <2>3. i \in ImportsOf(Top.pkg) /\ Top.pkg \in Selected \cup {Root}
    BY <1>1, <2>1, <2>2, TopPackage DEF FramesDeclared, Top, Joined
  <2>4. /\ Selected' = Selected \cup {i.pkg} /\ selected'[i.pkg] = choice
        /\ i.pkg \notin Selected \cup {Root}
        /\ \A p \in Selected : selected'[p] = selected[p]
    BY <1>1, <2>1, SelectedJoined, ImportTypes, WorldAssumption DEF Joined, Selected
  <2>5. \A p \in Selected \cup {Root} : ImportsOf(p)' = ImportsOf(p)
    BY <1>1, <2>4 DEF ImportsOf, SourceOf
  <2>6. choice.entry.identity = i.identity
    BY <2>1, InspectAccepts DEF Joined, Choice, Sources
  <2>7. \A p \in Selected' : \E q \in Selected' \cup {Root} : \E j \in ImportsOf(q)' :
            selected'[p].entry.identity = j.identity
    BY <1>1, <2>3, <2>4, <2>5, <2>6 DEF Owed
  <2>8. QED
    BY <1>1, <2>2, <2>7 DEF Owed
<1>7. QED
  BY <1>3, <1>4, <1>5, <1>6 DEF WalkStep, Objected, Rejoined, Return, Finish, Running

LEMMA OwedGenerates == IInv /\ Owed => Generates
<1> SUFFICES ASSUME IInv, Owed, NEW p \in Selected,
                    \A q \in Selected : \A i \in SourceOf(q).imports : WellFormed(i.identity)
             PROVE  /\ selected[p].bytes = selected[p].entry.digest
                    /\ WellFormed(selected[p].entry.identity)
                    /\ selected[p].entry.identity.toolchain = ContractId.toolchain
  BY DEF Generates, VerifyV2Resolution
<1>0. PICK q \in Selected \cup {Root} :
         \E i \in ImportsOf(q) : selected[p].entry.identity = i.identity
  BY DEF Owed
<1>1. PICK i \in ImportsOf(q) : selected[p].entry.identity = i.identity
  BY <1>0
<1>2. WellFormed(i.identity)
  <2>1. CASE q = Root
    BY <1>1, <2>1 DEF Owed, ImportsOf, ValidateV2Root, validateImportIdentity
  <2>2. CASE q # Root
    BY <1>1, <2>2 DEF ImportsOf
  <2>3. QED
    BY <2>1, <2>2
<1>3. QED
  BY <1>1, <1>2 DEF IInv, VerifiedSelection

(* A resolution whose packages declare well-formed identities passes the   *)
(* verification that generation starts with.                               *)
THEOREM Generation == Spec => []Generates
<1>1. Init => Declared /\ Owed
  BY DEF Init, Declared, LinksAreDeclared, FramesDeclared, Selected, Owed
<1>2. IInv /\ Declared /\ Owed /\ [Next]_vars => Declared' /\ Owed'
  BY WalkSteps, FramesDeclaredStep, LinksDeclaredStep, OwedStep DEF Declared
<1>3. QED
  BY <1>1, <1>2, OwedGenerates, Invariance, PTL DEF Spec

-------------------------------------------------------------------------------
(* The resolver implements LinkGraph.                                      *)

LEMMA GraphInitially == Init => Graph!Init
  BY DEF Init, Graph!Init, Selected, Links, Flaws, Verdict

(* The claim a resolution ends with has the worst state found.             *)
LEMMA FinalState ==
    ASSUME TypeOK, NEW c, finalClaim(ClaimOrder, decisions, c)
    PROVE  c.state = Graph!Worst /\ c # None
<1>1. CASE decisions = << >>
  <2>1. c = closedClaim /\ Flaws = {}
    BY <1>1 DEF finalClaim, Flaws
  <2>2. QED
    BY <2>1, WorldAssumption DEF closedClaim, Closed, Graph!Worst
<1>2. CASE decisions # << >>
  <2>1. PICK k \in DOMAIN decisions :
            /\ c = decisions[k]
            /\ \A j \in DOMAIN decisions : ~ Precedes(ClaimOrder, decisions[j], decisions[k])
    BY <1>2 DEF finalClaim
  <2>2. \A j \in DOMAIN decisions : decisions[j] \in Claim
    BY DEF TypeOK
  <2>3. \A d \in Claim : d.state \in {Refuted, Unknown}
    BY DEF Claim, ClaimSet
  <2>4. \A j \in DOMAIN decisions : decisions[j].state = Refuted => c.state = Refuted
    BY <2>1, <2>2, <2>3 DEF Precedes, StateRank, Refuted, Unknown
  <2>5. c \in Claim /\ c.state \in Flaws
    BY <2>1, <2>2 DEF Flaws
  <2>6. CASE c.state = Refuted
    BY <2>5, <2>6, WorldAssumption DEF Graph!Worst, Refuted
  <2>7. CASE c.state = Unknown
    <3>1. "REFUTED" \notin Flaws
      BY <2>4, <2>7 DEF Flaws, Refuted, Unknown
    <3>2. QED
      BY <2>5, <2>7, <3>1, WorldAssumption DEF Graph!Worst, Unknown
  <2>8. QED
    BY <2>3, <2>5, <2>6, <2>7
<1>3. QED
  BY <1>1, <1>2

graph == <<Selected, Links, Flaws, Verdict>>

LEMMA GraphSteps ==
    ASSUME IInv, WalkStep
    PROVE  [Graph!Next]_graph
<1>1. /\ TypeOK /\ StackOK /\ WalkedOnce /\ decisions \in Seq(Claim)
      /\ frames \in Seq(Frame)
  BY DEF IInv, TypeOK
<1>2. ASSUME UNCHANGED <<selected, edges, decisions, outcome>>
      PROVE  UNCHANGED graph
  BY <1>2 DEF graph, Selected, Links, Flaws, Verdict
<1>3. CASE Start
  <2>1. CASE ValidateV2Root(root)
    BY <1>2, <1>3, <2>1 DEF Start
  <2>2. CASE ~ ValidateV2Root(root)
    <3>1. /\ outcome = None /\ outcome' = errorClaim /\ decisions = << >> /\ Selected = {}
          /\ UNCHANGED <<selected, edges, decisions>>
      BY <1>1, <1>3, <2>2 DEF Start, StackOK
    <3>2. Verdict = None /\ Verdict' = "ERROR"
      BY <3>1, WorldAssumption DEF Verdict, errorClaim
    <3>3. Flaws = {}
      BY <3>1 DEF Flaws
    <3>4. UNCHANGED <<Selected, Links, Flaws>>
      BY <3>1 DEF Selected, Links, Flaws
    <3>5. Graph!Reject
      BY <3>1, <3>2, <3>3, <3>4 DEF Graph!Reject
    <3>6. QED
      BY <3>5 DEF Graph!Next
  <2>3. QED
    BY <2>1, <2>2
<1>4. ASSUME NEW i \in Import, NEW c \in Claim, Objected(i, c)
      PROVE  Graph!Next
  <2>1. /\ outcome = None /\ decisions' = Append(decisions, c)
        /\ UNCHANGED <<selected, edges, outcome>>
    BY <1>4 DEF Objected
  <2>2. Flaws' = Flaws \cup {c.state}
    <3>1. /\ DOMAIN decisions' = DOMAIN decisions \cup {Len(decisions) + 1}
          /\ decisions'[Len(decisions) + 1] = c
          /\ \A k \in DOMAIN decisions : decisions'[k] = decisions[k]
      BY <1>1, <2>1
    <3>2. QED
      BY <3>1 DEF Flaws
  <2>3. c.state \in {"REFUTED", "UNKNOWN"}
    BY DEF Claim, ClaimSet, Refuted, Unknown
  <2>4. Verdict = None /\ UNCHANGED <<Selected, Links, Verdict>>
    BY <2>1 DEF Selected, Links, Verdict
  <2>5. Graph!Flaw(c.state)
    BY <2>2, <2>4 DEF Graph!Flaw
  <2>6. QED
    BY <2>3, <2>5 DEF Graph!Next
<1>5. ASSUME NEW i \in Import, frames # << >>, outcome = None,
             Selected' = Selected \cup {i.pkg}, Links' = Links \cup {<<Top.pkg, i.pkg>>},
             UNCHANGED <<decisions, outcome>>
      PROVE  Graph!Next
  <2>1. Verdict = None /\ UNCHANGED <<Flaws, Verdict>>
    BY <1>5 DEF Flaws, Verdict
  <2>2. /\ Top.pkg \in Selected \cup {Root} /\ Selected \subseteq Package
        /\ i.pkg \in Package
    BY <1>5, TopPackage, ImportTypes DEF Selected
  <2>3. Graph!IsAcyclic(Links')
    BY AcyclicStep DEF Acyclic, Graph!IsAcyclic
  <2>4. Graph!Link(Top.pkg, i.pkg)
    BY <1>5, <2>1, <2>2, <2>3 DEF Graph!Link
  <2>5. QED
    BY <2>2, <2>4 DEF Graph!Next
<1>6. CASE \E i \in Import : Rejoined(i)
  <2>1. PICK i \in Import : Rejoined(i)
    BY <1>6
  <2>2. Selected' = Selected \cup {i.pkg}
    BY <1>1, <2>1 DEF Rejoined, WalkedOnce, Selected
  <2>3. QED
    BY <1>5, <2>1, <2>2, NewEdge DEF Rejoined
<1>7. CASE \E i \in Import : \E choice \in Choice : Joined(i, choice)
  <2>1. PICK i \in Import, choice \in Choice : Joined(i, choice)
    BY <1>7
  <2>2. Selected' = Selected \cup {i.pkg}
    BY <1>1, <2>1, SelectedJoined DEF Joined
  <2>3. QED
    BY <1>5, <2>1, <2>2, NewEdge DEF Joined
<1>8. CASE Finish
  <2>1. /\ outcome = None /\ finalClaim(ClaimOrder, decisions, outcome')
        /\ UNCHANGED <<selected, edges, decisions>>
    BY <1>8 DEF Finish, Running
  <2>2. outcome'.state = Graph!Worst /\ outcome' # None
    BY <1>1, <2>1, FinalState
  <2>3. Verdict = None /\ Verdict' = Graph!Worst
    BY <2>1, <2>2 DEF Verdict
  <2>4. UNCHANGED <<Selected, Links, Flaws>>
    BY <2>1 DEF Selected, Links, Flaws
  <2>5. Graph!Conclude
    BY <2>3, <2>4 DEF Graph!Conclude
  <2>6. QED
    BY <2>5 DEF Graph!Next
<1>9. CASE UNCHANGED walk \/ Return
  BY <1>2, <1>9 DEF walk, Return
<1>10. QED
  BY <1>3, <1>4, <1>6, <1>7, <1>8, <1>9 DEF WalkStep

(* Every resolution, whatever others write meanwhile, is one of LinkGraph: *)
(* acyclic at every step, with the verdict of the worst claim.             *)
THEOREM Implementation == Spec => ImplementsLinkGraph
<1>1. IInv /\ [Next]_vars => [Graph!Next]_<<Selected, Links, Flaws, Verdict>>
  BY WalkSteps, GraphSteps DEF graph
<1>2. QED
  BY <1>1, GraphInitially, Invariance, PTL DEF Spec, ImplementsLinkGraph, Graph!Spec

-------------------------------------------------------------------------------
(* The recursion runs out.                                                 *)

(* What a probe reads it has not tried.                                    *)
ReadsUntried ==
    probe # None /\ probe.reading # None => probe.reading.entry \in probe.untried

LEMMA ReadsUntriedStep ==
    ASSUME IInv, ReadsUntried, [Next]_vars
    PROVE  ReadsUntried'
<1>1. TypeOK /\ ProbeOK /\ (probe = None \/ probe \in Probe)
  BY DEF IInv, TypeOK
<1>2. CASE probe' = None \/ probe' = probe
  BY <1>2 DEF ReadsUntried
<1>3. CASE ReadCandidate
  <2>1. probe \in Probe /\ probe # None
    BY <1>1, <1>3 DEF ReadCandidate, Inspecting
  <2>2. PICK e \in NextCandidates :
            probe' = [probe EXCEPT !.reading = [entry |-> e, data |-> files[e.path]]]
    BY <1>3 DEF ReadCandidate
  <2>3. probe'.untried = probe.untried /\ probe'.reading.entry = e /\ e \in probe.untried
    BY <2>1, <2>2 DEF Probe, NextCandidates
  <2>4. QED
    BY <2>3 DEF ReadsUntried
<1>4. ASSUME NEW e, NEW c, probe \in Probe, probe' = Refuse(e, c)
      PROVE  ReadsUntried'
  BY <1>4 DEF ReadsUntried, Refuse, Probe
<1>5. CASE ReadUnavailable \/ RefuseCandidate
  BY <1>1, <1>4, <1>5 DEF ReadUnavailable, RefuseCandidate, Inspecting, Reading
<1>6. CASE \E i \in Pending : BeginProbe(i)
  BY <1>6 DEF BeginProbe, ReadsUntried
<1>7. CASE UNCHANGED vars \/ Rewrite \/ Start \/ Return \/ Finish
  BY <1>2, <1>7 DEF vars, Rewrite, Start, Return, Finish
<1>8. CASE SelectCandidate \/ ExhaustCandidates
  BY <1>2, <1>8 DEF SelectCandidate, ExhaustCandidates
<1>9. CASE \E i \in Pending : \/ RefuteCycle(i) \/ RefuteDigestConflict(i)
                            \/ RefuseSelected(i) \/ LinkSelected(i)
  BY <1>2, <1>9
  DEF RefuteCycle, RefuteDigestConflict, RefuseSelected, LinkSelected, Decide
<1>10. CASE \E i \in Pending : RefuteNoCandidate(i)
  BY <1>2, <1>10 DEF RefuteNoCandidate
<1>11. QED
  BY <1>3, <1>5, <1>6, <1>7, <1>8, <1>9, <1>10 DEF Next, Step

(* Something at place k is done, and what weighs more stays.               *)
LEMMA Weighs ==
    ASSUME NEW k \in 1 .. 8,
           Remaining'[k] \subseteq Remaining[k], Remaining'[k] # Remaining[k],
           \A j \in 1 .. 8 : j < k => Remaining'[j] = Remaining[j]
    PROVE  LessRemains(Remaining', Remaining)
<1>1. DOMAIN Remaining = 1 .. 8
  BY DEF Remaining
<1>2. QED
  BY <1>1 DEF LessRemains

(* Turning to an import takes it from those that wait.                     *)
LEMMA HandledWaits ==
    ASSUME TypeOK, WalkedOnce, frames # << >>, NEW i \in Top.todo,
           frames' = Handled(i), visited' = visited
    PROVE  Walked' = Walked /\ Waits' \subseteq Waits /\ Waits' # Waits
<1>1. /\ frames \in Seq(Frame) /\ frames' \in Seq(Frame) /\ Len(frames') = Len(frames)
      /\ \A k \in 1 .. Len(frames) : frames'[k].pkg = frames[k].pkg
      /\ \A k \in 1 .. Len(frames) : k # Len(frames) => frames'[k] = frames[k]
      /\ frames'[Len(frames)].todo = Top.todo \ {i}
  BY HandledFrames DEF TypeOK
<1>2. DOMAIN frames = 1 .. Len(frames) /\ DOMAIN frames' = 1 .. Len(frames)
      /\ Len(frames) \in 1 .. Len(frames)
  BY <1>1
<1>3. Walked' = Walked
  BY <1>1, <1>2 DEF Walked
<1>4. \A k \in 1 .. Len(frames) : frames'[k].todo \subseteq frames[k].todo
  BY <1>1 DEF Top
<1>5. Waits' \subseteq Waits
  <2>1. ASSUME NEW x \in Waits'
        PROVE  x \in Waits
    <3>1. PICK k \in 1 .. Len(frames) : x \in {frames'[k].pkg} \X frames'[k].todo
      BY <1>2, <2>1 DEF Waits
    <3>2. x \in {frames[k].pkg} \X frames[k].todo
      BY <1>1, <1>4, <3>1
    <3>3. QED
      BY <1>2, <3>2 DEF Waits
  <2>2. QED
    BY <2>1
<1>6. <<Top.pkg, i>> \in Waits
  BY <1>2 DEF Waits, Top
<1>7. <<Top.pkg, i>> \notin Waits'
  <2>1. SUFFICES ASSUME NEW k \in 1 .. Len(frames), frames'[k].pkg = Top.pkg,
                        i \in frames'[k].todo
                 PROVE  FALSE
    BY <1>2 DEF Waits
  <2>2. k = Len(frames)
    BY <1>1, <1>2, <2>1 DEF WalkedOnce, Top
  <2>3. QED
    BY <1>1, <2>1, <2>2
<1>8. QED
  BY <1>3, <1>5, <1>6, <1>7

LEMMA HandledLess ==
    ASSUME IInv, frames # << >>, NEW i \in Top.todo, frames' = Handled(i),
           UNCHANGED <<visited, outcome>>
    PROVE  LessRemains(Remaining', Remaining)
<1>1. Walked' = Walked /\ Waits' \subseteq Waits /\ Waits' # Waits
  BY HandledWaits DEF IInv
<1>2. frames' # << >>
  BY DEF Handled, IInv, TypeOK
<1>3. /\ Remaining'[5] \subseteq Remaining[5] /\ Remaining'[5] # Remaining[5]
      /\ \A j \in 1 .. 8 : j < 5 => Remaining'[j] = Remaining[j]
  BY <1>1, <1>2 DEF Remaining
<1>4. QED
  BY <1>3, Weighs

(* Selecting a package enters one that was not walked.                     *)
LEMMA SelectLess ==
    ASSUME IInv, SelectCandidate
    PROVE  LessRemains(Remaining', Remaining)
<1> DEFINE i == probe.imp
           choice == [entry |-> probe.reading.entry, bytes |-> Bytes2]
<1>1. /\ probe # None /\ frames # << >> /\ i.pkg \in Package /\ i.pkg \notin Open
      /\ selected[i.pkg] = None
  BY ProbeTypes, ImportTypes DEF SelectCandidate, Reading, IInv, ProbeOK
<1>2. i.pkg \notin visited
  BY <1>1 DEF IInv, WalkedOnce, Selected
<1>3. /\ frames' = Append(Handled(i), [pkg |-> i.pkg, todo |-> Parsed[choice.bytes].imports])
      /\ UNCHANGED <<visited, outcome>>
  BY <1>1, <1>2 DEF SelectCandidate, walkDependencies
<1>5. /\ Len(frames') = Len(frames) + 1 /\ DOMAIN frames' = 1 .. Len(frames) + 1
      /\ frames'[Len(frames) + 1].pkg = i.pkg /\ Len(frames) \in Nat
      /\ \A k \in 1 .. Len(frames) : frames'[k].pkg = frames[k].pkg
  <2> DEFINE new == [pkg |-> i.pkg, todo |-> Parsed[choice.bytes].imports]
  <2>1. i \in Import /\ choice \in Choice
    <3>1. probe.reading.entry \in Entry /\ i \in Import
      BY <1>1, ProbeTypes DEF SelectCandidate, Reading, IInv
    <3>2. Bytes2 \in Sources
      BY <3>1, Bytes2Type, InspectAccepts DEF SelectCandidate, Objection, Bytes2, IInv
    <3>3. QED
      BY <3>1, <3>2 DEF Choice
  <2> HIDE DEF i, choice
  <2>2. new \in Frame /\ new.pkg = i.pkg
    BY <2>1, OpenedFrame
  <2>3. frames' = Append(Handled(i), new)
    BY <1>3
  <2> HIDE DEF new
  <2>4. /\ frames' \in Seq(Frame) /\ Len(frames') = Len(frames) + 1
        /\ frames'[Len(frames) + 1] = new
        /\ \A k \in 1 .. Len(frames) : frames'[k].pkg = frames[k].pkg
    BY <1>1, <2>2, <2>3, PushedFrames DEF IInv, TypeOK
  <2>5. QED
    BY <2>2, <2>4 DEF IInv, TypeOK
<1>6. DOMAIN frames = 1 .. Len(frames)
  BY DEF IInv, TypeOK
<1>7. Walked' = Walked \cup {i.pkg}
  BY <1>3, <1>5, <1>6 DEF Walked
<1>8. i.pkg \notin Walked
  <2>1. \A k \in 1 .. Len(frames) : k = 1 \/ k \in 2 .. Len(frames)
    BY <1>5
  <2>2. frames[1].pkg # i.pkg
    BY <1>1, WorldAssumption DEF IInv, StackOK
  <2>3. QED
    BY <1>1, <1>2, <1>6, <2>1, <2>2 DEF Walked, Open
<1>9. frames' # << >>
  BY <1>5
<1>10. /\ Remaining'[3] \subseteq Remaining[3] /\ Remaining'[3] # Remaining[3]
       /\ \A j \in 1 .. 8 : j < 3 => Remaining'[j] = Remaining[j]
  BY <1>1, <1>3, <1>7, <1>8, <1>9 DEF Remaining
<1>11. QED
  BY <1>10, Weighs

(* Returning leaves a package that was open.                               *)
LEMMA ReturnLess ==
    ASSUME IInv, Return
    PROVE  LessRemains(Remaining', Remaining)
<1>1. /\ frames # << >> /\ Len(frames) > 1 /\ visited' = visited \cup {Top.pkg}
      /\ frames' = SubSeq(frames, 1, Len(frames) - 1)
      /\ UNCHANGED outcome /\ frames \in Seq(Frame) /\ Len(frames) \in Nat
  BY DEF Return, Running, IInv, TypeOK
<1>2. /\ Len(frames') = Len(frames) - 1 /\ frames' # << >>
      /\ DOMAIN frames' = 1 .. Len(frames) - 1 /\ DOMAIN frames = 1 .. Len(frames)
      /\ \A k \in 1 .. Len(frames) - 1 : frames'[k] = frames[k]
  <2>1. /\ frames' \in Seq(Frame) /\ Len(frames') = Len(frames) - 1
        /\ \A k \in 1 .. Len(frames) - 1 : frames'[k] = frames[k]
    BY <1>1, PoppedFrames
  <2>2. \A f \in Seq(Frame) : DOMAIN f = 1 .. Len(f) /\ (Len(f) > 0 => f # << >>)
    OBVIOUS
  <2>3. Len(frames') > 0
    BY <1>1, <2>1
  <2>4. frames \in Seq(Frame)
    BY <1>1
  <2>5. QED
    BY <2>1, <2>2, <2>3, <2>4
<1>3. Top.pkg \in Open /\ Top.pkg \in Package /\ Top.pkg \notin visited
  BY <1>1 DEF Top, Open, IInv, WalkedOnce, StackOK
<1>4. \A k \in 1 .. Len(frames) : k = Len(frames) \/ k \in 1 .. Len(frames) - 1
  BY <1>1
<1>5. Walked' = Walked
  <2>1. {frames[k].pkg : k \in 1 .. Len(frames)}
            = {frames'[k].pkg : k \in 1 .. Len(frames) - 1} \cup {Top.pkg}
    <3>1. {frames'[k].pkg : k \in 1 .. Len(frames) - 1}
              = {frames[k].pkg : k \in 1 .. Len(frames) - 1}
      BY <1>2
    <3>2. {frames[k].pkg : k \in 1 .. Len(frames)}
              = {frames[k].pkg : k \in 1 .. Len(frames) - 1} \cup {frames[Len(frames)].pkg}
      BY <1>1, <1>4
    <3>3. QED
      BY <3>1, <3>2 DEF Top
  <2>2. Walked = visited \cup {frames[k].pkg : k \in 1 .. Len(frames)}
    BY <1>2 DEF Walked
  <2>3. Walked' = visited' \cup {frames'[k].pkg : k \in 1 .. Len(frames) - 1}
    BY <1>2 DEF Walked
  <2>4. QED
    BY <1>1, <2>1, <2>2, <2>3
<1>6. /\ Remaining'[4] \subseteq Remaining[4] /\ Remaining'[4] # Remaining[4]
      /\ \A j \in 1 .. 8 : j < 4 => Remaining'[j] = Remaining[j]
  BY <1>1, <1>2, <1>3, <1>5 DEF Remaining
<1>7. QED
  BY <1>6, Weighs

(* Probing begins, tries and reads.                                        *)
LEMMA ProbeLess ==
    ASSUME IInv, ReadsUntried,
           \/ \E i \in Pending : BeginProbe(i)
           \/ ReadUnavailable \/ ReadCandidate \/ RefuseCandidate
    PROVE  LessRemains(Remaining', Remaining)
<1>1. UNCHANGED <<outcome, frames, visited>>
  BY DEF BeginProbe, ReadUnavailable, ReadCandidate, RefuseCandidate
<1>2. \A j \in 1 .. 8 : j < 6 => Remaining'[j] = Remaining[j]
  <2>1. Walked' = Walked /\ Waits' = Waits
    BY <1>1 DEF Walked, Waits
  <2>2. /\ Remaining'[1] = Remaining[1] /\ Remaining'[2] = Remaining[2]
        /\ Remaining'[2] = Remaining[2] /\ Remaining'[3] = Remaining[3]
        /\ Remaining'[4] = Remaining[4] /\ Remaining'[5] = Remaining[5]
    BY <1>1, <2>1 DEF Remaining, Due
  <2>3. QED
    BY <2>2
<1>3. CASE \E i \in Pending : BeginProbe(i)
  <2>1. PICK i \in Pending : BeginProbe(i)
    BY <1>3
  <2>2. probe = None /\ probe' \in Probe
    <3>1. probe = None
      BY <2>1 DEF BeginProbe, Fresh, Current
    <3>2. candidates(i) \subseteq Entry /\ i \in Import
      BY PendingTypes DEF candidates, candidates, IInv, TypeOK, Entry
    <3>3. QED
      BY <2>1, <3>1, <3>2 DEF BeginProbe, Probe
  <2>3. probe' # None
    BY <2>2, WorldAssumption
  <2>4. Remaining'[6] \subseteq Remaining[6] /\ Remaining'[6] # Remaining[6]
    BY <2>2, <2>3 DEF Remaining, Due
  <2>5. QED
    BY <1>2, <2>4, Weighs
<1>4. ASSUME NEW e, NEW c, probe \in Probe, probe # None, e \in probe.untried,
             probe' = Refuse(e, c), probe' # None
      PROVE  LessRemains(Remaining', Remaining)
  <2>1. probe'.untried = probe.untried \ {e}
    BY <1>4 DEF Refuse, Probe
  <2>2. /\ Remaining'[6] = Remaining[6]
        /\ Remaining'[7] \subseteq Remaining[7] /\ Remaining'[7] # Remaining[7]
    BY <1>4, <2>1 DEF Remaining, Due
  <2>3. \A j \in 1 .. 8 : j < 7 => Remaining'[j] = Remaining[j]
    BY <1>2, <2>2
  <2>4. QED
    BY <2>2, <2>3, Weighs
<1>5. CASE ReadUnavailable
  <2>1. probe \in Probe /\ probe # None
    BY <1>5, ProbeTypes DEF ReadUnavailable, Inspecting, IInv
  <2>2. PICK e \in NextCandidates :
            probe' = Refuse(e, unknownClaim("PACKAGE_SOURCE_UNAVAILABLE", e.name))
    BY <1>5 DEF ReadUnavailable
  <2>3. e \in probe.untried /\ e \in Entry /\ e.name \in Package
    BY <2>1, <2>2, WorldAssumption DEF NextCandidates, Probe, IsEntry
  <2>4. unknownClaim("PACKAGE_SOURCE_UNAVAILABLE", e.name) \in Claim
    BY <2>3, RaisedClaims DEF ClaimOrder
  <2>5. probe' # None
    BY <2>1, <2>2, <2>3, <2>4, RefusedProbe, WorldAssumption
  <2>6. QED
    BY <1>4, <2>1, <2>2, <2>3, <2>5
<1>6. CASE RefuseCandidate
  <2>1. probe \in Probe /\ probe # None /\ probe.reading # None
        /\ Objection # None /\ probe' = Refuse(probe.reading.entry, Objection)
    BY <1>6, ProbeTypes DEF RefuseCandidate, Reading, IInv
  <2>2. probe.reading.entry \in probe.untried /\ probe.reading.entry \in Entry
    BY <2>1 DEF ReadsUntried, Probe
  <2>3. Objection \in Claim
    BY <2>1, <2>2, InspectClaim, Bytes2Type DEF Objection, Bytes2, IInv
  <2>4. probe' # None
    BY <2>1, <2>2, <2>3, RefusedProbe, WorldAssumption
  <2>5. QED
    BY <1>4, <2>1, <2>2, <2>4
<1>7. CASE ReadCandidate
  <2>1. probe \in Probe /\ probe # None /\ probe.reading = None
    BY <1>7, ProbeTypes DEF ReadCandidate, Inspecting, IInv
  <2>2. PICK e \in NextCandidates :
            /\ files[e.path] # None
            /\ probe' = [probe EXCEPT !.reading = [entry |-> e, data |-> files[e.path]]]
    BY <1>7 DEF ReadCandidate
  <2>3. e \in Entry /\ files[e.path] \in Bytes
    BY <2>1, <2>2, Bytes2Type DEF NextCandidates, Probe, IInv
  <2>4. [entry |-> e, data |-> files[e.path]] \in [entry : Entry, data : Bytes]
    BY <2>3
  <2>5. /\ probe' \in Probe /\ probe'.untried = probe.untried
        /\ probe'.reading = [entry |-> e, data |-> files[e.path]]
    BY <2>1, <2>2, <2>4 DEF Probe
  <2>6. probe' # None /\ probe'.reading # None
    <3>1. \A x \in [entry : Entry, data : Bytes] : x # None
      BY WorldAssumption
    <3>2. QED
      BY <2>4, <2>5, <3>1, WorldAssumption
  <2>7. /\ Remaining'[6] = Remaining[6] /\ Remaining'[7] = Remaining[7]
        /\ Remaining'[8] \subseteq Remaining[8] /\ Remaining'[8] # Remaining[8]
    BY <2>1, <2>5, <2>6 DEF Remaining, Due
  <2>8. \A j \in 1 .. 8 : j < 8 => Remaining'[j] = Remaining[j]
    BY <1>2, <2>7
  <2>9. QED
    BY <2>7, <2>8, Weighs
<1>8. QED
  BY <1>3, <1>5, <1>6, <1>7

(* The rest of the walk: it begins, is done with an import, ends.           *)
LEMMA StartLess ==
    ASSUME IInv, Start
    PROVE  LessRemains(Remaining', Remaining)
<1>1. outcome = None /\ frames = << >>
  BY DEF Start
<1>2. CASE ~ ValidateV2Root(root)
  <2>1. outcome' # None
    BY <1>2, WorldAssumption DEF Start
  <2>2. Remaining'[1] \subseteq Remaining[1] /\ Remaining'[1] # Remaining[1]
    BY <1>1, <2>1 DEF Remaining, Due
  <2>3. QED
    BY <2>2, Weighs
<1>3. CASE ValidateV2Root(root)
  <2>1. outcome' = None /\ frames' # << >>
    BY <1>3 DEF Start
  <2>2. /\ Remaining'[1] = Remaining[1]
        /\ Remaining'[2] \subseteq Remaining[2] /\ Remaining'[2] # Remaining[2]
    BY <1>1, <2>1 DEF Remaining, Due
  <2>3. \A j \in 1 .. 8 : j < 2 => Remaining'[j] = Remaining[j]
    BY <2>2
  <2>4. QED
    BY <2>2, <2>3, Weighs
<1>4. QED
  BY <1>2, <1>3

LEMMA FinishLess ==
    ASSUME IInv, Finish
    PROVE  LessRemains(Remaining', Remaining)
<1>1. outcome = None /\ outcome' \in {closedClaim} \cup Claim
  BY DEF Finish, Running, IInv, TypeOK
<1>2. outcome' # None
  BY <1>1, WorldAssumption
<1>3. Remaining'[1] \subseteq Remaining[1] /\ Remaining'[1] # Remaining[1]
  BY <1>1, <1>2 DEF Remaining, Due
<1>4. QED
  BY <1>3, Weighs

LEMMA ImportLess ==
    ASSUME IInv,
           \/ ExhaustCandidates
           \/ \E i \in Pending : \/ RefuteCycle(i) \/ RefuteDigestConflict(i)
                                 \/ RefuseSelected(i) \/ LinkSelected(i)
                                 \/ RefuteNoCandidate(i)
    PROVE  LessRemains(Remaining', Remaining)
<1>1. CASE ExhaustCandidates
  <2>1. frames # << >> /\ probe.imp \in Top.todo /\ frames' = Handled(probe.imp)
    BY <1>1 DEF ExhaustCandidates, Decide, IInv, ProbeOK, Running
  <2>2. UNCHANGED <<visited, outcome>>
    BY <1>1 DEF ExhaustCandidates
  <2>3. QED
    BY <2>1, <2>2, HandledLess
<1>2. ASSUME NEW i \in Pending,
             \/ RefuteCycle(i) \/ RefuteDigestConflict(i)
             \/ RefuseSelected(i) \/ RefuteNoCandidate(i)
      PROVE  LessRemains(Remaining', Remaining)
  <2>1. frames # << >> /\ i \in Top.todo /\ frames' = Handled(i)
    BY <1>2, PendingTypes
    DEF IInv, RefuteCycle, RefuteDigestConflict, RefuseSelected, RefuteNoCandidate, Decide
  <2>2. UNCHANGED <<visited, outcome>>
    BY <1>2 DEF RefuteCycle, RefuteDigestConflict, RefuseSelected, RefuteNoCandidate
  <2>3. QED
    BY <2>1, <2>2, HandledLess
<1>3. ASSUME NEW i \in Pending, LinkSelected(i)
      PROVE  LessRemains(Remaining', Remaining)
  <2>1. frames # << >> /\ i \in Top.todo /\ i.pkg \in Package
    BY PendingTypes DEF IInv
  <2>2. i.pkg \in visited
    BY <1>3, <2>1 DEF LinkSelected, Reuse, IInv, WalkedOnce, Selected
  <2>3. frames' = Handled(i) /\ UNCHANGED <<visited, outcome>>
    BY <1>3, <2>2 DEF LinkSelected, walkDependencies
  <2>4. QED
    BY <2>1, <2>3, HandledLess
<1>4. QED
  BY <1>1, <1>2, <1>3

LEMMA StepLess ==
    ASSUME IInv, ReadsUntried, Step
    PROVE  LessRemains(Remaining', Remaining)
  BY StartLess, ImportLess, ProbeLess, SelectLess, ReturnLess, FinishLess
  DEF Step

LEMMA RewriteKeeps == Rewrite => Remaining' = Remaining
  BY DEF Rewrite, Remaining, Walked, Waits, Due

(* No step leaves as much to be done as before: with finitely many         *)
(* packages, imports and entries the recursion of resolveImport and *)
(* walkDependencies comes to its end, cyclic imports included.             *)
THEOREM RunningOut == Spec => RunsOut
<1>1. Init => ReadsUntried
  BY DEF Init, ReadsUntried
<1>2. IInv /\ ReadsUntried /\ [Next]_vars => ReadsUntried'
  BY ReadsUntriedStep
<1>3. IInv /\ ReadsUntried /\ [Next]_vars
        => [/\ Step => LessRemains(Remaining', Remaining)
            /\ Rewrite => Remaining' = Remaining]_vars
  BY StepLess, RewriteKeeps
<1>4. QED
  BY <1>1, <1>2, <1>3, Invariance, PTL DEF Spec, RunsOut
===============================================================================
