------------------------ MODULE ResolverV2Files_proofs ------------------------
(***************************************************************************)
(* What the v2 resolver does with the candidates of an import while no     *)
(* file of the catalog is rewritten: the lowest one that serves is taken,  *)
(* and where none serves the verdict says so.                              *)
(***************************************************************************)
EXTENDS ResolverV2_proofs

-------------------------------------------------------------------------------
(* The inductive invariant, over IInv and Declared of ResolverV2_proofs.   *)

(* The paths hold what they held at first.                                 *)
FilesAsFound == rewrites = 0 => files = Disk

(* Of the candidates C, what the probe pr has tried objects; a refutation  *)
(* among the objections is remembered; what it reads is a lowest one of    *)
(* those it has not tried.                                                 *)
Fairly(pr, C) ==
    /\ C # {}
    /\ \A e \in C \ pr.untried :
          /\ OnDisk(e, pr.imp) # None
          /\ OnDisk(e, pr.imp).state = Refuted => pr.refuted # None
    /\ pr.refuted # None => pr.refuted.state = Refuted
    /\ pr.reading # None =>
          LET e == pr.reading.entry
          IN  /\ e \in pr.untried
              /\ pr.reading.data = Disk[e.path] /\ Disk[e.path] # None
              /\ \A f \in pr.untried : ~ Lower(f, e)

ProbeFair == rewrites = 0 /\ probe # None => Fairly(probe, candidates(probe.imp))

(* An import is to be turned to, its package is selected, or it got its    *)
(* claim: a refutation if there was one to find.                           *)
Claimed(i) ==
    /\ decisions # << >>
    /\ RefutedOnDisk(i) => \E k \in DOMAIN decisions : decisions[k].state = Refuted

Settled ==
    rewrites = 0 /\ frames # << >> =>
        \A p \in Selected \cup {Root} : \A i \in ImportsOf(p) :
            selected[i.pkg] # None \/ Waiting(p, i) \/ Claimed(i)

Quiet == FilesAsFound /\ ProbeFair /\ LowestCompatible /\ Settled /\ RefutationPrevails

QInv == IInv /\ Declared /\ Quiet

-------------------------------------------------------------------------------
(* The probe.                                                              *)

(* As long as no file was rewritten, none is different.                    *)
LEMMA FilesStay ==
    ASSUME QInv, [Next]_vars, rewrites' = 0
    PROVE  rewrites = 0 /\ ~ Rewrite /\ files = Disk /\ files' = Disk
<1>1. rewrites \in Nat
  BY DEF QInv, IInv, TypeOK
<1>2. ~ Rewrite
  BY <1>1 DEF Rewrite
<1>3. UNCHANGED disk
  BY <1>2 DEF Next, Step, vars, disk, Start, RefuteCycle, RefuteDigestConflict,
     RefuseSelected, LinkSelected, RefuteNoCandidate, BeginProbe, ReadUnavailable,
     ReadCandidate, RefuseCandidate, SelectCandidate, ExhaustCandidates, Return, Finish
<1>4. QED
  BY <1>2, <1>3 DEF disk, QInv, Quiet, FilesAsFound

(* What an import may be linked to does not change.                        *)
LEMMA SameCandidates ==
    ASSUME UNCHANGED world, NEW i
    PROVE  candidates(i)' = candidates(i) /\ RefutedOnDisk(i)' = RefutedOnDisk(i)
<1>1. catalog' = catalog
  BY DEF world
<1>2. candidates(i)' = candidates(i)
  BY <1>1 DEF candidates
<1>3. QED
  BY <1>2 DEF RefutedOnDisk

(* A candidate that objects is put aside, and its objection kept if it is  *)
(* the first refutation.                                                   *)
LEMMA RefusedFair ==
    ASSUME probe \in Probe, NEW C, Fairly(probe, C), NEW e \in Entry, NEW c \in Claim,
           OnDisk(e, probe.imp) = c
    PROVE  Fairly(Refuse(e, c), C)
<1> DEFINE r == Refuse(e, c)
<1>1. /\ r.imp = probe.imp /\ r.reading = None /\ r.untried = probe.untried \ {e}
  BY RefusedProbe
<1>2. r.refuted = IF probe.refuted = None /\ c.state = Refuted THEN c ELSE probe.refuted
  BY DEF Refuse, Probe
<1>3. c # None
  BY WorldAssumption
<1> HIDE DEF r
<1>4. \A f \in C \ r.untried : f = e \/ f \in C \ probe.untried
  BY <1>1
<1>5. \A f \in C \ probe.untried :
          /\ OnDisk(f, probe.imp) # None
          /\ OnDisk(f, probe.imp).state = Refuted => probe.refuted # None
  BY DEF Fairly
<1>6. \A f \in C \ r.untried :
          /\ OnDisk(f, r.imp) # None
          /\ OnDisk(f, r.imp).state = Refuted => r.refuted # None
  BY <1>1, <1>2, <1>3, <1>4, <1>5
<1>7. r.refuted # None => r.refuted.state = Refuted
  BY <1>2 DEF Fairly
<1>8. C # {}
  BY DEF Fairly
<1>9. QED
  BY <1>1, <1>6, <1>7, <1>8 DEF Fairly, r

(* What a candidate answers is what it answers on the files as found.      *)
LEMMA ReadingOnDisk ==
    ASSUME QInv, Reading, rewrites = 0
    PROVE  LET e == probe.reading.entry
           IN  /\ e \in Entry /\ e \in candidates(probe.imp) /\ e \in probe.untried
               /\ Objection = OnDisk(e, probe.imp) /\ Bytes2 = Disk[e.path]
               /\ \A f \in candidates(probe.imp) : Lower(f, e) => OnDisk(f, probe.imp) # None
<1> DEFINE e == probe.reading.entry
<1>1. probe # None /\ probe.reading # None /\ files = Disk
  BY DEF Reading, QInv, Quiet, FilesAsFound
<1>2. e \in Entry /\ e \in candidates(probe.imp)
  BY <1>1, ProbeTypes DEF QInv, IInv, ProbeOK
<1>3. Fairly(probe, candidates(probe.imp))
  BY <1>1 DEF QInv, Quiet, ProbeFair
<1>4. /\ e \in probe.untried
      /\ probe.reading.data = Disk[e.path] /\ Disk[e.path] # None
      /\ \A f \in probe.untried : ~ Lower(f, e)
  BY <1>1, <1>3 DEF Fairly
<1>5. Objection = OnDisk(e, probe.imp) /\ Bytes2 = Disk[e.path]
  BY <1>1, <1>4 DEF Objection, OnDisk, Bytes2
<1>6. \A f \in candidates(probe.imp) : Lower(f, e) => OnDisk(f, probe.imp) # None
  BY <1>3, <1>4 DEF Fairly
<1>7. QED
  BY <1>2, <1>4, <1>5, <1>6

LEMMA ProbeFairStep ==
    ASSUME QInv, [Next]_vars, UNCHANGED world
    PROVE  ProbeFair'
<1> SUFFICES ASSUME rewrites' = 0, probe' # None
             PROVE  Fairly(probe', candidates(probe'.imp))
  BY DEF ProbeFair, candidates, world
<1>1. /\ TypeOK /\ ProbeOK /\ (probe = None \/ probe \in Probe)
      /\ rewrites = 0 /\ ~ Rewrite /\ files = Disk
  BY FilesStay DEF QInv, IInv, TypeOK
<1>2. probe # None => Fairly(probe, candidates(probe.imp))
  BY <1>1 DEF QInv, Quiet, ProbeFair
<1>3. \A i : candidates(i)' = candidates(i)
  BY SameCandidates
<1>4. CASE UNCHANGED probe
  BY <1>2, <1>3, <1>4
<1>5. ASSUME NEW i \in Pending, BeginProbe(i)
      PROVE  Fairly(probe', candidates(probe'.imp))
  <2>1. /\ probe' = [imp |-> i, untried |-> candidates(i), reading |-> None,
                     refuted |-> None, unknown |-> None]
        /\ candidates(i) # {}
    BY <1>5 DEF BeginProbe
  <2>2. probe'.imp = i /\ probe'.untried = candidates(i) /\ probe'.reading = None
        /\ probe'.refuted = None
    BY <2>1
  <2>3. QED
    BY <1>3, <2>1, <2>2 DEF Fairly
<1>6. ASSUME NEW e \in Entry, NEW c \in Claim, OnDisk(e, probe.imp) = c,
             probe # None, probe' = Refuse(e, c)
      PROVE  Fairly(probe', candidates(probe'.imp))
  <2>1. Fairly(Refuse(e, c), candidates(probe.imp))
    BY <1>1, <1>2, <1>6, RefusedFair
  <2>2. Refuse(e, c).imp = probe.imp
    BY <1>1, <1>6, RefusedProbe
  <2>3. QED
    BY <1>3, <1>6, <2>1, <2>2
<1>7. CASE ReadUnavailable
  <2>1. probe # None /\ probe \in Probe
    BY <1>1, <1>7 DEF ReadUnavailable, Inspecting
  <2>2. PICK e \in NextCandidates :
            /\ files[e.path] = None
            /\ probe' = Refuse(e, unknownClaim("PACKAGE_SOURCE_UNAVAILABLE", e.name))
    BY <1>7 DEF ReadUnavailable
  <2>3. e \in Entry /\ e.name \in Package
    BY <2>1, <2>2, WorldAssumption DEF NextCandidates, Probe, IsEntry
  <2>4. unknownClaim("PACKAGE_SOURCE_UNAVAILABLE", e.name) \in Claim
    BY <2>3, RaisedClaims DEF ClaimOrder
  <2>5. OnDisk(e, probe.imp) = unknownClaim("PACKAGE_SOURCE_UNAVAILABLE", e.name)
    BY <1>1, <2>2 DEF OnDisk
  <2>6. QED
    BY <1>6, <2>1, <2>2, <2>3, <2>4, <2>5
<1>8. CASE ReadCandidate
  <2>1. probe # None /\ probe \in Probe
    BY <1>1, <1>8 DEF ReadCandidate, Inspecting
  <2>2. PICK e \in NextCandidates :
            /\ files[e.path] # None
            /\ probe' = [probe EXCEPT !.reading = [entry |-> e, data |-> files[e.path]]]
    BY <1>8 DEF ReadCandidate
  <2>3. e \in probe.untried /\ \A f \in probe.untried : ~ Lower(f, e)
    BY <2>2 DEF NextCandidates
  <2> DEFINE read == [entry |-> e, data |-> files[e.path]]
  <2>4. read.entry = e /\ read.data = Disk[e.path] /\ Disk[e.path] # None
    BY <1>1, <2>2
  <2>5. probe' = [probe EXCEPT !.reading = read]
    BY <2>2
  <2> HIDE DEF read
  <2>6. /\ probe'.imp = probe.imp /\ probe'.reading = read
        /\ probe'.untried = probe.untried /\ probe'.refuted = probe.refuted
    BY <2>1, <2>5 DEF Probe
  <2>7. QED
    BY <1>2, <1>3, <2>1, <2>3, <2>4, <2>6 DEF Fairly
<1>9. CASE RefuseCandidate
  <2>1. Reading /\ probe # None /\ probe.reading # None /\ probe \in Probe
    BY <1>1, <1>9 DEF RefuseCandidate, Reading
  <2> DEFINE e == probe.reading.entry
  <2>2. e \in Entry /\ Objection = OnDisk(e, probe.imp) /\ Bytes2 \in Bytes \cup {None}
    BY <1>1, <2>1, ReadingOnDisk, Bytes2Type DEF Bytes2
  <2>3. Objection \in Claim
    BY <1>9, <2>2, InspectClaim DEF RefuseCandidate, Objection
  <2>4. probe' = Refuse(e, Objection)
    BY <1>9 DEF RefuseCandidate
  <2>5. QED
    BY <1>6, <2>1, <2>2, <2>3, <2>4
<1>10. CASE SelectCandidate \/ ExhaustCandidates
  BY <1>10 DEF SelectCandidate, ExhaustCandidates
<1>11. CASE \/ UNCHANGED vars \/ Start \/ Return \/ Finish
            \/ \E i \in Pending : \/ RefuteCycle(i) \/ RefuteDigestConflict(i)
                                  \/ RefuseSelected(i) \/ LinkSelected(i)
                                  \/ RefuteNoCandidate(i)
  BY <1>4, <1>11 DEF vars, Start, Return, Finish, RefuteCycle, RefuteDigestConflict,
     RefuseSelected, LinkSelected, RefuteNoCandidate
<1>12. QED
  BY <1>1, <1>5, <1>7, <1>8, <1>9, <1>10, <1>11 DEF Next, Step

-------------------------------------------------------------------------------
(* What waits.                                                             *)

LEMMA WaitsHandled ==
    ASSUME frames \in Seq(Frame), frames # << >>, NEW i, frames' = Handled(i),
           NEW p, NEW j, Waiting(p, j)
    PROVE  Waiting(p, j)' \/ j = i
<1>1. /\ frames' \in Seq(Frame) /\ Len(frames') = Len(frames)
      /\ \A k \in 1 .. Len(frames) : frames'[k].pkg = frames[k].pkg
      /\ \A k \in 1 .. Len(frames) : k # Len(frames) => frames'[k] = frames[k]
      /\ frames'[Len(frames)].todo = Top.todo \ {i}
  BY HandledFrames
<1>2. QED
  BY <1>1, StillWaiting

LEMMA WaitsPushed ==
    ASSUME frames \in Seq(Frame), frames # << >>, NEW i, NEW f \in Frame,
           frames' = Append(Handled(i), f)
    PROVE  /\ \A p, j : Waiting(p, j) => Waiting(p, j)' \/ j = i
           /\ \A j \in f.todo : Waiting(f.pkg, j)'
<1>1. frames' \in Seq(Frame) /\ Len(frames') = Len(frames) + 1
  BY PushedFrames
<1>2. \A k \in 1 .. Len(frames) : frames'[k].pkg = frames[k].pkg
  BY PushedFrames
<1>3. \A k \in 1 .. Len(frames) : k # Len(frames) => frames'[k] = frames[k]
  BY PushedFrames
<1>4. frames'[Len(frames)].todo = Top.todo \ {i}
  BY PushedFrames
<1>5. frames'[Len(frames) + 1] = f /\ Len(frames) \in Nat
  BY PushedFrames
<1>6. \A p, j : Waiting(p, j) => Waiting(p, j)' \/ j = i
  BY <1>1, <1>2, <1>3, <1>4, StillWaiting
<1>7. \A j \in f.todo : Waiting(f.pkg, j)'
  BY <1>1, <1>5 DEF Waiting
<1>8. QED
  BY <1>6, <1>7

(* The frame that returns has nothing left to do.                          *)
LEMMA WaitsPopped ==
    ASSUME frames \in Seq(Frame), Return, NEW p, NEW j, Waiting(p, j)
    PROVE  Waiting(p, j)'
<1>1. /\ Len(frames) > 1 /\ Top.todo = {}
      /\ frames' = SubSeq(frames, 1, Len(frames) - 1)
  BY DEF Return
<1>2. PICK k \in 1 .. Len(frames) : frames[k].pkg = p /\ j \in frames[k].todo
  BY DEF Waiting
<1>3. k \in 1 .. Len(frames) - 1
  BY <1>1, <1>2 DEF Top
<1>4. QED
  BY <1>1, <1>2, <1>3, PoppedFrames DEF Waiting

(* A claim stays where it is when others follow.                           *)
LEMMA StaysClaimed ==
    ASSUME IInv, WalkStep, UNCHANGED world, NEW j, Claimed(j)
    PROVE  Claimed(j)'
<1>1. decisions \in Seq(Claim) /\ RefutedOnDisk(j)' = RefutedOnDisk(j)
  BY SameCandidates DEF IInv, TypeOK
<1>2. CASE decisions' = decisions
  BY <1>1, <1>2 DEF Claimed
<1>3. ASSUME NEW c \in Claim, decisions' = Append(decisions, c)
      PROVE  Claimed(j)'
  <2>1. /\ decisions' # << >> /\ DOMAIN decisions \subseteq DOMAIN decisions'
        /\ \A k \in DOMAIN decisions : decisions'[k] = decisions[k]
    BY <1>1, <1>3
  <2>2. QED
    BY <1>1, <2>1 DEF Claimed
<1>4. QED
  BY <1>2, <1>3 DEF WalkStep, walk, Start, Objected, Rejoined, Joined, Return, Finish

(* The claim that is raised last.                                          *)
LEMMA NewClaim ==
    ASSUME IInv, UNCHANGED world, NEW i, NEW c \in Claim, decisions' = Append(decisions, c),
           RefutedOnDisk(i) => c.state = Refuted
    PROVE  Claimed(i)'
<1>1. decisions \in Seq(Claim) /\ RefutedOnDisk(i)' = RefutedOnDisk(i)
  BY SameCandidates DEF IInv, TypeOK
<1>2. /\ decisions' # << >> /\ Len(decisions) + 1 \in DOMAIN decisions'
      /\ decisions'[Len(decisions) + 1] = c
  BY <1>1
<1>3. QED
  BY <1>1, <1>2 DEF Claimed

(* No candidate served: the claim that is raised is a refutation if there  *)
(* was one.                                                                *)
LEMMA ExhaustedClaim ==
    ASSUME QInv, ExhaustCandidates, rewrites = 0
    PROVE  /\ LeadingClaim \in Claim
           /\ RefutedOnDisk(probe.imp) => LeadingClaim.state = Refuted
<1>1. probe # None /\ probe.untried = {}
  BY DEF ExhaustCandidates
<1>2. Fairly(probe, candidates(probe.imp))
  BY <1>1 DEF QInv, Quiet, ProbeFair
<1>3. LeadingClaim \in Claim
  <2>1. probe.imp.pkg \in Package /\ probe \in Probe
    BY <1>1, ProbeTypes, WorldAssumption DEF IsImport, QInv, IInv
  <2>2. unknownClaim("NO_VERIFIABLE_PINNED_MANIFEST", probe.imp.pkg) \in Claim
    BY <2>1, RaisedClaims DEF ClaimOrder
  <2>3. QED
    BY <2>1, <2>2 DEF Probe, LeadingClaim
<1>4. RefutedOnDisk(probe.imp) => probe.refuted # None /\ probe.refuted.state = Refuted
  BY <1>1, <1>2 DEF RefutedOnDisk, Fairly
<1>5. QED
  BY <1>3, <1>4 DEF LeadingClaim

(* What SelectCandidate selects.                                           *)
LEMMA Selects ==
    ASSUME IInv, SelectCandidate
    PROVE  LET choice == [entry |-> probe.reading.entry, bytes |-> Bytes2]
           IN  probe.imp \in Import /\ choice \in Choice /\ Joined(probe.imp, choice)
<1> DEFINE choice == [entry |-> probe.reading.entry, bytes |-> Bytes2]
<1>1. probe # None /\ probe.reading # None /\ ProbeOK /\ TypeOK /\ WalkedOnce
  BY DEF SelectCandidate, Reading, IInv
<1>2. probe.reading.entry \in Entry /\ Bytes2 \in Bytes \cup {None}
  BY <1>1, ProbeTypes, Bytes2Type DEF Bytes2
<1>3. Bytes2 \in Sources /\ choice \in Choice
  BY <1>2, InspectAccepts DEF SelectCandidate, Objection, Choice
<1>4. probe.imp.pkg \notin visited
  BY <1>1, ProbeTypes, WorldAssumption DEF ProbeOK, WalkedOnce, Selected, IsImport
<1>5. Joined(probe.imp, choice)
  BY <1>1, <1>4, ProbeTypes
  DEF SelectCandidate, Objection, ProbeOK, Joined, walkDependencies
<1>6. QED
  BY <1>1, <1>3, <1>5, ProbeTypes

(* An import that was to be turned to still is, or it has been settled.    *)
LEMMA WaitingStep ==
    ASSUME QInv, [Next]_vars, rewrites' = 0, UNCHANGED world,
           NEW p, NEW j, Waiting(p, j)
    PROVE  Waiting(p, j)' \/ selected'[j.pkg] # None \/ Claimed(j)'
<1>1. /\ IInv /\ TypeOK /\ WalkedOnce /\ frames \in Seq(Frame) /\ rewrites = 0 /\ ~ Rewrite
  BY FilesStay DEF QInv, IInv, TypeOK
<1>2. frames # << >>
  BY <1>1 DEF Waiting
<1>3. ASSUME NEW i, frames' = Handled(i), selected'[i.pkg] # None \/ Claimed(i)'
      PROVE  Waiting(p, j)' \/ selected'[j.pkg] # None \/ Claimed(j)'
  BY <1>1, <1>2, <1>3, WaitsHandled
<1>4. ASSUME NEW i \in Pending, RefuteCycle(i)
      PROVE  Waiting(p, j)' \/ selected'[j.pkg] # None \/ Claimed(j)'
  <2>1. i.pkg \in Selected
    BY <1>1, <1>4 DEF RefuteCycle, WalkedOnce
  <2>2. QED
    BY <1>3, <1>4, <2>1 DEF RefuteCycle, Decide, Selected
<1>5. ASSUME NEW i \in Pending, RefuteDigestConflict(i) \/ RefuseSelected(i)
      PROVE  Waiting(p, j)' \/ selected'[j.pkg] # None \/ Claimed(j)'
  BY <1>3, <1>5 DEF RefuteDigestConflict, RefuseSelected, Reuse, Decide
<1>6. ASSUME NEW i \in Pending, LinkSelected(i)
      PROVE  Waiting(p, j)' \/ selected'[j.pkg] # None \/ Claimed(j)'
  <2>1. i.pkg \in visited
    BY <1>1, <1>6, PendingTypes DEF LinkSelected, Reuse, Selected, WalkedOnce
  <2>2. QED
    BY <1>3, <1>6, <2>1 DEF LinkSelected, Reuse, walkDependencies
<1>7. ASSUME NEW i \in Pending, RefuteNoCandidate(i)
      PROVE  Waiting(p, j)' \/ selected'[j.pkg] # None \/ Claimed(j)'
  <2> DEFINE c == refutedClaim("PACKAGE_DIGEST_NOT_FOUND", i.pkg)
  <2>1. c \in Claim /\ c.state = Refuted
    BY <1>1, PendingTypes, RaisedClaims DEF ClaimOrder, refutedClaim
  <2>2. decisions' = Append(decisions, c) /\ frames' = Handled(i)
    BY <1>7 DEF RefuteNoCandidate, Decide
  <2> HIDE DEF c
  <2>3. Claimed(i)'
    BY <1>1, <2>1, <2>2, NewClaim
  <2>4. QED
    BY <1>3, <2>2, <2>3
<1>8. CASE ExhaustCandidates
  <2>1. LeadingClaim \in Claim /\ (RefutedOnDisk(probe.imp) => LeadingClaim.state = Refuted)
    BY <1>1, <1>8, ExhaustedClaim
  <2>2. decisions' = Append(decisions, LeadingClaim) /\ frames' = Handled(probe.imp)
    BY <1>8 DEF ExhaustCandidates, Decide
  <2>3. \A i : i = probe.imp => Claimed(i)'
    BY <1>1, <2>1, <2>2, NewClaim
  <2>4. QED
    BY <1>3, <2>2, <2>3
<1>9. ASSUME NEW i \in Import, NEW choice \in Choice, Joined(i, choice)
      PROVE  Waiting(p, j)' \/ selected'[j.pkg] # None \/ Claimed(j)'
  <2> DEFINE f == [pkg |-> i.pkg, todo |-> Parsed[choice.bytes].imports]
  <2>1. f \in Frame /\ frames' = Append(Handled(i), f)
    BY <1>9, OpenedFrame DEF Joined
  <2>2. selected'[i.pkg] # None
    BY <1>1, <1>9, SelectedJoined, WorldAssumption DEF Joined, Choice, Sources
  <2> HIDE DEF f
  <2>3. Waiting(p, j)' \/ j = i
    BY <1>1, <1>2, <2>1, WaitsPushed
  <2>4. QED
    BY <2>2, <2>3
<1>10. CASE SelectCandidate
  BY <1>1, <1>9, <1>10, Selects
<1>11. CASE Return
  BY <1>1, <1>11, WaitsPopped
<1>12. CASE UNCHANGED frames
  BY <1>12 DEF Waiting
<1>13. CASE \/ UNCHANGED vars \/ Start \/ Finish \/ \E i \in Pending : BeginProbe(i)
            \/ ReadUnavailable \/ ReadCandidate \/ RefuseCandidate
  BY <1>2, <1>12, <1>13 DEF vars, Start, Finish, BeginProbe, ReadUnavailable,
     ReadCandidate, RefuseCandidate
<1>14. QED
  BY <1>1, <1>4, <1>5, <1>6, <1>7, <1>8, <1>10, <1>11, <1>13 DEF Next, Step

(* The imports of what was selected before, and of the root, are the same. *)
LEMMA SameImports ==
    ASSUME IInv, WalkStep, UNCHANGED world, NEW p \in Selected \cup {Root}
    PROVE  ImportsOf(p)' = ImportsOf(p) /\ p \in Selected' \cup {Root}
<1>1. root' = root /\ (p \in Selected => selected'[p] = selected[p])
  BY Grows DEF world
<1>2. p # Root => p \in Selected /\ p \in Package /\ selected[p] # None
  BY DEF Selected
<1>3. QED
  BY <1>1, <1>2 DEF ImportsOf, SourceOf, Selected

(* A package that becomes selected was joined.                             *)
LEMMA NewlySelected ==
    ASSUME IInv, WalkStep, NEW p \in Selected', p \notin Selected
    PROVE  \E i \in Import : \E choice \in Choice :
              Joined(i, choice) /\ p = i.pkg /\ selected'[p] = choice
<1>1. selected' # selected
  BY DEF Selected
<1>2. PICK i \in Import, choice \in Choice : Joined(i, choice)
  BY <1>1 DEF WalkStep, walk, Start, Objected, Rejoined, Return, Finish
<1>3. Selected' = Selected \cup {i.pkg} /\ selected'[i.pkg] = choice
  BY <1>2, SelectedJoined DEF Joined, IInv
<1>4. QED
  BY <1>2, <1>3

LEMMA SettledStep ==
    ASSUME QInv, [Next]_vars, WalkStep, UNCHANGED world
    PROVE  Settled'
<1> SUFFICES ASSUME rewrites' = 0, frames' # << >>,
                    NEW p \in Selected' \cup {Root}, NEW j \in ImportsOf(p)'
             PROVE  selected'[j.pkg] # None \/ Waiting(p, j)' \/ Claimed(j)'
  BY DEF Settled
<1>1. /\ IInv /\ TypeOK /\ StackOK /\ frames \in Seq(Frame) /\ rewrites = 0 /\ root' = root
  BY FilesStay DEF QInv, IInv, TypeOK, world
<1>2. CASE frames = << >>
  <2>1. Start
    BY <1>2 DEF WalkStep, walk, Objected, Rejoined, Joined, Return, Finish, Running
  <2>2. Selected = {} /\ selected' = selected
    BY <1>1, <1>2, <2>1 DEF StackOK, Start
  <2>3. p = Root /\ j \in root
    BY <1>1, <2>2 DEF Selected, ImportsOf
  <2>4. frames' = << [pkg |-> Root, todo |-> root] >>
    BY <1>2, <2>1 DEF Start
  <2>5. Waiting(p, j)'
    BY <2>3, <2>4 DEF Waiting
  <2>6. QED
    BY <2>5
<1>3. CASE frames # << >> /\ p \in Selected \cup {Root}
  <2>1. j \in ImportsOf(p)
    BY <1>1, <1>3, SameImports
  <2>2. j.pkg \in Package
    BY <1>1, <1>3, <2>1, ImportsTyped, ImportTypes
  <2>3. CASE selected[j.pkg] # None
    <3>1. selected'[j.pkg] = selected[j.pkg]
      BY <1>1, <2>2, <2>3, Grows DEF Selected
    <3>2. QED
      BY <2>3, <3>1
  <2>4. CASE Waiting(p, j)
    BY <2>4, WaitingStep
  <2>5. CASE Claimed(j)
    BY <1>1, <2>5, StaysClaimed
  <2>6. QED
    BY <1>1, <1>3, <2>1, <2>3, <2>4, <2>5 DEF QInv, Quiet, Settled
<1>4. CASE p \notin Selected \cup {Root}
  <2>1. PICK i \in Import, choice \in Choice :
            Joined(i, choice) /\ p = i.pkg /\ selected'[p] = choice
    BY <1>1, <1>4, NewlySelected
  <2> DEFINE f == [pkg |-> i.pkg, todo |-> Parsed[choice.bytes].imports]
  <2>2. f \in Frame /\ f.pkg = p /\ f.todo = Parsed[choice.bytes].imports
    BY <2>1, OpenedFrame
  <2>3. frames # << >> /\ frames' = Append(Handled(i), f)
    BY <2>1 DEF Joined
  <2>4. j \in f.todo
    BY <1>4, <2>1, <2>2 DEF ImportsOf, SourceOf
  <2> HIDE DEF f
  <2>5. \A k \in f.todo : Waiting(f.pkg, k)'
    BY <1>1, <2>2, <2>3, WaitsPushed
  <2>6. Waiting(p, j)'
    BY <2>2, <2>4, <2>5
  <2>7. QED
    BY <2>6
<1>5. QED
  BY <1>2, <1>3, <1>4

-------------------------------------------------------------------------------
(* The lowest candidate that serves.                                       *)

(* What LowestCompatible says of a selected entry and an import.           *)
Serves(entry, i, C) ==
    /\ entry \in C /\ OnDisk(entry, i) = None
    /\ \A f \in C : Lower(f, entry) => OnDisk(f, i) # None

(* The candidate that is selected serves the import it is selected for,    *)
(* and no lower one does.                                                  *)
LEMMA SelectedServes ==
    ASSUME QInv, SelectCandidate, rewrites = 0
    PROVE  LET i == probe.imp IN Serves(probe.reading.entry, i, candidates(i))
<1>1. Reading /\ Objection = None
  BY DEF SelectCandidate
<1>2. QED
  BY <1>1, ReadingOnDisk DEF Serves

LEMMA LowestStep ==
    ASSUME QInv, [Next]_vars, WalkStep, UNCHANGED world
    PROVE  LowestCompatible'
<1> SUFFICES ASSUME rewrites' = 0, NEW p \in Selected'
             PROVE  \E x \in edges' : \E i \in ImportsOf(x.from)' :
                       /\ x.to = p /\ i.pkg = p
                       /\ Serves(selected'[p].entry, i, candidates(i))
  <2>1. \A i : candidates(i)' = candidates(i)
    BY SameCandidates
  <2>2. QED
    BY <2>1 DEF LowestCompatible, Serves
<1>1. /\ IInv /\ TypeOK /\ EdgesOK /\ frames \in Seq(Frame) /\ rewrites = 0 /\ ~ Rewrite
      /\ edges \subseteq edges' /\ \A q \in Selected : selected'[q] = selected[q]
  BY FilesStay, Grows DEF QInv, IInv, TypeOK
<1>2. CASE p \in Selected
  <2>1. PICK x \in edges : \E i \in ImportsOf(x.from) :
            x.to = p /\ i.pkg = p /\ Serves(selected[p].entry, i, candidates(i))
    BY <1>1, <1>2 DEF QInv, Quiet, LowestCompatible, Serves
  <2>2. ImportsOf(x.from)' = ImportsOf(x.from)
    BY <1>1, <2>1, SameImports DEF EdgesOK
  <2>3. QED
    BY <1>1, <1>2, <2>1, <2>2
<1>3. CASE p \notin Selected
  <2>1. PICK j \in Import, c \in Choice :
            Joined(j, c) /\ p = j.pkg /\ selected'[p] = c
    BY <1>1, <1>3, NewlySelected
  <2>2. SelectCandidate
    <3>1. selected' # selected
      BY <1>3 DEF Selected
    <3>2. QED
      BY <1>1, <3>1 DEF Next, Step, vars, Start, RefuteCycle, RefuteDigestConflict,
         RefuseSelected, LinkSelected, RefuteNoCandidate, BeginProbe, ReadUnavailable,
         ReadCandidate, RefuseCandidate, ExhaustCandidates, Return, Finish
  <2> DEFINE i == probe.imp
             choice == [entry |-> probe.reading.entry, bytes |-> Bytes2]
  <2>3. i \in Import /\ choice \in Choice /\ Joined(i, choice)
    BY <1>1, <2>2, Selects
  <2>4. Selected' = Selected \cup {i.pkg} /\ selected'[i.pkg] = choice
    BY <1>1, <2>3, SelectedJoined DEF Joined
  <2>5. p = i.pkg /\ selected'[p] = choice /\ choice.entry = probe.reading.entry
    BY <1>3, <2>4
  <2>6. Serves(choice.entry, i, candidates(i))
    BY <1>1, <2>2, <2>5, SelectedServes
  <2>7. frames # << >> /\ i \in Top.todo /\ Len(frames) \in 1 .. Len(frames)
    BY <1>1, <2>3 DEF Joined
  <2>8. i \in ImportsOf(Top.pkg) /\ Top.pkg \in Selected \cup {Root}
    BY <1>1, <2>7, TopPackage DEF QInv, Declared, FramesDeclared, Top
  <2>9. PICK e : edges' = edges \cup {e} /\ DeclaredEdge(e, Top.pkg, i, choice.entry.digest)
    BY <2>3, AddedOne DEF Joined
  <2>10. e \in edges' /\ e.to = p /\ e.from \in Selected \cup {Root} /\ i \in ImportsOf(e.from)
    BY <2>5, <2>8, <2>9 DEF DeclaredEdge
  <2>11. ImportsOf(e.from)' = ImportsOf(e.from)
    BY <1>1, <2>10, SameImports
  <2> HIDE DEF i, choice
  <2>12. QED
    BY <2>5, <2>6, <2>10, <2>11
<1>4. QED
  BY <1>2, <1>3

-------------------------------------------------------------------------------
(* The verdict.                                                            *)

(* With nothing left to do every import of a package that was not selected *)
(* has got its claim, and the resolution ends with one as bad.             *)
LEMMA FinishPrevails ==
    ASSUME QInv, Finish, rewrites = 0, NEW p \in Selected \cup {Root}, NEW i \in ImportsOf(p),
           selected[i.pkg] = None
    PROVE  /\ outcome'.state \in {Refuted, Unknown}
           /\ RefutedOnDisk(i) => outcome'.state = Refuted
<1>1. /\ TypeOK /\ decisions \in Seq(Claim) /\ frames \in Seq(Frame)
      /\ finalClaim(ClaimOrder, decisions, outcome')
      /\ frames # << >> /\ Len(frames) = 1 /\ Top.todo = {}
  BY DEF QInv, IInv, TypeOK, Finish, Running
<1>2. ~ Waiting(p, i)
  BY <1>1 DEF Waiting, Top
<1>3. Claimed(i)
  BY <1>1, <1>2 DEF QInv, Quiet, Settled
<1>4. PICK k \in DOMAIN decisions : outcome' = decisions[k]
  BY <1>1, <1>3 DEF finalClaim, Claimed
<1>5. outcome' \in Claim
  BY <1>1, <1>4
<1>6. outcome'.state \in {Refuted, Unknown}
  BY <1>5 DEF Claim, ClaimSet
<1>7. ASSUME RefutedOnDisk(i) PROVE outcome'.state = Refuted
  <2>1. "REFUTED" \in Flaws
    BY <1>3, <1>7 DEF Claimed, Flaws, Refuted
  <2>2. outcome'.state = Graph!Worst
    BY <1>1, FinalState
  <2>3. QED
    BY <2>1, <2>2 DEF Graph!Worst, Refuted
<1>8. QED
  BY <1>6, <1>7

LEMMA RefutationStep ==
    ASSUME QInv, [Next]_vars, WalkStep, UNCHANGED world
    PROVE  RefutationPrevails'
<1> SUFFICES ASSUME outcome' \notin {None, errorClaim}, rewrites' = 0,
                    NEW p \in Selected' \cup {Root}, NEW i \in ImportsOf(p)',
                    selected'[i.pkg] = None
             PROVE  /\ outcome'.state \in {Refuted, Unknown}
                    /\ RefutedOnDisk(i)' => outcome'.state = Refuted
  BY DEF RefutationPrevails
<1>1. IInv /\ rewrites = 0 /\ RefutedOnDisk(i)' = RefutedOnDisk(i)
  BY FilesStay, SameCandidates DEF QInv
<1>2. UNCHANGED walk \/ Finish
  BY DEF WalkStep, Start, Objected, Rejoined, Joined, Return, Running
<1>3. selected' = selected
  BY <1>2 DEF walk, Finish
<1>4. p \in Selected \cup {Root}
  BY <1>3 DEF Selected
<1>5. i \in ImportsOf(p)
  BY <1>1, <1>4, SameImports
<1>6. CASE Finish
  BY <1>1, <1>3, <1>4, <1>5, <1>6, FinishPrevails
<1>7. CASE UNCHANGED walk
  BY <1>1, <1>3, <1>4, <1>5, <1>7 DEF walk, QInv, Quiet, RefutationPrevails
<1>8. QED
  BY <1>2, <1>6, <1>7

-------------------------------------------------------------------------------
(* The theorems.                                                           *)

LEMMA QuietInitially == Init => Declared /\ Quiet
<1> SUFFICES ASSUME Init PROVE Declared /\ Quiet
  OBVIOUS
<1>1. Selected = {}
  BY DEF Init, Selected
<1>2. Declared
  BY <1>1 DEF Init, Declared, LinksAreDeclared, FramesDeclared
<1>3. QED
  BY <1>1, <1>2
  DEF Init, Quiet, FilesAsFound, ProbeFair, LowestCompatible, Settled, RefutationPrevails

LEMMA QuietStep == QInv /\ [Next]_vars => Declared' /\ Quiet'
<1> SUFFICES ASSUME QInv, [Next]_vars PROVE Declared' /\ Quiet'
  OBVIOUS
<1>1. WalkStep /\ UNCHANGED world
  BY WalkSteps DEF QInv
<1>2. Declared'
  BY <1>1, FramesDeclaredStep, LinksDeclaredStep DEF QInv, Declared
<1>3. FilesAsFound'
  BY FilesStay DEF FilesAsFound
<1>4. QED
  BY <1>1, <1>2, <1>3, ProbeFairStep, LowestStep, SettledStep, RefutationStep DEF Quiet

THEOREM QuietInvariance == Spec => []QInv
<1>1. Init => QInv
  BY Initially, QuietInitially DEF QInv
<1>2. QInv /\ [Next]_vars => QInv'
  BY Inductive, QuietStep DEF QInv
<1>3. QED
  BY <1>1, <1>2, PTL DEF Spec

(* While no file is rewritten, the candidate resolveImport selects is the  *)
(* lowest of those the import admits that passes inspectCandidate.         *)
THEOREM Lowest == Spec => []LowestCompatible
<1>1. QInv => LowestCompatible
  BY DEF QInv, Quiet
<1>2. QED
  BY <1>1, QuietInvariance, PTL

(* While no file is rewritten, an import without a selected package makes  *)
(* finalClaim say so, and REFUTED if one of its candidates was refuted.    *)
THEOREM Prevalence == Spec => []RefutationPrevails
<1>1. QInv => RefutationPrevails
  BY DEF QInv, Quiet
<1>2. QED
  BY <1>1, QuietInvariance, PTL
===============================================================================
