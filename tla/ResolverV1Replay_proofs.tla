------------------------ MODULE ResolverV1Replay_proofs ------------------------
(***************************************************************************)
(* That a resolution of v1 replays to itself with the lockfile it wrote.   *)
(*                                                                         *)
(* The argument: while no file is rewritten, where a walk gets depends on  *)
(* the catalog, the consumer and the digest each package is selected with, *)
(* and on nothing else.  The replay's lockfile makes both resolutions      *)
(* agree on these digests, so both follow one deterministic walk; where it *)
(* ends without an objection neither had one, and where an import is       *)
(* refused in one it is refused in the other.                              *)
(***************************************************************************)
EXTENDS ResolverV1_proofs

-------------------------------------------------------------------------------
(* The walk over a catalog C that selects each package with the digest D   *)
(* gives it, as long as it meets no objection.                             *)

Walk    == [frames : Seq(Frame) \ {<< >>}, visited : SUBSET Package, edges : SUBSET Edge]
Digests == [Package -> Bytes \cup {None}]

Upper(w)     == w.frames[Len(w.frames)]
Resolving(w) == {w.frames[k].pkg : k \in 2 .. Len(w.frames)}
Passed(w, i) == [w.frames EXCEPT ![Len(w.frames)].todo = @ \ {i}]
Least(i, T)  == i \in T /\ \A j \in T \ {i} : Before(i, j)

(* Entry e serves import i on the files found at first; some entry with    *)
(* the digest D names does.                                                *)
Acceptable(e, i) ==
    Disk[e.path] # None /\ inspectCandidate(e, i, Disk[e.path], Disk[e.path]) = None
Served(C, D, i) ==
    \E e \in C : /\ e.name = i.pkg /\ e.version \in Admits[i.constraint]
                 /\ e.digest = D[i.pkg] /\ Acceptable(e, i)

Leaves(w, x) ==
    /\ Upper(w).todo = {} /\ Len(w.frames) > 1
    /\ x = [frames  |-> SubSeq(w.frames, 1, Len(w.frames) - 1),
            visited |-> w.visited \cup {Upper(w).pkg}, edges |-> w.edges]

Skips(w, i, x) ==
    /\ i.pkg \in Resolving(w)
    /\ x = [frames |-> Passed(w, i), visited |-> w.visited, edges |-> w.edges]

Rejoins(D, w, i, x) ==
    /\ i.pkg \notin Resolving(w) /\ i.pkg \in w.visited
    /\ importMatches(Parsed[D[i.pkg]], i) = None
    /\ x = [frames |-> Passed(w, i), visited |-> w.visited,
            edges  |-> w.edges \cup {EdgeOf(Upper(w).pkg, i)}]

Enters(C, D, w, i, x) ==
    /\ i.pkg \notin Resolving(w) /\ i.pkg \notin w.visited /\ Served(C, D, i)
    /\ x = [frames  |-> Append(Passed(w, i),
                               [pkg |-> i.pkg, todo |-> Parsed[D[i.pkg]].imports]),
            visited |-> w.visited,
            edges   |-> w.edges \cup {EdgeOf(Upper(w).pkg, i)}]

Turn(C, D, w, x) ==
    \/ Leaves(w, x)
    \/ \E i \in Upper(w).todo :
          /\ Least(i, Upper(w).todo)
          /\ Skips(w, i, x) \/ Rejoins(D, w, i, x) \/ Enters(C, D, w, i, x)

(* What the walk of consumer R comes to: what is in every set that holds   *)
(* where it begins and all that follows.                                   *)
Beginning(R) == [frames |-> << [pkg |-> Root, todo |-> R.imports] >>,
                 visited |-> {}, edges |-> {}]
Follows(C, D, T) == \A w \in T : \A x \in Walk : Turn(C, D, w, x) => x \in T
ComesTo(C, R, D, w) ==
    /\ w \in Walk
    /\ \A T \in SUBSET Walk : Beginning(R) \in T /\ Follows(C, D, T) => w \in T

(* It can come to an end, or stop short of an import that is refused.      *)
Halts(C, D, w) == \A x \in Walk : ~ Turn(C, D, w, x)
StopsShort(C, R, D) ==
    \E w \in Walk : ComesTo(C, R, D, w) /\ Upper(w).todo # {} /\ Halts(C, D, w)

(* One import is the least.                                                *)
LEMMA OneLeast ==
    ASSUME NEW T \in SUBSET Import, NEW i, NEW j, Least(i, T), Least(j, T)
    PROVE  i = j
<1>1. /\ i \in Import /\ j \in Import
      /\ i.key \in Nat /\ i.line \in Nat /\ j.key \in Nat /\ j.line \in Nat
  BY WorldAssumption DEF Least, IsImport
<1>2. SUFFICES ASSUME i # j PROVE FALSE
  OBVIOUS
<1>3. Before(i, j) /\ Before(j, i)
  BY <1>2 DEF Least
<1>4. QED
  BY <1>1, <1>3 DEF Before

LEMMA UpperFrame ==
    ASSUME NEW w \in Walk
    PROVE  Upper(w) \in Frame /\ Upper(w).todo \subseteq Import
<1>1. w.frames \in Seq(Frame) /\ w.frames # << >>
  BY DEF Walk
<1>2. Len(w.frames) \in 1 .. Len(w.frames)
  BY <1>1
<1>3. Upper(w) \in Frame
  BY <1>1, <1>2 DEF Upper
<1>4. QED
  BY <1>3 DEF Frame

(* The walk is deterministic.                                              *)
LEMMA OneTurn ==
    ASSUME NEW C, NEW D, NEW w \in Walk, NEW x, NEW y, Turn(C, D, w, x), Turn(C, D, w, y)
    PROVE  x = y
<1>1. CASE Upper(w).todo = {}
  BY <1>1 DEF Turn, Leaves
<1>2. CASE Upper(w).todo # {}
  <2>1. PICK i : Least(i, Upper(w).todo)
                 /\ (Skips(w, i, x) \/ Rejoins(D, w, i, x) \/ Enters(C, D, w, i, x))
    BY <1>2 DEF Turn, Leaves
  <2>2. PICK j : Least(j, Upper(w).todo)
                 /\ (Skips(w, j, y) \/ Rejoins(D, w, j, y) \/ Enters(C, D, w, j, y))
    BY <1>2 DEF Turn, Leaves
  <2>3. i = j
    BY <2>1, <2>2, OneLeast, UpperFrame
  <2>4. Skips(w, i, y) \/ Rejoins(D, w, i, y) \/ Enters(C, D, w, i, y)
    BY <2>2, <2>3
  <2>5. CASE i.pkg \in Resolving(w)
    BY <2>1, <2>4, <2>5 DEF Skips, Rejoins, Enters
  <2>6. CASE i.pkg \notin Resolving(w) /\ i.pkg \in w.visited
    BY <2>1, <2>4, <2>6 DEF Skips, Rejoins, Enters
  <2>7. CASE i.pkg \notin Resolving(w) /\ i.pkg \notin w.visited
    BY <2>1, <2>4, <2>7 DEF Skips, Rejoins, Enters
  <2>8. QED
    BY <2>5, <2>6, <2>7
<1>3. QED
  BY <1>1, <1>2

(* It begins at its beginning and comes to whatever follows.               *)
LEMMA Begins ==
    ASSUME NEW C, NEW R \in Roots, NEW D
    PROVE  Beginning(R) \in Walk /\ ComesTo(C, R, D, Beginning(R))
<1>1. [pkg |-> Root, todo |-> R.imports] \in Frame
  BY DeclaredTypes DEF Frame
<1>2. Beginning(R) \in Walk
  BY <1>1 DEF Beginning, Walk
<1>3. QED
  BY <1>2 DEF ComesTo

LEMMA Continues ==
    ASSUME NEW C, NEW R, NEW D, NEW w, ComesTo(C, R, D, w), NEW x \in Walk, Turn(C, D, w, x)
    PROVE  ComesTo(C, R, D, x)
  BY DEF ComesTo, Follows

(* It halts in one place only: everything it comes to leads there.         *)
LEMMA OneHalt ==
    ASSUME NEW C, NEW R \in Roots, NEW D, NEW w, NEW x,
           ComesTo(C, R, D, w), Halts(C, D, w), ComesTo(C, R, D, x), Halts(C, D, x)
    PROVE  w = x
<1> DEFINE Leading(y) == \A T \in SUBSET Walk : y \in T /\ Follows(C, D, T) => x \in T
           S == {y \in Walk : Leading(y)}
<1>1. w \in Walk /\ x \in Walk
  BY DEF ComesTo
<1>2. Beginning(R) \in S
  BY Begins DEF ComesTo
<1>3. ASSUME NEW y \in S, NEW z \in Walk, Turn(C, D, y, z)
      PROVE  Leading(z)
  <2> SUFFICES ASSUME NEW T \in SUBSET Walk, z \in T, Follows(C, D, T)
               PROVE  x \in T
    OBVIOUS
  <2>1. y \in Walk /\ Leading(y)
    OBVIOUS
  <2>2. Follows(C, D, T \cup {y})
    BY <1>3, <2>1, OneTurn DEF Follows
  <2>3. T \cup {y} \in SUBSET Walk
    BY <2>1
  <2>4. x \in T \cup {y}
    BY <2>1, <2>2, <2>3
  <2>5. x # y
    BY <1>3 DEF Halts
  <2>6. QED
    BY <2>4, <2>5
<1>4. Follows(C, D, S)
  BY <1>3 DEF Follows
<1>5. S \in SUBSET Walk
  OBVIOUS
<1>6. w \in S
  <2> HIDE DEF S
  <2> QED
    BY <1>2, <1>4, <1>5 DEF ComesTo
<1>7. Follows(C, D, {w})
  BY DEF Follows, Halts
<1>8. QED
  BY <1>1, <1>6, <1>7
-------------------------------------------------------------------------------
(* The inductive invariant, over IInv of ResolverV1_proofs.                *)

(* The resolution under way, as a walk.                                    *)
Underway == [frames |-> frames, visited |-> visited, edges |-> edges]

(* D gives what was selected its digest; it gives what is locked that of   *)
(* the lock.                                                               *)
Agrees(D, choices) == \A p \in Package : choices[p] # None => D[p] = choices[p].entry.digest
Heeds(D, refs)     == \A p \in Package : refs[p] # None => D[p] = refs[p]

(* Until a claim is found the resolution is where the walk comes to,       *)
(* whatever digests are yet to be chosen.                                  *)
OnCourse ==
    frames # << >> /\ decisions = << >> =>
        \A D \in Digests : Agrees(D, selected) => ComesTo(catalog, root, D, Underway)

(* The provided lockfile contradicts neither the root's locks nor itself.  *)
Compatible ==
    provided # None =>
        \A l \in provided.packages :
            /\ root.locks[l.name] \in {None, l.digest}
            /\ \A m \in provided.packages : m.name = l.name => m.digest = l.digest

(* Then a claim means that the walk stops short, whatever digests are yet  *)
(* to be chosen within the locks.                                          *)
OffCourse ==
    decisions # << >> /\ Compatible =>
        \A D \in Digests :
            Agrees(D, selected) /\ Heeds(D, lockRefs) => StopsShort(catalog, root, D)

(* The locks are the root's and those of the provided lockfile that were   *)
(* merged; unless they contradict, no claim comes of the merge.            *)
Merged ==
    /\ unapplied # {} => provided # None /\ unapplied \subseteq provided.packages
    /\ frames # << >> =>
          /\ root.imports # {}
          /\ \A p \in Package :
                lockRefs[p] # None =>
                    \/ lockRefs[p] = root.locks[p]
                    \/ provided # None /\ [name |-> p, digest |-> lockRefs[p]] \in provided.packages
          /\ provided # None /\ Compatible =>
                \A l \in provided.packages \ unapplied : lockRefs[l.name] = l.digest
    /\ decisions # << >> /\ Compatible => unapplied = {}

(* The probe is for the least of the imports that wait, and what it has    *)
(* tried is not acceptable.                                                *)
Tried ==
    probe # None =>
        /\ Least(probe.imp, Top.todo)
        /\ \A e \in LockedCandidates(probe.imp) \ probe.untried : ~ Acceptable(e, probe.imp)

(* What is kept of the first resolution f: the lockfile it wrote respects  *)
(* the root's locks; if it was CLOSED the walk comes to its end, if not,   *)
(* and it had no lockfile, the walk stops short.                           *)
Taken(f) == {p \in Package : f.selected[p] # None}
LockOf(f) ==
    [valid |-> TRUE,
     packages |-> {[name |-> p, digest |-> f.selected[p].entry.digest] : p \in Taken(f)}]
EndOf(f) == [frames  |-> << [pkg |-> Root, todo |-> {}] >>,
             visited |-> Taken(f), edges |-> f.edges]
Recorded ==
    first # None =>
        /\ root.imports # {} /\ outcome # errorClaim
        /\ provided = LockOf(first) /\ provided \in Lockfile
        /\ \A p \in Taken(first) : root.locks[p] \in {None, first.selected[p].entry.digest}
        /\ first.outcome = closedClaim =>
              \A D \in Digests :
                  Agrees(D, first.selected) => ComesTo(catalog, root, D, EndOf(first))
        /\ first.outcome # closedClaim /\ first.provided = None =>
              \A D \in Digests :
                  Agrees(D, first.selected) /\ Heeds(D, root.locks)
                      => StopsShort(catalog, root, D)

RInv == IInv /\ Merged /\ (rewrites = 0 => OnCourse /\ OffCourse /\ Tried /\ Recorded)

-------------------------------------------------------------------------------
(* The steps.                                                              *)

(* The import at hand is refused.                                          *)
Refuses(i) ==
    \/ RefuseSelected(i) \/ RefuteNoVersion(i) \/ RefuteLock(i)
    \/ ExhaustCandidates /\ probe.imp = i

LEMMA StepKinds ==
    ASSUME IInv, [Next]_vars
    PROVE  \/ UNCHANGED <<locks, frames, graph, decisions, first>>
           \/ Start \/ ApplyLock \/ Return \/ Replay \/ SelectCandidate
           \/ \E i \in Import : i \in Pending /\ (SkipOpen(i) \/ LinkSelected(i) \/ Refuses(i))
<1>1. CASE UNCHANGED vars \/ Rewrite
  BY <1>1 DEF vars, Rewrite
<1>2. CASE \E i \in Pending : BeginProbe(i)
  BY <1>2 DEF BeginProbe
<1>3. CASE ReadUnavailable \/ ReadCandidate \/ RefuseCandidate \/ Finish
  BY <1>3 DEF ReadUnavailable, ReadCandidate, RefuseCandidate, Finish
<1>4. CASE ExhaustCandidates
  <2>1. probe # None
    BY <1>4 DEF ExhaustCandidates
  <2>2. probe.imp \in Import /\ probe.imp \in Pending
    BY <2>1, ProbeTypes DEF IInv, ProbeOK, Pending
  <2>3. QED
    BY <1>4, <2>2 DEF Refuses
<1>5. ASSUME NEW i \in Pending,
             SkipOpen(i) \/ LinkSelected(i) \/ RefuseSelected(i) \/ RefuteNoVersion(i)
             \/ RefuteLock(i)
      PROVE  \E j \in Import : j \in Pending /\ (SkipOpen(j) \/ LinkSelected(j) \/ Refuses(j))
  <2>1. i \in Import
    BY PendingTypes DEF IInv
  <2>2. QED
    BY <1>5, <2>1 DEF Refuses
<1>6. QED
  BY <1>1, <1>2, <1>3, <1>4, <1>5 DEF Next, Step

(* The resolution under way is a walk, and the import at hand one of it.   *)
LEMMA UnderwayIsWalk ==
    ASSUME TypeOK, frames # << >>
    PROVE  /\ Underway \in Walk /\ Upper(Underway) = Top
           /\ Resolving(Underway) = Open /\ \A i : Passed(Underway, i) = Handled(i)
<1>1. Underway \in Walk
  BY DEF TypeOK, Underway, Walk
<1>2. Underway.frames = frames
  BY DEF Underway
<1>3. QED
  BY <1>1, <1>2 DEF Upper, Top, Resolving, Open, Passed, Handled

LEMMA OneImport ==
    ASSUME TypeOK, frames # << >>, NEW i, NEW j, Least(i, Top.todo), Least(j, Top.todo)
    PROVE  i = j
<1>1. Top.todo \subseteq Import
  BY TopTypes
<1>2. QED
  BY <1>1, OneLeast

LEMMA CurrentIsLeast ==
    ASSUME NEW i, Current(i)
    PROVE  /\ Least(i, Top.todo) /\ frames # << >> /\ Top.todo # {}
           /\ probe = None /\ unapplied = {} /\ outcome = None
  BY DEF Current, Least, Running
-------------------------------------------------------------------------------
(* Each step of the resolution that meets no objection is one of the walk. *)

(* The source of a selected package is that of its digest.                 *)
LEMMA SourceOfDigest ==
    ASSUME SelectedOnEvidence, rewrites = 0, NEW D, Agrees(D, selected), NEW p \in Selected
    PROVE  Parsed[D[p]] = SourceOf(p)
<1>1. p \in Package /\ selected[p] # None
  BY DEF Selected
<1>2. selected[p].bytes = selected[p].entry.digest
  BY DEF SelectedOnEvidence
<1>3. QED
  BY <1>1, <1>2 DEF Agrees, SourceOf

LEMMA SkipTurns ==
    ASSUME TypeOK, NEW i, SkipOpen(i), NEW D
    PROVE  Turn(catalog, D, Underway, Underway')
<1>1. /\ Least(i, Top.todo) /\ frames # << >> /\ i.pkg \in Open
      /\ frames' = Handled(i) /\ UNCHANGED <<visited, edges>>
  BY CurrentIsLeast DEF SkipOpen, graph
<1>2. Underway' = [frames |-> Handled(i), visited |-> visited, edges |-> edges]
  BY <1>1 DEF Underway
<1>3. Underway.visited = visited /\ Underway.edges = edges
  BY DEF Underway
<1>4. Skips(Underway, i, Underway')
  BY <1>1, <1>2, <1>3, UnderwayIsWalk DEF Skips
<1>5. i \in Top.todo
  BY <1>1 DEF Least
<1>6. QED
  BY <1>1, <1>4, <1>5, UnderwayIsWalk DEF Turn

LEMMA LinkTurns ==
    ASSUME IInv, rewrites = 0, NEW i \in Import, LinkSelected(i), NEW D, Agrees(D, selected)
    PROVE  Turn(catalog, D, Underway, Underway')
<1>1. /\ Least(i, Top.todo) /\ frames # << >> /\ i.pkg \notin Open /\ selected[i.pkg] # None
      /\ importMatches(SourceOf(i.pkg), i) = None
      /\ edges' = addEdge(i) /\ UNCHANGED visited
      /\ frames' = walkDependencies(i, selected[i.pkg])
  BY CurrentIsLeast DEF LinkSelected, Reuse
<1>2. i.pkg \in Selected /\ i.pkg \in visited
  BY <1>1, ImportTypes DEF Selected, IInv, WalkedOnce
<1>3. frames' = Handled(i)
  BY <1>1, <1>2 DEF walkDependencies
<1>4. importMatches(Parsed[D[i.pkg]], i) = None
  BY <1>1, <1>2, SourceOfDigest DEF IInv
<1>5. Underway' = [frames |-> Handled(i), visited |-> visited,
                   edges |-> edges \cup {EdgeOf(Top.pkg, i)}]
  BY <1>1, <1>3 DEF Underway, addEdge
<1>6. Underway.visited = visited /\ Underway.edges = edges
  BY DEF Underway
<1>7. Rejoins(D, Underway, i, Underway')
  BY <1>1, <1>2, <1>4, <1>5, <1>6, UnderwayIsWalk DEF Rejoins, IInv
<1>8. i \in Top.todo
  BY <1>1 DEF Least
<1>9. QED
  BY <1>1, <1>7, <1>8, UnderwayIsWalk DEF Turn, IInv

LEMMA SelectTurns ==
    ASSUME IInv, Tried, rewrites = 0, SelectCandidate, NEW D, Agrees(D, selected')
    PROVE  Turn(catalog, D, Underway, Underway')
<1> DEFINE i == probe.imp
           e == probe.reading.entry
           choice == [entry |-> e, bytes |-> Bytes2]
<1>1. /\ probe # None /\ probe.reading # None /\ Objection = None
      /\ selected' = [selected EXCEPT ![i.pkg] = choice]
      /\ edges' = addEdge(i) /\ UNCHANGED visited
      /\ frames' = walkDependencies(i, choice)
  BY DEF SelectCandidate, Reading
<1>2. /\ frames # << >> /\ i \in Import /\ i.pkg \in Package
      /\ i.pkg \notin Open /\ selected[i.pkg] = None
      /\ e \in Entry /\ e \in LockedCandidates(i) /\ probe.reading.data = Disk[e.path]
  BY <1>1, ProbeTypes, ImportTypes DEF IInv, ProbeOK
<1>3. i.pkg \notin visited
  BY <1>2 DEF IInv, WalkedOnce, Selected
<1>4. Bytes2 = Disk[e.path] /\ Bytes2 \in Bytes \cup {None}
  BY <1>2, Bytes2Type DEF IInv, DiskOK, Bytes2
<1>5. inspectCandidate(e, i, Disk[e.path], Disk[e.path]) = None
  BY <1>1, <1>2, <1>4 DEF Objection
<1>6. Disk[e.path] = e.digest /\ Disk[e.path] \in Sources /\ Disk[e.path] # None
  BY <1>2, <1>4, <1>5, InspectAccepts, WorldAssumption DEF Sources
<1>7. selected'[i.pkg] = choice /\ choice # None
  BY <1>1, <1>2, <1>4, <1>6, WorldAssumption DEF IInv, TypeOK, Sources
<1>8. D[i.pkg] = e.digest
  BY <1>2, <1>7 DEF Agrees
<1>9. Served(catalog, D, i)
  BY <1>2, <1>5, <1>6, <1>8 DEF Served, Acceptable, LockedCandidates, candidates
<1>10. frames' = Append(Handled(i), [pkg |-> i.pkg, todo |-> Parsed[D[i.pkg]].imports])
  BY <1>1, <1>2, <1>3, <1>4, <1>6, <1>8 DEF walkDependencies
<1>11. Underway' = [frames  |-> Append(Handled(i), [pkg |-> i.pkg, todo |-> Parsed[D[i.pkg]].imports]),
                    visited |-> visited, edges |-> edges \cup {EdgeOf(Top.pkg, i)}]
  BY <1>1, <1>10 DEF Underway, addEdge
<1>12. Underway.visited = visited /\ Underway.edges = edges
  BY DEF Underway
<1>13. Enters(catalog, D, Underway, i, Underway')
  BY <1>2, <1>3, <1>9, <1>11, <1>12, UnderwayIsWalk DEF Enters, IInv
<1>14. Least(i, Top.todo) /\ i \in Top.todo
  BY <1>1 DEF Tried, Least
<1>15. QED
  BY <1>2, <1>13, <1>14, UnderwayIsWalk DEF Turn, IInv

LEMMA ReturnTurns ==
    ASSUME TypeOK, Return, NEW D
    PROVE  Turn(catalog, D, Underway, Underway')
<1>1. /\ frames # << >> /\ Len(frames) > 1 /\ Top.todo = {}
      /\ visited' = visited \cup {Top.pkg} /\ UNCHANGED edges
      /\ frames' = SubSeq(frames, 1, Len(frames) - 1)
  BY DEF Return, Running
<1>2. /\ Underway' = [frames |-> SubSeq(frames, 1, Len(frames) - 1),
                      visited |-> visited \cup {Top.pkg}, edges |-> edges]
      /\ Underway.frames = frames /\ Underway.visited = visited /\ Underway.edges = edges
  BY <1>1 DEF Underway
<1>3. Leaves(Underway, Underway')
  BY <1>1, <1>2, UnderwayIsWalk DEF Leaves
<1>4. QED
  BY <1>3 DEF Turn

(* Where an import is refused the walk halts, if it selects what was       *)
(* selected and what is locked.                                            *)
LEMMA RefusedFresh ==
    ASSUME IInv, Tried, NEW i \in Import, Refuses(i), ~ RefuseSelected(i),
           NEW D, Heeds(D, lockRefs)
    PROVE  selected[i.pkg] = None /\ i.pkg \notin Open /\ ~ Served(catalog, D, i)
<1>1. i.pkg \in Package
  BY ImportTypes
<1>2. /\ selected[i.pkg] = None /\ i.pkg \notin Open
      /\ \A e \in LockedCandidates(i) : ~ Acceptable(e, i)
  <2>1. CASE RefuteNoVersion(i) \/ RefuteLock(i)
    BY <2>1 DEF RefuteNoVersion, RefuteLock, Fresh, LockedCandidates
  <2>2. CASE ExhaustCandidates /\ probe.imp = i
    BY <2>2 DEF ExhaustCandidates, IInv, ProbeOK, Tried
  <2>3. QED
    BY <2>1, <2>2 DEF Refuses
<1>3. ASSUME NEW e \in catalog, e.name = i.pkg, e.version \in Admits[i.constraint],
             e.digest = D[i.pkg]
      PROVE  ~ Acceptable(e, i)
  <2>1. e \in candidates(i)
    BY <1>3 DEF candidates
  <2>2. lockRefs[i.pkg] \in {None, e.digest}
    BY <1>1, <1>3 DEF Heeds
  <2>3. QED
    BY <1>2, <2>1, <2>2 DEF LockedCandidates
<1>4. QED
  BY <1>2, <1>3 DEF Served

LEMMA RefusedHalts ==
    ASSUME IInv, Tried, rewrites = 0, NEW i \in Import, Refuses(i),
           NEW D, Agrees(D, selected), Heeds(D, lockRefs)
    PROVE  Halts(catalog, D, Underway)
<1>1. Least(i, Top.todo) /\ frames # << >> /\ Top.todo # {}
  <2>1. CASE RefuseSelected(i) \/ RefuteNoVersion(i) \/ RefuteLock(i)
    BY <2>1, CurrentIsLeast DEF RefuseSelected, RefuteNoVersion, RefuteLock, Reuse, Fresh
  <2>2. CASE ExhaustCandidates /\ probe.imp = i
    BY <2>2, ProbeTypes DEF ExhaustCandidates, Tried, Least, IInv
  <2>3. QED
    BY <2>1, <2>2 DEF Refuses
<1>2. i.pkg \in Package /\ i.pkg \notin Open
  BY ImportTypes, RefusedFresh DEF RefuseSelected, Reuse
<1>3. ~ (i.pkg \in visited /\ importMatches(Parsed[D[i.pkg]], i) = None)
  <2>1. CASE RefuseSelected(i)
    <3>1. selected[i.pkg] # None /\ importMatches(SourceOf(i.pkg), i) # None
      BY <2>1 DEF RefuseSelected, Reuse
    <3>2. i.pkg \in Selected
      BY <1>2, <3>1 DEF Selected
    <3>3. QED
      BY <3>1, <3>2, SourceOfDigest DEF IInv
  <2>2. CASE ~ RefuseSelected(i)
    BY <2>2, RefusedFresh DEF IInv, WalkedOnce, Selected
  <2>3. QED
    BY <2>1, <2>2
<1>4. ~ (i.pkg \notin visited /\ Served(catalog, D, i))
  <2>1. CASE RefuseSelected(i)
    BY <1>2, <2>1 DEF RefuseSelected, Reuse, IInv, WalkedOnce, Selected
  <2>2. CASE ~ RefuseSelected(i)
    BY <2>2, RefusedFresh
  <2>3. QED
    BY <2>1, <2>2
<1>5. Underway.visited = visited
  BY DEF Underway
<1>6. SUFFICES ASSUME NEW x \in Walk, Turn(catalog, D, Underway, x) PROVE FALSE
  BY DEF Halts
<1>7. /\ Upper(Underway) = Top /\ Resolving(Underway) = Open
  BY <1>1, UnderwayIsWalk DEF IInv
<1>8. PICK j : /\ Least(j, Top.todo)
               /\ \/ Skips(Underway, j, x) \/ Rejoins(D, Underway, j, x)
                  \/ Enters(catalog, D, Underway, j, x)
  BY <1>1, <1>6, <1>7 DEF Turn, Leaves
<1>9. j = i
  BY <1>1, <1>8, OneImport DEF IInv
<1>10. QED
  BY <1>2, <1>3, <1>4, <1>5, <1>7, <1>8, <1>9 DEF Skips, Rejoins, Enters
-------------------------------------------------------------------------------
(* The invariant is kept.                                                  *)

(* A refusal adds a claim when every lock is merged.                       *)
LEMMA Refusal ==
    ASSUME IInv, NEW i \in Import, Refuses(i)
    PROVE  /\ unapplied = {} /\ frames # << >> /\ frames' # << >>
           /\ decisions' # << >> /\ UNCHANGED <<locks, graph, first>>
           /\ probe' = None /\ outcome' = None
<1>1. CASE RefuseSelected(i) \/ RefuteNoVersion(i) \/ RefuteLock(i)
  <2>1. /\ unapplied = {} /\ frames # << >> /\ probe = None /\ outcome = None
        /\ frames' = Handled(i) /\ UNCHANGED <<locks, graph, first, probe, outcome>>
        /\ \E c : decisions' = Append(decisions, c)
    BY <1>1, CurrentIsLeast
    DEF RefuseSelected, RefuteNoVersion, RefuteLock, Reuse, Fresh, Decide
  <2>2. QED
    BY <2>1 DEF Handled, IInv, TypeOK
<1>2. CASE ExhaustCandidates /\ probe.imp = i
  <2>1. /\ frames' = Handled(i) /\ probe' = None /\ probe # None
        /\ UNCHANGED <<locks, graph, first, outcome>>
        /\ \E c : decisions' = Append(decisions, c)
    BY <1>2 DEF ExhaustCandidates, Decide
  <2>2. unapplied = {} /\ frames # << >> /\ outcome = None
    BY <2>1 DEF IInv, ProbeOK, Running
  <2>3. QED
    BY <2>1, <2>2 DEF Handled, IInv, TypeOK
<1>3. QED
  BY <1>1, <1>2 DEF Refuses

(* The locks stay, and no claim comes before they are merged.              *)
LEMMA MergedKept ==
    ASSUME Merged, UNCHANGED <<world, locks>>, frames # << >> \/ frames' = << >>,
           decisions' = decisions \/ unapplied = {}
    PROVE  Merged'
  BY DEF Merged, world, locks, Compatible

(* Unless locks contradict, an entry that is merged agrees with the lock.  *)
LEMMA MergeAgrees ==
    ASSUME IInv, Merged, Compatible, frames # << >>, NEW l \in unapplied
    PROVE  lockRefs[l.name] \in {None, l.digest}
<1>1. provided # None /\ l \in provided.packages /\ l.name \in Package
  BY DEF Merged, IInv, TypeOK, LockEntry
<1>2. SUFFICES ASSUME lockRefs[l.name] # None PROVE lockRefs[l.name] = l.digest
  OBVIOUS
<1>3. CASE lockRefs[l.name] = root.locks[l.name]
  BY <1>1, <1>2, <1>3 DEF Compatible
<1>4. CASE lockRefs[l.name] # root.locks[l.name]
  <2> DEFINE m == [name |-> l.name, digest |-> lockRefs[l.name]]
  <2>1. m \in provided.packages
    BY <1>1, <1>2, <1>4 DEF Merged
  <2>2. m.name = l.name /\ m.digest = lockRefs[l.name]
    OBVIOUS
  <2> HIDE DEF m
  <2>3. QED
    BY <1>1, <2>1, <2>2 DEF Compatible
<1>5. QED
  BY <1>3, <1>4

LEMMA MergedStep ==
    ASSUME IInv, Merged, [Next]_vars, UNCHANGED world
    PROVE  Merged'
<1>1. CASE UNCHANGED <<locks, frames, graph, decisions, first>>
  BY <1>1, MergedKept
<1>2. CASE Start
  <2>1. decisions' = decisions /\ decisions = << >> /\ provided' = provided /\ frames = << >>
        /\ unapplied = {}
    BY <1>2 DEF Start, IInv, StackOK
  <2>2. CASE ValidStart
    <3>1. /\ root'.imports # {} /\ lockRefs' = root.locks
          /\ unapplied' = IF provided = None THEN {} ELSE provided.packages
      BY <1>2, <2>2 DEF Start, ValidStart, world
    <3>2. root' = root
      BY DEF world
    <3>3. QED
      BY <2>1, <3>1, <3>2 DEF Merged
  <2>3. CASE ~ ValidStart
    <3>1. UNCHANGED <<world, locks, frames, decisions>>
      BY <1>2, <2>1, <2>3 DEF Start, locks
    <3>2. QED
      BY <2>1, <3>1, MergedKept
  <2>4. QED
    BY <2>2, <2>3
<1>3. CASE ApplyLock
  <2>1. PICK l \in unapplied : MergeLock(l) /\ unapplied' = unapplied \ {l}
    BY <1>3 DEF ApplyLock
  <2>2. /\ UNCHANGED <<provided, frames>> /\ frames # << >> /\ UNCHANGED <<catalog, root>>
    BY <1>3 DEF ApplyLock, Running, world
  <2>3. /\ provided # None /\ l \in provided.packages /\ l \in LockEntry
        /\ unapplied \subseteq provided.packages
    BY <2>1 DEF Merged, IInv, TypeOK
  <2>4. l.name \in Package /\ l = [name |-> l.name, digest |-> l.digest] /\ l.digest # None
    BY <2>3, WorldAssumption DEF LockEntry
  <2>5. lockRefs \in [Package -> Bytes \cup {None}]
    BY DEF IInv, TypeOK
  <2>6. Compatible => lockRefs[l.name] \in {None, l.digest}
    BY <2>1, <2>2, MergeAgrees
  <2>7. Compatible => decisions' = << >>
    BY <2>1, <2>6 DEF MergeLock, Merged
  <2>8. \/ lockRefs' = lockRefs /\ ~ Compatible
        \/ lockRefs' = [lockRefs EXCEPT ![l.name] = l.digest]
    BY <2>1, <2>6 DEF MergeLock
  <2>9. ASSUME NEW p \in Package, lockRefs'[p] # None
        PROVE  \/ lockRefs'[p] = root.locks[p]
               \/ [name |-> p, digest |-> lockRefs'[p]] \in provided.packages
    <3>1. CASE lockRefs'[p] = lockRefs[p]
      BY <2>2, <2>9, <3>1 DEF Merged
    <3>2. CASE lockRefs'[p] # lockRefs[p]
      <4>1. p = l.name /\ lockRefs'[p] = l.digest
        BY <2>5, <2>8, <3>2
      <4>2. QED
        BY <2>3, <2>4, <4>1
    <3>3. QED
      BY <3>1, <3>2
  <2>10. ASSUME Compatible, NEW m \in provided.packages \ unapplied'
         PROVE  lockRefs'[m.name] = m.digest
    <3>1. lockRefs' = [lockRefs EXCEPT ![l.name] = l.digest]
      BY <2>8, <2>10
    <3>2. CASE m.name = l.name
      <4>1. m.digest = l.digest
        BY <2>3, <2>10, <3>2 DEF Compatible
      <4>2. QED
        BY <2>4, <2>5, <3>1, <3>2, <4>1
    <3>3. CASE m.name # l.name
      <4>1. m \in provided.packages \ unapplied
        BY <2>1, <2>10, <3>3
      <4>2. lockRefs[m.name] = m.digest
        BY <2>2, <2>3, <2>10, <4>1 DEF Merged
      <4>3. QED
        BY <2>5, <3>1, <3>3, <4>2
    <3>4. QED
      BY <3>2, <3>3
  <2>11. Compatible' <=> Compatible
    BY <2>2 DEF Compatible
  <2>12. unapplied' \subseteq provided.packages /\ root.imports # {}
    BY <2>1, <2>2, <2>3 DEF Merged
  <2>13. /\ \A p \in Package :
               lockRefs'[p] # None =>
                   \/ lockRefs'[p] = root.locks[p]
                   \/ [name |-> p, digest |-> lockRefs'[p]] \in provided.packages
         /\ Compatible => \A m \in provided.packages \ unapplied' : lockRefs'[m.name] = m.digest
    BY <2>9, <2>10
  <2>14. QED
    BY <2>2, <2>3, <2>7, <2>11, <2>12, <2>13 DEF Merged
<1>4. CASE Return
  BY <1>4, MergedKept DEF Return, Running
<1>5. CASE Replay
  BY <1>5 DEF Replay, Merged
<1>6. CASE SelectCandidate
  <2>1. frames # << >> /\ UNCHANGED <<locks, decisions>>
    BY <1>6, ProbeTypes DEF SelectCandidate, Reading, IInv
  <2>2. QED
    BY <2>1, MergedKept
<1>7. ASSUME NEW i \in Import, SkipOpen(i) \/ LinkSelected(i)
      PROVE  Merged'
  <2>1. frames # << >> /\ UNCHANGED <<locks, decisions>>
    BY <1>7, CurrentIsLeast DEF SkipOpen, LinkSelected, Reuse
  <2>2. QED
    BY <2>1, MergedKept
<1>8. ASSUME NEW i \in Import, Refuses(i)
      PROVE  Merged'
  BY <1>8, Refusal, MergedKept
<1>9. QED
  BY <1>1, <1>2, <1>3, <1>4, <1>5, <1>6, <1>7, <1>8, StepKinds

(* What the resolution selects it selects once.                            *)
LEMMA AgreesBefore ==
    ASSUME selected \in [Package -> {None} \cup Choice], NEW p \in Package, selected[p] = None,
           NEW c, selected' = [selected EXCEPT ![p] = c], NEW D, Agrees(D, selected')
    PROVE  Agrees(D, selected)
<1>1. ASSUME NEW q \in Package, selected[q] # None
      PROVE  D[q] = selected[q].entry.digest
  <2>1. selected'[q] = selected[q]
    BY <1>1
  <2>2. QED
    BY <1>1, <2>1 DEF Agrees
<1>2. QED
  BY <1>1 DEF Agrees
(* A step of the walk, or none, keeps the resolution on its course; where  *)
(* it was off course it remains so.                                        *)
LEMMA CourseKept ==
    ASSUME TypeOK', OnCourse, OffCourse, UNCHANGED <<world, locks, decisions>>,
           frames # << >> \/ frames' = << >>,
           \A D \in Digests : Agrees(D, selected') => Agrees(D, selected),
           \A D \in Digests :
               frames' # << >> /\ decisions = << >> /\ Agrees(D, selected')
                   => Underway' = Underway \/ Turn(catalog, D, Underway, Underway')
    PROVE  OnCourse' /\ OffCourse'
<1>1. UNCHANGED <<catalog, root, provided, lockRefs, decisions>>
  BY DEF world, locks
<1>2. ASSUME frames' # << >>, decisions = << >>, NEW D \in Digests, Agrees(D, selected')
      PROVE  ComesTo(catalog, root, D, Underway')
  <2>1. ComesTo(catalog, root, D, Underway)
    BY <1>2 DEF OnCourse
  <2>2. Underway' \in Walk
    BY <1>2 DEF TypeOK, Underway, Walk
  <2>3. Underway' = Underway \/ Turn(catalog, D, Underway, Underway')
    BY <1>2
  <2>4. QED
    BY <2>1, <2>2, <2>3, Continues
<1>3. OnCourse'
  BY <1>1, <1>2 DEF OnCourse
<1>4. Compatible' <=> Compatible
  BY <1>1 DEF Compatible
<1>5. ASSUME decisions # << >>, Compatible, NEW D \in Digests, Agrees(D, selected'),
             Heeds(D, lockRefs)
      PROVE  StopsShort(catalog, root, D)
  <2>1. Agrees(D, selected)
    BY <1>5
  <2>2. QED
    BY <1>5, <2>1 DEF OffCourse
<1>6. OffCourse'
  BY <1>1, <1>4, <1>5 DEF OffCourse
<1>7. QED
  BY <1>3, <1>6

LEMMA CourseStep ==
    ASSUME RInv, [Next]_vars, UNCHANGED world, rewrites = 0, TypeOK'
    PROVE  OnCourse' /\ OffCourse'
<1>1. IInv /\ TypeOK /\ Merged /\ OnCourse /\ OffCourse /\ Tried
  BY DEF RInv, IInv
<1>2. CASE UNCHANGED <<locks, frames, graph, decisions, first>>
  BY <1>1, <1>2, CourseKept DEF graph, Underway
<1>3. CASE Start
  <2>1. /\ frames = << >> /\ decisions = << >> /\ decisions' = decisions
        /\ visited' = {} /\ edges' = {}
    BY <1>1, <1>3 DEF Start, IInv, StackOK, graph
  <2>2. frames' # << >> => Underway' = Beginning(root)
    BY <1>3, <2>1 DEF Start, Underway, Beginning
  <2>3. UNCHANGED <<catalog, root>> /\ root \in Roots
    BY <1>1 DEF world, TypeOK
  <2>4. QED
    BY <2>1, <2>2, <2>3, Begins DEF OnCourse, OffCourse
<1>4. CASE ApplyLock
  <2>1. PICK l \in unapplied : MergeLock(l) /\ frames # << >>
    BY <1>4 DEF ApplyLock, Running
  <2>2. UNCHANGED <<catalog, root, provided, frames, selected, visited, edges>>
    BY <1>4 DEF ApplyLock, graph, world
  <2>3. Compatible => decisions = << >>
    BY <1>1, <2>1 DEF Merged
  <2>4. Compatible => decisions' = << >>
    BY <1>1, <2>1, <2>3, MergeAgrees DEF MergeLock
  <2>5. Compatible' <=> Compatible
    BY <2>2 DEF Compatible
  <2>6. decisions' = << >> => decisions = << >>
    <3>1. decisions' = decisions \/ \E c : decisions' = Append(decisions, c)
      BY <2>1 DEF MergeLock
    <3>2. decisions \in Seq(Claim)
      BY <1>1 DEF TypeOK
    <3>3. QED
      BY <3>1, <3>2
  <2>7. OnCourse'
    BY <1>1, <2>2, <2>6 DEF OnCourse, Underway
  <2>8. OffCourse'
    BY <2>4, <2>5 DEF OffCourse
  <2>9. QED
    BY <2>7, <2>8
<1>5. CASE Return
  <2>1. UNCHANGED <<world, locks, decisions, selected>> /\ frames # << >>
    BY <1>5 DEF Return, Running
  <2>2. \A D \in Digests : Turn(catalog, D, Underway, Underway')
    BY <1>1, <1>5, ReturnTurns
  <2>3. QED
    BY <1>1, <2>1, <2>2, CourseKept
<1>6. CASE Replay
  BY <1>6 DEF Replay, OnCourse, OffCourse
<1>7. CASE SelectCandidate
  <2>1. UNCHANGED <<world, locks, decisions>>
    BY <1>7 DEF SelectCandidate
  <2>2. /\ frames # << >> /\ probe.imp \in Import /\ probe.imp.pkg \in Package
        /\ selected[probe.imp.pkg] = None
    BY <1>1, <1>7, ProbeTypes, ImportTypes DEF SelectCandidate, Reading, ProbeOK, IInv
  <2>3. \A D \in Digests : Agrees(D, selected') => Agrees(D, selected)
    BY <1>1, <1>7, <2>2, AgreesBefore DEF SelectCandidate, TypeOK, Choice
  <2>4. \A D \in Digests : Agrees(D, selected') => Turn(catalog, D, Underway, Underway')
    BY <1>1, <1>7, SelectTurns
  <2>5. QED
    BY <1>1, <2>1, <2>2, <2>3, <2>4, CourseKept
<1>8. ASSUME NEW i \in Import, SkipOpen(i)
      PROVE  OnCourse' /\ OffCourse'
  <2>1. UNCHANGED <<world, locks, decisions, selected>> /\ frames # << >>
    BY <1>8, CurrentIsLeast DEF SkipOpen, graph
  <2>2. \A D \in Digests : Turn(catalog, D, Underway, Underway')
    BY <1>1, <1>8, SkipTurns
  <2>3. QED
    BY <1>1, <2>1, <2>2, CourseKept
<1>9. ASSUME NEW i \in Import, LinkSelected(i)
      PROVE  OnCourse' /\ OffCourse'
  <2>1. UNCHANGED <<world, locks, decisions, selected>> /\ frames # << >>
    BY <1>9, CurrentIsLeast DEF LinkSelected, Reuse
  <2>2. \A D \in Digests : Agrees(D, selected) => Turn(catalog, D, Underway, Underway')
    BY <1>1, <1>9, LinkTurns
  <2>3. QED
    BY <1>1, <2>1, <2>2, CourseKept
<1>10. ASSUME NEW i \in Import, Refuses(i)
       PROVE  OnCourse' /\ OffCourse'
  <2>1. /\ unapplied = {} /\ frames # << >> /\ decisions' # << >>
        /\ UNCHANGED <<catalog, root, provided, lockRefs, selected>>
    BY <1>1, <1>10, Refusal DEF world, locks, graph
  <2>2. Compatible' <=> Compatible
    BY <2>1 DEF Compatible
  <2>3. ASSUME NEW D \in Digests, Compatible, Agrees(D, selected), Heeds(D, lockRefs)
        PROVE  StopsShort(catalog, root, D)
    <3>1. CASE decisions = << >>
      <4>1. ComesTo(catalog, root, D, Underway)
        BY <1>1, <2>1, <2>3, <3>1 DEF OnCourse
      <4>2. Halts(catalog, D, Underway)
        BY <1>1, <1>10, <2>3, RefusedHalts
      <4>3. Underway \in Walk /\ Upper(Underway).todo # {}
        <5>1. Top.todo # {}
          BY <1>1, <1>10, CurrentIsLeast, ProbeTypes
          DEF Refuses, RefuseSelected, RefuteNoVersion, RefuteLock, Reuse, Fresh,
              ExhaustCandidates, ProbeOK, IInv
        <5>2. QED
          BY <1>1, <2>1, <5>1, UnderwayIsWalk
      <4>4. QED
        BY <4>1, <4>2, <4>3 DEF StopsShort
    <3>2. CASE decisions # << >>
      BY <1>1, <2>3, <3>2 DEF OffCourse
    <3>3. QED
      BY <3>1, <3>2
  <2>4. OnCourse'
    BY <2>1 DEF OnCourse
  <2>5. OffCourse'
    BY <2>1, <2>2, <2>3 DEF OffCourse
  <2>6. QED
    BY <2>4, <2>5
<1>11. QED
  BY <1>1, <1>2, <1>3, <1>4, <1>5, <1>6, <1>7, <1>8, <1>9, <1>10, StepKinds

(* The probe keeps its import, and what it puts aside is not acceptable.   *)
LEMMA TriedStep ==
    ASSUME RInv, [Next]_vars, rewrites = 0, rewrites' = 0
    PROVE  Tried'
<1>1. IInv /\ Tried
  BY DEF RInv
<1>2. CASE probe' = None
  BY <1>2 DEF Tried
<1>3. CASE UNCHANGED vars
  BY <1>1, <1>3, ProbeRests DEF vars, resting, graph, Tried
<1>4. CASE Rewrite
  BY <1>4 DEF Rewrite, IInv, TypeOK
<1>5. CASE Start \/ ApplyLock
  <2>1. probe' = probe /\ (frames = << >> \/ unapplied # {})
    BY <1>5 DEF Start, ApplyLock
  <2>2. probe = None
    BY <1>1, <2>1 DEF IInv, ProbeOK, Running
  <2>3. QED
    BY <1>2, <2>1, <2>2
<1>6. ASSUME NEW i \in Pending, BeginProbe(i)
      PROVE  Tried'
  <2>1. UNCHANGED resting
    BY <1>6 DEF BeginProbe, resting, graph
  <2>2. Least(i, Top.todo)
    BY <1>6, CurrentIsLeast DEF BeginProbe, Fresh
  <2>3. probe'.imp = i /\ probe'.untried = LockedCandidates(i)
    BY <1>6 DEF BeginProbe
  <2>4. QED
    BY <2>1, <2>2, <2>3, ProbeRests DEF Tried
<1>7. ASSUME NEW e, NEW c, probe \in Probe, probe # None,
             probe' = Refuse(e, c), ~ Acceptable(e, probe.imp), UNCHANGED resting
      PROVE  Tried'
  <2>1. probe'.imp = probe.imp /\ probe'.untried = probe.untried \ {e}
    BY <1>7 DEF Refuse, Probe
  <2>2. QED
    BY <1>1, <1>7, <2>1, ProbeRests DEF Tried
<1>8. CASE ReadUnavailable
  <2>1. probe \in Probe /\ probe # None
    BY <1>1, <1>8, ProbeTypes DEF IInv, ReadUnavailable, Inspecting
  <2>2. PICK e \in NextCandidates :
            /\ files[e.path] = None
            /\ probe' = Refuse(e, unknownClaim("PACKAGE_SOURCE_UNAVAILABLE", e.name))
    BY <1>8 DEF ReadUnavailable
  <2>3. ~ Acceptable(e, probe.imp)
    BY <1>1, <2>2 DEF IInv, DiskOK, Acceptable
  <2>4. UNCHANGED resting
    BY <1>8 DEF ReadUnavailable, resting, graph
  <2>5. QED
    BY <1>7, <2>1, <2>2, <2>3, <2>4
<1>9. CASE RefuseCandidate
  <2>1. probe \in Probe /\ probe # None /\ probe.reading # None /\ Objection # None
        /\ probe' = Refuse(probe.reading.entry, Objection)
    BY <1>1, <1>9, ProbeTypes DEF IInv, RefuseCandidate, Reading
  <2>2. ~ Acceptable(probe.reading.entry, probe.imp)
    BY <1>1, <2>1 DEF IInv, ProbeOK, DiskOK, Objection, Bytes2, Acceptable
  <2>3. UNCHANGED resting
    BY <1>9 DEF RefuseCandidate, resting, graph
  <2>4. QED
    BY <1>7, <2>1, <2>2, <2>3
<1>10. CASE ReadCandidate
  <2>1. probe \in Probe /\ probe # None
    BY <1>1, <1>10, ProbeTypes DEF IInv, ReadCandidate, Inspecting
  <2>2. PICK e \in NextCandidates :
            probe' = [probe EXCEPT !.reading = [entry |-> e, data |-> files[e.path]]]
    BY <1>10 DEF ReadCandidate
  <2>3. probe'.imp = probe.imp /\ probe'.untried = probe.untried
    BY <2>1, <2>2 DEF Probe
  <2>4. UNCHANGED resting
    BY <1>10 DEF ReadCandidate, resting, graph
  <2>5. QED
    BY <1>1, <2>1, <2>3, <2>4, ProbeRests DEF Tried
<1>11. CASE SelectCandidate \/ ExhaustCandidates \/ Replay
  BY <1>2, <1>11 DEF SelectCandidate, ExhaustCandidates, Replay
<1>12. CASE Return \/ Finish
  BY <1>2, <1>12 DEF Return, Finish
<1>13. ASSUME NEW i \in Pending,
              SkipOpen(i) \/ RefuseSelected(i) \/ LinkSelected(i) \/ RefuteNoVersion(i)
              \/ RefuteLock(i)
       PROVE  Tried'
  <2>1. probe = None /\ probe' = probe
    BY <1>13, CurrentIsLeast
    DEF SkipOpen, RefuseSelected, LinkSelected, RefuteNoVersion, RefuteLock, Reuse, Fresh
  <2>2. QED
    BY <1>2, <2>1
<1>14. QED
  BY <1>3, <1>4, <1>5, <1>6, <1>8, <1>9, <1>10, <1>11, <1>12, <1>13 DEF Next, Step
(* The final claim is CLOSED if there is none, and never an error.         *)
LEMMA ClaimsApart == closedClaim \notin Claim /\ errorClaim \notin {closedClaim} \cup Claim
<1>1. \A c \in Claim : c.state \in {Refuted, Unknown}
  BY DEF Claim, ClaimSet
<1>2. closedClaim.state = Closed /\ errorClaim.state = "ERROR"
  BY DEF closedClaim, errorClaim
<1>3. QED
  BY <1>1, <1>2 DEF Refuted, Unknown, Closed

LEMMA FinalClaims ==
    ASSUME IInv, outcome \notin {None, errorClaim}
    PROVE  /\ outcome = closedClaim <=> decisions = << >>
           /\ frames # << >> /\ unapplied = {}
           /\ Underway = [frames  |-> << [pkg |-> Root, todo |-> {}] >>,
                           visited |-> Selected, edges |-> edges]
<1>1. /\ finalClaim(ClaimOrder, decisions, outcome) /\ frames # << >> /\ unapplied = {}
      /\ Len(frames) = 1 /\ frames[1].todo = {} /\ frames[1].pkg = Root
      /\ frames \in Seq(Frame) /\ decisions \in Seq(Claim)
  BY DEF IInv, EndOK, StackOK, TypeOK
<1>2. outcome = closedClaim <=> decisions = << >>
  BY <1>1, ClaimsApart DEF finalClaim
<1>3. Open = {}
  BY <1>1 DEF Open
<1>4. Selected = visited
  BY <1>3 DEF IInv, WalkedOnce
<1>5. frames[1] = [pkg |-> Root, todo |-> {}]
  <2>1. frames[1] \in Frame
    BY <1>1
  <2>2. QED
    BY <1>1, <2>1 DEF Frame
<1>6. frames = << [pkg |-> Root, todo |-> {}] >>
  BY <1>1, <1>5
<1>7. QED
  BY <1>1, <1>2, <1>4, <1>6 DEF Underway

(* What a resolution leaves for its replay.                                *)
LEMMA RecordedReplay ==
    ASSUME RInv, Replay, rewrites = 0
    PROVE  Recorded'
<1>1. /\ IInv /\ Merged /\ OnCourse /\ OffCourse /\ TypeOK
      /\ outcome \notin {None, errorClaim} /\ outcome' = None
      /\ first' = [provided |-> provided, outcome |-> outcome,
                   selected |-> selected, edges |-> edges]
      /\ provided' = GeneratedLock /\ UNCHANGED <<catalog, root>>
  BY DEF RInv, IInv, Replay, world
<1>2. /\ first'.provided = provided /\ first'.outcome = outcome
      /\ first'.selected = selected /\ first'.edges = edges
  BY <1>1
<1>3. Taken(first') = Selected
  BY <1>2 DEF Taken, Selected
<1>4. provided' = LockOf(first') /\ provided' \in Lockfile
  BY <1>1, <1>2, <1>3, GeneratedLockType DEF GeneratedLock, LockOf, IInv
<1>5. root.imports # {} /\ outcome' # errorClaim
  BY <1>1, FinalClaims, WorldAssumption DEF Merged
<1>6. \A p \in Taken(first') : root.locks[p] \in {None, first'.selected[p].entry.digest}
  <2>1. \A p \in Selected : p \in Package /\ lockRefs[p] \in {None, selected[p].entry.digest}
    BY <1>1 DEF IInv, LocksOK, Selected
  <2>2. \A p \in Package : root.locks[p] # None => lockRefs[p] = root.locks[p]
    BY <1>1, FinalClaims DEF IInv, LocksOK
  <2>3. QED
    BY <1>2, <1>3, <2>1, <2>2
<1>7. ASSUME outcome = closedClaim, NEW D \in Digests, Agrees(D, selected)
      PROVE  ComesTo(catalog, root, D, EndOf(first'))
  <2>1. Underway = EndOf(first')
    BY <1>1, <1>2, <1>3, FinalClaims DEF EndOf
  <2>2. QED
    BY <1>1, <1>7, <2>1, FinalClaims DEF OnCourse
<1>8. ASSUME outcome # closedClaim, provided = None, NEW D \in Digests, Agrees(D, selected),
             Heeds(D, root.locks)
      PROVE  StopsShort(catalog, root, D)
  <2>1. decisions # << >> /\ Compatible
    BY <1>1, <1>8, FinalClaims DEF Compatible
  <2>2. Heeds(D, lockRefs)
    BY <1>1, <1>8, FinalClaims DEF Heeds, Merged
  <2>3. QED
    BY <1>1, <1>8, <2>1, <2>2 DEF OffCourse
<1>9. QED
  BY <1>1, <1>2, <1>4, <1>5, <1>6, <1>7, <1>8 DEF Recorded

LEMMA RecordedStep ==
    ASSUME RInv, [Next]_vars, UNCHANGED world, rewrites = 0
    PROVE  Recorded'
<1>1. IInv /\ Recorded
  BY DEF RInv
<1>2. CASE Replay
  BY <1>2, RecordedReplay
<1>3. CASE first = None /\ first' = None
  BY <1>3 DEF Recorded
<1>4. ASSUME first # None, UNCHANGED <<first, provided>>, outcome' # errorClaim
      PROVE  Recorded'
  BY <1>1, <1>4 DEF Recorded, world
<1>5. ASSUME ~ Replay
      PROVE  /\ UNCHANGED <<first, provided>>
             /\ first # None => outcome' # errorClaim
  <2>1. CASE Start
    <3>1. first # None => ValidStart
      BY <1>1 DEF Recorded, LockOf, ValidStart
    <3>2. QED
      BY <2>1, <3>1, WorldAssumption DEF Start
  <2>2. CASE Finish
    <3>1. outcome' \in {closedClaim} \cup Claim
      BY <1>1, <2>2 DEF Finish, IInv, TypeOK
    <3>2. QED
      BY <2>2, <3>1, ClaimsApart DEF Finish, locks
  <2>3. CASE ~ Start /\ ~ Finish
    <3>1. UNCHANGED <<first, provided, outcome>>
      <4>1. CASE UNCHANGED vars \/ Rewrite
        BY <4>1 DEF vars, Rewrite, locks
      <4>2. CASE ApplyLock \/ Return \/ SelectCandidate \/ ExhaustCandidates
        BY <4>2 DEF ApplyLock, Return, SelectCandidate, ExhaustCandidates, locks
      <4>3. CASE ReadUnavailable \/ ReadCandidate \/ RefuseCandidate
        BY <4>3 DEF ReadUnavailable, ReadCandidate, RefuseCandidate, locks
      <4>4. CASE \E i \in Pending : SkipOpen(i) \/ RefuseSelected(i) \/ LinkSelected(i)
        BY <4>4 DEF SkipOpen, RefuseSelected, LinkSelected, locks
      <4>5. CASE \E i \in Pending : RefuteNoVersion(i) \/ RefuteLock(i) \/ BeginProbe(i)
        BY <4>5 DEF RefuteNoVersion, RefuteLock, BeginProbe, locks
      <4>6. QED
        BY <1>5, <2>3, <4>1, <4>2, <4>3, <4>4, <4>5 DEF Next, Step
    <3>2. QED
      BY <1>1, <3>1 DEF Recorded
  <2>4. QED
    BY <2>1, <2>2, <2>3
<1>6. QED
  BY <1>2, <1>3, <1>4, <1>5

-------------------------------------------------------------------------------
(* The theorems.                                                           *)

LEMMA ReplayInitially == Init => RInv
<1> SUFFICES ASSUME Init PROVE RInv
  OBVIOUS
<1>1. IInv
  BY Initially
<1>2. frames = << >> /\ decisions = << >> /\ unapplied = {} /\ probe = None /\ first = None
  BY DEF Init
<1>3. QED
  BY <1>1, <1>2 DEF RInv, Merged, OnCourse, OffCourse, Tried, Recorded

LEMMA ReplayInductive == RInv /\ [Next]_vars => RInv'
<1> SUFFICES ASSUME RInv, [Next]_vars PROVE RInv'
  OBVIOUS
<1>1. IInv /\ Merged
  BY DEF RInv
<1>2. UNCHANGED world /\ IInv' /\ (rewrites' = 0 => rewrites = 0)
  BY <1>1, WalkSteps, DiskTyped, Inductive DEF IInv
<1>3. Merged'
  BY <1>1, <1>2, MergedStep
<1>4. rewrites' = 0 => OnCourse' /\ OffCourse' /\ Tried' /\ Recorded'
  BY <1>2, CourseStep, TriedStep, RecordedStep DEF IInv
<1>5. QED
  BY <1>2, <1>3, <1>4 DEF RInv

(* A resolution follows its walk, in whatever order locks are merged and   *)
(* however candidates are tried; so does its replay.                       *)
THEOREM WalkInvariance == Spec => []RInv
  BY ReplayInitially, ReplayInductive, PTL DEF Spec

(* Where a replay ends, its digests are those of both resolutions.         *)
LEMMA SameDigests ==
    ASSUME RInv, rewrites = 0, first # None, outcome \notin {None, errorClaim}
    PROVE  \E D \in Digests : /\ Agrees(D, selected) /\ Agrees(D, first.selected)
                              /\ Heeds(D, lockRefs) /\ Heeds(D, root.locks)
<1> DEFINE D == [p \in Package |-> IF selected[p] = None THEN lockRefs[p]
                                   ELSE selected[p].entry.digest]
<1>1. IInv /\ Merged /\ Recorded /\ TypeOK /\ frames # << >> /\ unapplied = {}
  BY FinalClaims DEF RInv, IInv
<1>2. /\ provided # None /\ provided \in Lockfile
      /\ provided.packages = {[name |-> p, digest |-> first.selected[p].entry.digest] :
                                 p \in Taken(first)}
  BY <1>1, WorldAssumption DEF Recorded, LockOf
<1>3. Compatible
  <2>1. ASSUME NEW l \in provided.packages
        PROVE  /\ l.name \in Taken(first) /\ l.digest = first.selected[l.name].entry.digest
    BY <1>2
  <2>2. QED
    BY <1>1, <2>1 DEF Compatible, Recorded
<1>4. \A p \in Taken(first) :
          /\ p \in Package /\ lockRefs[p] = first.selected[p].entry.digest
          /\ lockRefs[p] # None
  <2>1. SUFFICES ASSUME NEW p \in Taken(first)
                 PROVE  /\ p \in Package /\ lockRefs[p] = first.selected[p].entry.digest
                        /\ lockRefs[p] # None
    OBVIOUS
  <2> DEFINE l == [name |-> p, digest |-> first.selected[p].entry.digest]
  <2>2. l \in provided.packages
    BY <1>2
  <2>3. l.name = p /\ l.digest = first.selected[p].entry.digest
    OBVIOUS
  <2> HIDE DEF l
  <2>4. l.digest \in Bytes
    BY <1>2, <2>2 DEF Lockfile, LockEntry
  <2>5. lockRefs[l.name] = l.digest
    BY <1>1, <1>2, <1>3, <2>2 DEF Merged
  <2>6. QED
    BY <2>3, <2>4, <2>5, WorldAssumption DEF Taken
<1>5. \A p \in Package : selected[p] # None =>
          /\ selected[p].entry.digest \in Bytes \cup {None}
          /\ lockRefs[p] \in {None, selected[p].entry.digest}
  <2>1. ASSUME NEW p \in Package, selected[p] # None
        PROVE  selected[p].entry.digest \in Bytes \cup {None}
    <3>1. selected[p].entry \in Entry
      BY <1>1, <2>1 DEF TypeOK
    <3>2. QED
      BY <3>1, WorldAssumption DEF IsEntry
  <2>2. QED
    BY <1>1, <2>1 DEF IInv, LocksOK, Selected
<1>6. \A p \in Package : D[p] = IF selected[p] = None THEN lockRefs[p]
                                 ELSE selected[p].entry.digest
  OBVIOUS
<1>7. D \in Digests
  BY <1>1, <1>5 DEF TypeOK, Digests
<1> HIDE DEF D
<1>8. Agrees(D, selected) /\ Heeds(D, lockRefs)
  BY <1>5, <1>6 DEF Agrees, Heeds
<1>9. Agrees(D, first.selected)
  BY <1>4, <1>8 DEF Agrees, Heeds, Taken
<1>10. Heeds(D, root.locks)
  BY <1>1, <1>8 DEF Heeds, IInv, LocksOK
<1>11. QED
  BY <1>7, <1>8, <1>9, <1>10

LEMMA EndHalts ==
    ASSUME NEW w, w.frames = << [pkg |-> Root, todo |-> {}] >>
    PROVE  Upper(w).todo = {} /\ \A C, D : Halts(C, D, w)
<1>1. Len(w.frames) = 1 /\ Upper(w).todo = {}
  BY DEF Upper
<1>2. QED
  BY <1>1 DEF Halts, Turn, Leaves

LEMMA ReplaysFaithfully == RInv => ReplayFaithful
<1> SUFFICES ASSUME RInv, first # None, outcome # None, rewrites = 0
             PROVE  /\ outcome = closedClaim /\ first.provided = None
                           => first.outcome = closedClaim
                    /\ first.outcome = closedClaim =>
                          /\ outcome = closedClaim
                          /\ edges = first.edges
                          /\ \A p \in Package :
                                DigestIn(selected, p) = DigestIn(first.selected, p)
  BY DEF ReplayFaithful
<1>1. /\ IInv /\ OnCourse /\ OffCourse /\ Recorded /\ root \in Roots
      /\ outcome \notin {None, errorClaim}
  BY DEF RInv, IInv, TypeOK, Recorded
<1>2. PICK D \in Digests : /\ Agrees(D, selected) /\ Agrees(D, first.selected)
                           /\ Heeds(D, lockRefs) /\ Heeds(D, root.locks)
  BY <1>1, SameDigests
<1>3. Compatible
  <2>1. \A l \in provided.packages :
            l.name \in Taken(first) /\ l.digest = first.selected[l.name].entry.digest
    BY <1>1 DEF Recorded, LockOf
  <2>2. QED
    BY <1>1, <2>1 DEF Compatible, Recorded
<1>4. /\ outcome = closedClaim <=> decisions = << >>
      /\ frames # << >>
      /\ Underway = [frames  |-> << [pkg |-> Root, todo |-> {}] >>,
                      visited |-> Selected, edges |-> edges]
  BY <1>1, FinalClaims
<1>5. Halts(catalog, D, Underway) /\ Upper(Underway).todo = {}
  BY <1>4, EndHalts
<1>6. Halts(catalog, D, EndOf(first)) /\ Upper(EndOf(first)).todo = {}
  BY EndHalts DEF EndOf
<1>7. outcome = closedClaim => ComesTo(catalog, root, D, Underway)
  BY <1>1, <1>2, <1>4 DEF OnCourse
<1>8. outcome # closedClaim => StopsShort(catalog, root, D)
  BY <1>1, <1>2, <1>3, <1>4 DEF OffCourse
<1>9. ASSUME outcome = closedClaim, first.provided = None, first.outcome # closedClaim
      PROVE  FALSE
  <2>1. StopsShort(catalog, root, D)
    BY <1>1, <1>2, <1>9 DEF Recorded
  <2>2. QED
    BY <1>1, <1>5, <1>7, <1>9, <2>1, OneHalt DEF StopsShort
<1>10. ASSUME first.outcome = closedClaim
       PROVE  /\ outcome = closedClaim /\ edges = first.edges
              /\ \A p \in Package : DigestIn(selected, p) = DigestIn(first.selected, p)
  <2>1. ComesTo(catalog, root, D, EndOf(first))
    BY <1>1, <1>2, <1>10 DEF Recorded
  <2>2. outcome = closedClaim
    BY <1>1, <1>6, <1>8, <2>1, OneHalt DEF StopsShort
  <2>3. Underway = EndOf(first)
    BY <1>1, <1>5, <1>6, <1>7, <2>1, <2>2, OneHalt
  <2>4. Selected = Taken(first) /\ edges = first.edges
    BY <1>4, <2>3 DEF EndOf
  <2>5. QED
    BY <1>2, <2>2, <2>4 DEF Selected, Taken, Agrees, DigestIn
<1>11. QED
  BY <1>9, <1>10

(* A CLOSED resolution replays to the same packages and edges with the     *)
(* lockfile it wrote, and one that was not CLOSED, and had no lockfile, is *)
(* not CLOSED in its replay.                                               *)
THEOREM Faithfulness == Spec => []ReplayFaithful
  BY WalkInvariance, ReplaysFaithfully, PTL
===============================================================================
