--------------------------- MODULE Conformance_proofs ---------------------------
(***************************************************************************)
(* Of the conformance commands: every safety property of Conformance, from *)
(* one inductive invariant.  Its parts are about the scan of the contract  *)
(* (ScanOK), the load of the catalog (LoadOK), where the command is        *)
(* (Control), the case at hand and those observed (CaseOK), the reports    *)
(* (ReportOK) and the evidence directories (EvidenceOK).                   *)
(***************************************************************************)
EXTENDS Conformance, SourceParser_proofs

(* The load: between its steps the files are as they were read, unless     *)
(* somebody wrote one.                                                     *)
LoadTyped ==
    /\ catalogFile \in Contents \cup {NoFile} /\ lockFile \in LockFiles \cup {NoFile}
    /\ others \in 0 .. MaxWrites /\ writes \in 0 .. others
    /\ catalog \in Decoded \cup {NoFile} /\ data \in Contents \cup {NoFile}
    /\ loading \in {"idle", "decode", "reread", "lock", "loaded", "refused"}
LoadVouched ==
    /\ raced \in BOOLEAN
    /\ ~ raced =>
          /\ loading = "reread" => catalog = catalogFile
          /\ loading \in {"lock", "loaded"} => catalog = data
    /\ loading = "loaded" => data = lockFile
LoadOK == LoadTyped /\ LoadVouched

(* Where the command is.                                                   *)
Running == {"cases", "resolved", "evidence", "generated",
            "summary", "summarising", "replay", "replaying"}
Control ==
    /\ version \in {"v1", "v2"} /\ commands \in 0 .. MaxCommands
    /\ phase \in {"idle", "contract", "catalog", "done", "failed"} \cup Running
    /\ cases # None => /\ IsSeq(cases)
                       /\ \A n \in DOMAIN cases : cases[n].id \in DOMAIN Directory
    /\ phase \in {"catalog"} \cup Running => parsing = "parsed"
    /\ phase \in Running => /\ cases # None /\ ValidIndex(source, version, cases)
                            /\ loading = "loaded"
    /\ phase \in {"resolved", "evidence"} => version = "v2"
    /\ phase \in {"replay", "replaying"} => version = "v1"

(* What a case of the index and its observation have in common.            *)
Matches(o, c, src, v) ==
    /\ IsObservation(o) /\ o.id = c.id /\ o.state = c.expected
    /\ IF v = "v1" THEN o.cell = None
       ELSE /\ o.cell \in Range(CellBindings(src))
            /\ Maps(c, o.cell) /\ o.cell.case_id = c.id

(* The case at hand, and those observed, in the order of the index.        *)
Resolving ==
    /\ Len(observations) < Len(cases) /\ Valid(source, version)
    /\ Matches(resolved, Spec1, source, version)
Caught == {"cases", "resolved", "evidence", "generated"}
CaseOK ==
    /\ IsSeq(observations)
    /\ \A n \in DOMAIN observations : IsObservation(observations[n])
    /\ observations # << >> => loading = "loaded"
    /\ phase \in {"idle", "contract", "catalog"} => observations = << >> /\ resolved = None
    /\ phase = "cases" => resolved = None
    /\ phase \in {"resolved", "evidence", "generated"} => Resolving
    /\ resolved # None => Resolving
    /\ phase \in Caught =>
          /\ Len(observations) <= Len(cases)
          /\ observations # << >> => Valid(source, version)
          /\ \A n \in DOMAIN observations :
                Matches(observations[n], cases[n], source, version)

(* What is sorted and counted is complete, and stays so: a report r of the *)
(* cases cs of version v and the lines of a text t.                        *)
Indexed(r, cs, v) ==
    /\ Len(r) = Denominator(v)
    /\ {<<o.id, o.state>> : o \in Range(r)} = {<<c.id, c.expected>> : c \in Range(cs)}
    /\ \A j, k \in DOMAIN r : j < k => Rank[r[j].id] <= Rank[r[k].id]
    /\ \A s \in Status :
          Cardinality({n \in DOMAIN r : r[n].state = s})
              = IF v = "v1" THEN Shares[s] ELSE Third
CellsOf(t) == {k \in DOMAIN t : t[k].word = "cell"}
Celled(r, t) ==
    /\ Len(r) = Cardinality(CellsOf(t))
    /\ \A k \in CellsOf(t) : Cardinality({n \in DOMAIN r : Carries(r[n], t[k])}) = 1
Complete(r, cs, v, t) ==
    /\ \A n \in DOMAIN r : IsObservation(r[n])
    /\ Indexed(r, cs, v)
    /\ v = "v2" => Celled(r, t)
ReportOK ==
    /\ phase \in {"summary", "summarising", "replay", "replaying"}
          => Complete(observations, cases, version, text)
    /\ phase \in {"replay", "replaying"} => summary = observations
    /\ summary \in {None, Torn} \/ Complete(summary, cases, version, text)
    /\ IsReport(replay)
    /\ phase = "done" /\ version = "v1" => replay = summary

(* The evidence e of what was observed is where it belongs.                *)
Kept(o, e) == SafePath(o.id) /\ e[Directory[o.id]] = o.artifacts
InPlace(e) ==
    \A d \in CaseDirectory : e[d] # None => \E id \in DOMAIN Directory : d = << id >>
EvidenceOK ==
    /\ evidence \in [CaseDirectory -> (UNION Range(Artifacts)) \cup {None, Torn}]
    /\ InPlace(evidence)
    /\ phase = "evidence" => SafePath(resolved.id)
    /\ version = "v2" =>
          /\ phase = "generated" => Kept(resolved, evidence)
          /\ phase \in Caught \cup {"summary", "summarising"} =>
                \A n \in DOMAIN observations : Kept(observations[n], evidence)
          /\ phase = "done" =>
                \A n \in DOMAIN summary : Kept(summary[n], evidence)

IInv == ScanOK /\ LoadOK /\ Control /\ CaseOK /\ ReportOK /\ EvidenceOK
-------------------------------------------------------------------------------
(* Next, with the actions that leave the parser or the loader alone.       *)
Elsewhere ==
    \/ ResolveCase \/ OpenEvidence \/ CloseEvidence \/ Observe
    \/ CountCases \/ OpenSummary \/ WriteSummary \/ OpenReplay \/ WriteReplay \/ Stop

LEMMA NextSplit ==
    ASSUME Next
    PROVE  \/ Begin \/ ParseContract \/ OpenCatalog \/ LoadCatalog \/ WriteMeanwhile
           \/ ReadIndex \/ Elsewhere
  BY DEF Next, Step, Elsewhere

LEMMA ElsewhereFrame ==
    ASSUME Elsewhere
    PROVE  UNCHANGED <<version, cases, commands, parser, loader, files>>
  BY DEF Elsewhere, ResolveCase, OpenEvidence, CloseEvidence, Observe, CountCases,
         OpenSummary, WriteSummary, OpenReplay, WriteReplay, Stop

LEMMA ScanNext ==
    ASSUME ScanOK, [Next]_vars PROVE ScanOK'
<1>1. CASE Begin
  BY <1>1, ScanOpen DEF Begin
<1>2. CASE ParseContract
  BY <1>2, ScanStep DEF ParseContract
<1>3. CASE OpenCatalog \/ LoadCatalog \/ WriteMeanwhile \/ ReadIndex
  BY <1>3, ScanKept DEF OpenCatalog, LoadCatalog, WriteMeanwhile, ReadIndex
<1>4. CASE Elsewhere
  BY <1>4, ElsewhereFrame, ScanKept
<1>5. CASE UNCHANGED vars
  BY <1>5, ScanKept DEF vars
<1> QED
  BY <1>1, <1>2, <1>3, <1>4, <1>5, NextSplit

LEMMA LoadKept ==
    ASSUME LoadOK, UNCHANGED <<loader, files>> PROVE LoadOK'
  BY DEF LoadOK, LoadTyped, LoadVouched, loader, files

LEMMA LoadNext ==
    ASSUME LoadOK, [Next]_vars PROVE LoadOK'
<1>1. CASE OpenCatalog
  <2>1. LoadTyped'
    BY <1>1 DEF OpenCatalog, BeginLoad, LoadOK, LoadTyped
  <2>2. LoadVouched'
    BY <1>1 DEF OpenCatalog, BeginLoad, LoadVouched
  <2> QED
    BY <2>1, <2>2 DEF LoadOK
<1>2. CASE LoadCatalog
  <2>1. CASE DecodeCatalog
    BY <2>1, CatalogAssumption DEF DecodeCatalog, LoadOK, LoadTyped, LoadVouched, files
  <2>2. CASE ReadAgain
    BY <2>2 DEF ReadAgain, LoadOK, LoadTyped, LoadVouched, files
  <2>3. CASE HoldAgainstLock
    BY <2>3 DEF HoldAgainstLock, DigestLocked, LoadOK, LoadTyped, LoadVouched, files
  <2> QED
    BY <1>2, <2>1, <2>2, <2>3 DEF LoadCatalog, LoadStep
<1>3. CASE WriteMeanwhile
  <2>1. /\ catalogFile' \in Contents \cup {NoFile} /\ lockFile' \in LockFiles \cup {NoFile}
        /\ writes' = writes + 1 /\ writes < others /\ others' = others
        /\ UNCHANGED <<catalog, data, loading>>
    BY <1>3 DEF WriteMeanwhile, Meanwhile, LoadOK, LoadTyped, loader
  <2>2. /\ raced' \in BOOLEAN /\ (raced => raced') /\ loading # "loaded"
        /\ catalogFile' = catalogFile \/ raced' \/ loading # "reread"
    <3>1. loading # "loaded" /\ raced \in BOOLEAN
      BY <1>3 DEF WriteMeanwhile, Meanwhile, LoadOK, LoadVouched
    <3>2. \/ raced' = (raced \/ loading = "reread")
          \/ catalogFile' = catalogFile /\ raced' = raced
      BY <1>3 DEF WriteMeanwhile, Meanwhile
    <3> QED
      BY <3>1, <3>2, Zenon
  <2>3. LoadTyped'
    BY <2>1, CatalogAssumption DEF LoadOK, LoadTyped
  <2>4. LoadVouched'
    BY <2>1, <2>2 DEF LoadOK, LoadVouched
  <2> QED
    BY <2>3, <2>4 DEF LoadOK
<1>4. CASE Begin \/ ParseContract \/ ReadIndex
  BY <1>4, LoadKept DEF Begin, ParseContract, ReadIndex
<1>5. CASE Elsewhere
  BY <1>5, ElsewhereFrame, LoadKept
<1>6. CASE UNCHANGED vars
  BY <1>6, LoadKept DEF vars
<1> QED
  BY <1>1, <1>2, <1>3, <1>4, <1>5, <1>6, NextSplit

(* Where the command goes from where it is.                                *)
LEMMA ElsewherePhase ==
    ASSUME Elsewhere, Control
    PROVE  /\ phase' \in {"done", "failed"} \cup Running
           /\ phase' \in Running => phase \in Running
           /\ phase' \in {"resolved", "evidence"} => version = "v2"
           /\ phase' \in {"replay", "replaying"} => version = "v1"
<1>1. CASE ResolveCase
  BY <1>1 DEF ResolveCase, MoreCases, Running, Control
<1>2. CASE OpenEvidence \/ CloseEvidence \/ Observe
  BY <1>2 DEF OpenEvidence, CloseEvidence, Observe, Running, Control
<1>3. CASE CountCases \/ OpenSummary \/ WriteSummary \/ OpenReplay \/ WriteReplay \/ Stop
  BY <1>3 DEF CountCases, OpenSummary, WriteSummary, OpenReplay, WriteReplay, Stop,
              Running, Control
<1> QED
  BY <1>1, <1>2, <1>3 DEF Elsewhere

LEMMA ControlNext ==
    ASSUME Control, [Next]_vars PROVE Control'
<1>0. phase \in {"idle", "contract", "catalog", "done", "failed"} \cup Running
  BY DEF Control
<1>1. CASE Begin
  <2>1. /\ phase' \in {"failed", "contract"} /\ commands' = commands - 1 /\ commands > 0
        /\ UNCHANGED <<version, cases>>
    BY <1>1 DEF Begin
  <2> QED
    BY <2>1, ConformanceAssumption DEF Control, Running
<1>2. CASE ParseContract
  <2>1. phase' \in {"failed", "contract"} /\ UNCHANGED <<version, cases, commands>>
    BY <1>2 DEF ParseContract
  <2> QED
    BY <2>1 DEF Control, Running
<1>3. CASE OpenCatalog
  <2>1. /\ phase' = "catalog" /\ parsing = "parsed"
        /\ UNCHANGED <<version, cases, commands, parsing>>
    BY <1>3 DEF OpenCatalog, parser
  <2> QED
    BY <2>1 DEF Control, Running
<1>4. CASE LoadCatalog \/ WriteMeanwhile
  <2>1. /\ phase = "catalog" /\ phase' \in {"catalog", "failed"}
        /\ UNCHANGED <<version, cases, commands, parsing>>
    BY <1>4 DEF LoadCatalog, WriteMeanwhile, parser
  <2> QED
    BY <2>1 DEF Control, Running
<1>5. CASE ReadIndex
  <2>1. /\ phase = "catalog" /\ phase' \in {"cases", "failed"} /\ loading = "loaded"
        /\ phase' = "cases" => cases # None /\ ValidIndex(source, version, cases)
        /\ UNCHANGED <<version, cases, commands, parsing, source, loading>>
    BY <1>5 DEF ReadIndex, contract, parser, loader
  <2> QED
    BY <2>1 DEF Control, Running
<1>6. CASE Elsewhere
  <2>1. UNCHANGED <<version, cases, commands, parsing, source, loading>>
    BY <1>6, ElsewhereFrame DEF parser, loader
  <2> QED
    BY <1>6, <2>1, ElsewherePhase DEF Control
<1>7. CASE UNCHANGED vars
  BY <1>7 DEF vars, parser, loader, Control
<1> QED
  BY <1>1, <1>2, <1>3, <1>4, <1>5, <1>6, <1>7, NextSplit
-------------------------------------------------------------------------------
(* The bindings of a validated contract are all its cell rows, and no two  *)
(* of them have one name.                                                  *)
LEMMA BindingsAreRows ==
    ASSUME NEW c, SourceOK(c), ValidateV2Contract(c)
    PROVE  /\ Len(c.rows["cell"]) \in Nat
           /\ DOMAIN CellBindings(c) = 1 .. Len(c.rows["cell"])
           /\ \A k \in 1 .. Len(c.rows["cell"]) : CellBindings(c)[k] = c.rows["cell"][k]
           /\ \A j, k \in DOMAIN CellBindings(c) :
                 CellBindings(c)[j].name = CellBindings(c)[k].name => j = k
<1> DEFINE rows == c.rows["cell"]
           cells == CellBindings(c)
<1>1. IsSeq(rows)
  BY DEF SourceOK, Lists, Rows
<1>2. Len(rows) \in Nat /\ DOMAIN rows = 1 .. Len(rows)
  BY <1>1, AppendOne
<1>3. /\ DOMAIN cells \subseteq DOMAIN rows
      /\ \A k \in DOMAIN cells : cells[k] = rows[k]
  BY DEF CellBindings, Restrict
<1>4. IsFiniteSet(DOMAIN rows) /\ Cardinality(DOMAIN rows) = Len(rows)
  BY <1>2, FS_Interval
<1>5. Cardinality(DOMAIN cells) = 3 * Third /\ Len(rows) = 3 * Third
  BY DEF ValidateV2Contract, validateV2CellBindings, Denominator
<1>6. DOMAIN cells = DOMAIN rows
  BY <1>3, <1>4, <1>5, FS_Subset
<1>7. \A j, k \in DOMAIN cells : cells[j].name = cells[k].name => j = k
  BY DEF ValidateV2Contract, validateV2CellBindings
<1> QED
  BY <1>2, <1>3, <1>6, <1>7

(* So a cell found by the name of a root is one of them.                   *)
LEMMA CellOfRoot ==
    ASSUME NEW c, SourceOK(c), ValidateV2Contract(c), NEW name,
           v2CellForRoot(c, name) # None
    PROVE  v2CellForRoot(c, name) \in Range(CellBindings(c))
<1> DEFINE cells == CellBindings(c)
           hits == {k \in DOMAIN cells : cells[k]["name"] = name}
<1>1. DOMAIN cells \subseteq Nat /\ \A j, k \in hits : j = k
  BY BindingsAreRows
<1> HIDE DEF cells
<1>2. hits # {} /\ v2CellForRoot(c, name) = cells[CHOOSE k \in hits : \A j \in hits : k <= j]
  BY DEF v2CellForRoot, FirstBinding, cells
<1>3. \E k \in hits : \A j \in hits : k <= j
  BY <1>1, <1>2
<1>4. (CHOOSE k \in hits : \A j \in hits : k <= j) \in hits
  BY <1>3
<1> QED
  BY <1>2, <1>4 DEF cells, Range

(* The case at hand is one of the index.                                   *)
LEMMA AtHand ==
    ASSUME Control, CaseOK, Len(observations) < Len(cases), cases # None
    PROVE  /\ Len(observations) \in Nat /\ Len(cases) \in Nat
           /\ DOMAIN cases = 1 .. Len(cases) /\ DOMAIN observations = 1 .. Len(observations)
           /\ Len(observations) + 1 \in DOMAIN cases
           /\ Spec1.id \in DOMAIN Directory
<1>1. IsSeq(cases) /\ IsSeq(observations)
  BY DEF Control, CaseOK
<1>2. /\ Len(observations) \in Nat /\ Len(cases) \in Nat
      /\ DOMAIN cases = 1 .. Len(cases) /\ DOMAIN observations = 1 .. Len(observations)
  BY <1>1, AppendOne
<1> QED
  BY <1>2 DEF Control, Spec1

LEMMA CaseFrame ==
    ASSUME CaseOK, UNCHANGED <<version, cases, resolved, observations, source, loading>>,
           phase' \in {"idle", "contract", "catalog"} => phase \in {"idle", "contract", "catalog"},
           phase' = "cases" => phase = "cases",
           phase' \in {"resolved", "evidence", "generated"}
               => phase \in {"resolved", "evidence", "generated"}
    PROVE  CaseOK'
<1>1. Spec1' = Spec1
  BY DEF Spec1
<1>2. Resolving' <=> Resolving
  BY <1>1 DEF Resolving
<1>3. phase' \in Caught => phase \in Caught
  BY DEF Caught
<1> QED
  BY <1>2, <1>3 DEF CaseOK, Caught

(* Before the cases none is observed.                                      *)
LEMMA CaseNone ==
    ASSUME observations' = << >>, resolved' = None, cases' # None => Len(cases') \in Nat,
           phase' \in Caught => cases' # None,
           phase' \notin {"resolved", "evidence", "generated"}
    PROVE  CaseOK'
<1>1. IsSeq(<< >>) /\ Len(<< >>) = 0 /\ DOMAIN << >> = {}
  BY EmptyIsSeq
<1>2. phase' \in Caught => Len(observations') <= Len(cases')
  BY <1>1
<1> QED
  BY <1>1, <1>2 DEF CaseOK

LEMMA CaseEarly ==
    ASSUME CaseOK, Control, Control',
           Begin \/ ParseContract \/ OpenCatalog \/ LoadCatalog \/ WriteMeanwhile \/ ReadIndex
    PROVE  CaseOK'
<1>1. /\ observations' = << >> /\ resolved' = None /\ cases' = cases
      /\ phase' \in {"contract", "catalog", "cases", "failed"}
  BY DEF CaseOK, Begin, ParseContract, OpenCatalog, LoadCatalog, WriteMeanwhile, ReadIndex,
         results
<1>2. cases # None => Len(cases) \in Nat
  BY AppendOne DEF Control
<1>3. phase' \in Caught => cases' # None
  BY DEF Control, Caught, Running
<1> QED
  BY <1>1, <1>2, <1>3, CaseNone

LEMMA CaseResolve ==
    ASSUME ScanOK, Control, CaseOK, ResolveCase PROVE CaseOK'
<1>1. /\ phase = "cases" /\ resolved = None /\ Len(observations) < Len(cases) /\ cases # None
      /\ version \in {"v1", "v2"} /\ SourceOK(source)
  BY DEF ResolveCase, MoreCases, Control, Running, ScanOK
<1>2. UNCHANGED <<version, cases, observations, source, loading>>
  BY DEF ResolveCase, parser, loader
<1>3. Spec1' = Spec1
  BY <1>2 DEF Spec1
<1>4. CASE phase' = "failed" /\ resolved' = resolved
  BY <1>1, <1>2, <1>4, CaseFrame
<1>5. CASE ~ (phase' = "failed" /\ resolved' = resolved)
  <2>1. PICK name \in RootNames, state \in Status, artifacts \in Artifacts[Spec1.id] :
           LET cell == IF version = "v1" THEN None ELSE v2CellForRoot(contract, name)
           IN  /\ Valid(contract, version)
               /\ version = "v2" => cell # None
               /\ state = Spec1.expected
               /\ CellMatches(cell)
               /\ resolved' = [id |-> Spec1.id, state |-> state, cell |-> cell,
                               artifacts |-> artifacts]
               /\ phase' = IF version = "v1" THEN "generated" ELSE "resolved"
    BY <1>5 DEF ResolveCase
  <2> DEFINE cell == IF version = "v1" THEN None ELSE v2CellForRoot(contract, name)
  <2>2. /\ resolved'.id = Spec1.id /\ resolved'.state = Spec1.expected
        /\ resolved'.cell = cell /\ resolved'.artifacts \in Artifacts[Spec1.id]
        /\ resolved'.state \in Status
        /\ DOMAIN resolved' = {"id", "state", "cell", "artifacts"}
    BY <2>1
  <2>3. IsObservation(resolved')
    BY <1>1, <2>2, AtHand DEF IsObservation
  <2>4. ASSUME version = "v1"
        PROVE  Matches(resolved', Spec1, source, version)
    BY <2>2, <2>3, <2>4 DEF Matches
  <2>5. ASSUME version = "v2"
        PROVE  Matches(resolved', Spec1, source, version)
    <3>1. ValidateV2Contract(source) /\ cell # None /\ cell = v2CellForRoot(source, name)
      BY <2>1, <2>5 DEF Valid, contract
    <3>2. cell \in Range(CellBindings(source))
      BY <1>1, <3>1, CellOfRoot
    <3>3. Maps(Spec1, cell) /\ cell.case_id = Spec1.id
      BY <2>1, <2>5 DEF CellMatches
    <3> QED
      BY <2>2, <2>3, <2>5, <3>2, <3>3 DEF Matches
  <2>6. Matches(resolved', Spec1, source, version)
    BY <1>1, <2>4, <2>5
  <2>7. Resolving'
    BY <1>1, <1>2, <1>3, <2>1, <2>6 DEF Resolving, contract
  <2>8. phase' \in {"generated", "resolved"}
    BY <2>1
  <2> QED
    BY <1>1, <1>2, <2>7, <2>8 DEF CaseOK, Caught
<1> QED
  BY <1>4, <1>5

LEMMA CaseObserve ==
    ASSUME Control, CaseOK, Observe PROVE CaseOK'
<1>1. /\ phase = "generated" /\ Resolving /\ cases # None /\ loading = "loaded"
      /\ UNCHANGED <<version, cases, source, loading>>
  BY DEF Observe, Control, CaseOK, Running, parser, loader
<1>2. /\ Len(observations) \in Nat /\ Len(cases) \in Nat /\ Len(observations) < Len(cases)
      /\ DOMAIN observations = 1 .. Len(observations) /\ IsSeq(observations)
      /\ Matches(resolved, Spec1, source, version) /\ Valid(source, version)
  BY <1>1, AtHand DEF Resolving, CaseOK
<1>3. CASE phase' = "failed" /\ UNCHANGED results
  BY <1>1, <1>3, CaseFrame DEF results
<1>4. CASE /\ observations' = Append(observations, resolved)
           /\ resolved' = None /\ phase' = "cases"
  <2>1. /\ IsSeq(observations') /\ Len(observations') = Len(observations) + 1
        /\ DOMAIN observations' = 1 .. Len(observations) + 1
        /\ observations'[Len(observations) + 1] = resolved
        /\ \A n \in 1 .. Len(observations) : observations'[n] = observations[n]
    BY <1>2, <1>4, AppendOne
  <2>2. \A n \in DOMAIN observations' : Matches(observations'[n], cases[n], source, version)
    <3> TAKE n \in DOMAIN observations'
    <3>1. CASE n = Len(observations) + 1
      BY <1>2, <2>1, <3>1 DEF Spec1
    <3>2. CASE n # Len(observations) + 1
      BY <1>1, <1>2, <2>1, <3>2 DEF CaseOK, Caught
    <3> QED
      BY <3>1, <3>2
  <2>3. \A n \in DOMAIN observations' : IsObservation(observations'[n])
    BY <2>2 DEF Matches
  <2> QED
    BY <1>1, <1>2, <1>4, <2>1, <2>2, <2>3 DEF CaseOK, Caught
<1> QED
  BY <1>3, <1>4 DEF Observe
-------------------------------------------------------------------------------
(* A sequence whose items change places keeps its length and its items,    *)
(* and a set of its places has as many places after as before.             *)
LEMMA Permuted ==
    ASSUME NEW r, IsSeq(r), NEW order \in Bijection(DOMAIN r, DOMAIN r),
           NEW q, q = [n \in DOMAIN r |-> r[order[n]]]
    PROVE  /\ IsSeq(q) /\ Len(q) = Len(r) /\ DOMAIN q = DOMAIN r /\ Range(q) = Range(r)
           /\ \A n \in DOMAIN r : order[n] \in DOMAIN r /\ q[n] = r[order[n]]
           /\ \A A \in SUBSET DOMAIN r :
                 Cardinality({n \in DOMAIN r : order[n] \in A}) = Cardinality(A)
<1>1. Len(r) \in Nat /\ DOMAIN r = 1 .. Len(r)
  BY AppendOne
<1>2. /\ order \in [DOMAIN r -> DOMAIN r]
      /\ \A j, k \in DOMAIN r : order[j] = order[k] => j = k
      /\ \A k \in DOMAIN r : \E n \in DOMAIN r : order[n] = k
  BY DEF Bijection, Injection, Surjection, IsInjective
<1>3. DOMAIN q = DOMAIN r /\ \A n \in DOMAIN r : order[n] \in DOMAIN r /\ q[n] = r[order[n]]
  BY <1>2
<1>4. Range(q) = Range(r)
  BY <1>2, <1>3 DEF Range
<1>5. q \in [1 .. Len(r) -> Range(q)]
  BY <1>1, <1>3 DEF Range
<1>6. IsSeq(q) /\ Len(q) = Len(r)
  BY <1>1, <1>5 DEF IsSeq
<1>7. ASSUME NEW A \in SUBSET DOMAIN r
      PROVE  Cardinality({n \in DOMAIN r : order[n] \in A}) = Cardinality(A)
  <2> DEFINE B == {n \in DOMAIN r : order[n] \in A}
             f == [n \in B |-> order[n]]
  <2>1. IsFiniteSet(B)
    <3>1. IsFiniteSet(DOMAIN r)
      BY <1>1, FS_Interval
    <3>2. B \in SUBSET DOMAIN r
      OBVIOUS
    <3> QED
      BY <3>1, <3>2, FS_Subset
  <2>2. f \in Bijection(B, A)
    BY <1>2 DEF Bijection, Injection, Surjection, IsInjective
  <2>3. ExistsBijection(B, A)
    BY <2>2 DEF ExistsBijection
  <2> QED
    BY <2>1, <2>3, FS_Bijection
<1> QED
  BY <1>3, <1>4, <1>6, <1>7


LEMMA CaseCount ==
    ASSUME CaseOK, CountCases PROVE CaseOK'
<1>1. PICK order \in Bijection(DOMAIN observations, DOMAIN observations) :
         observations' = [n \in DOMAIN observations |-> observations[order[n]]]
  BY DEF CountCases
<1>2. IsSeq(observations)
  BY DEF CaseOK
<1>3. /\ IsSeq(observations') /\ Len(observations') = Len(observations)
      /\ DOMAIN observations' = DOMAIN observations
      /\ \A n \in DOMAIN observations :
            order[n] \in DOMAIN observations /\ observations'[n] = observations[order[n]]
  BY <1>1, <1>2, Permuted
<1>4. /\ phase' \in {"summary", "failed"} /\ phase = "cases" /\ resolved' = resolved
      /\ UNCHANGED <<version, cases, source, loading>>
  BY DEF CountCases, parser, loader
<1>5. observations' # << >> => observations # << >>
  <2>1. Len(observations) \in Nat /\ DOMAIN observations = 1 .. Len(observations)
    BY <1>2, AppendOne
  <2>2. ASSUME observations = << >> PROVE observations' = << >>
    BY <1>1, <2>2
  <2> QED
    BY <2>2
<1>6. resolved' = None
  BY <1>4 DEF CaseOK
<1> QED
  BY <1>3, <1>4, <1>5, <1>6 DEF CaseOK, Caught

LEMMA CaseNext ==
    ASSUME ScanOK, Control, Control', CaseOK, [Next]_vars PROVE CaseOK'
<1>1. CASE Begin \/ ParseContract \/ OpenCatalog \/ LoadCatalog \/ WriteMeanwhile \/ ReadIndex
  BY <1>1, CaseEarly
<1>2. CASE ResolveCase
  BY <1>2, CaseResolve
<1>3. CASE Observe
  BY <1>3, CaseObserve
<1>4. CASE CountCases
  BY <1>4, CaseCount
<1>5. CASE \/ OpenEvidence \/ CloseEvidence \/ OpenSummary \/ WriteSummary
           \/ OpenReplay \/ WriteReplay \/ Stop
  <2>1. UNCHANGED <<version, cases, resolved, observations, source, loading>>
    BY <1>5 DEF OpenEvidence, CloseEvidence, OpenSummary, WriteSummary, OpenReplay,
                WriteReplay, Stop, parser, loader, results
  <2>2. \/ phase = "resolved" /\ phase' \in {"evidence", "failed"}
        \/ phase = "evidence" /\ phase' = "generated"
        \/ phase' \in {"summarising", "replay", "replaying", "done", "failed"}
    BY <1>5 DEF OpenEvidence, CloseEvidence, OpenSummary, WriteSummary, OpenReplay,
                WriteReplay, Stop
  <2> QED
    BY <2>1, <2>2, CaseFrame
<1>6. CASE UNCHANGED vars
  BY <1>6, CaseFrame DEF vars, results, parser, loader
<1> QED
  BY <1>1, <1>2, <1>3, <1>4, <1>5, <1>6, NextSplit DEF Elsewhere
-------------------------------------------------------------------------------
(* What is observed when all cases have passed, in the order of the index: *)
(* the cases of the index, with the statuses it expects ...                *)
AllObserved ==
    /\ IsSeq(observations) /\ IsSeq(cases) /\ Len(observations) = Len(cases)
    /\ \A n \in DOMAIN observations : Matches(observations[n], cases[n], source, version)

LEMMA ObservedPairs ==
    ASSUME AllObserved
    PROVE  {<<o.id, o.state>> : o \in Range(observations)}
               = {<<c.id, c.expected>> : c \in Range(cases)}
<1>1. DOMAIN observations = DOMAIN cases
  BY AppendOne DEF AllObserved
<1>2. \A n \in DOMAIN cases : /\ observations[n].id = cases[n].id
                              /\ observations[n].state = cases[n].expected
  BY <1>1 DEF AllObserved, Matches
<1> QED
  BY <1>1, <1>2 DEF Range

(* ... and in v2 one observation for every line that declares a cell.      *)
LEMMA CellLineRow ==
    ASSUME ScanOK, parsing = "parsed", ValidateV2Contract(source), NEW k \in CellsOf(text)
    PROVE  \E p \in DOMAIN CellBindings(source) : CellBindings(source)[p] = RowOf(text[k])
<1>1. /\ text # None /\ text \in Texts /\ at = Len(text)
      /\ Declares(text, at, source) /\ SourceOK(source)
  BY DEF ScanOK
<1>2. Len(text) \in Nat /\ DOMAIN text = 1 .. Len(text)
  BY <1>1, TextIsSeq
<1>3. k \in LinesOf(text, at, "cell") /\ text[k].word = "cell"
  BY <1>1, <1>2 DEF CellsOf, LinesOf
<1>4. "cell" \in Lists
  BY DEF Lists, Rows
<1>5. RowsAsListed(text, at, source, "cell")
  BY <1>1, <1>4 DEF Declares
<1> DEFINE rows == source.rows["cell"]
           p == Place(text, at, k)
<1>6. rows[p] = RowOf(text[k]) /\ Len(rows) = Cardinality(LinesOf(text, at, "cell"))
  BY <1>3, <1>5 DEF RowsAsListed
<1>7. p \in 1 .. Len(rows)
  BY <1>1, <1>2, <1>3, <1>6, PlaceInList
<1> QED
  BY <1>1, <1>6, <1>7, BindingsAreRows

LEMMA CellLineCount ==
    ASSUME ScanOK, parsing = "parsed", ValidateV2Contract(source)
    PROVE  Cardinality(CellsOf(text)) = Denominator("v2")
<1>1. /\ text # None /\ text \in Texts /\ at = Len(text) /\ Declares(text, at, source)
  BY DEF ScanOK
<1>2. DOMAIN text = 1 .. Len(text)
  BY <1>1, TextIsSeq
<1>3. CellsOf(text) = LinesOf(text, at, "cell")
  BY <1>1, <1>2 DEF CellsOf, LinesOf
<1>4. "cell" \in Lists
  BY DEF Lists, Rows
<1>5. Len(source.rows["cell"]) = Cardinality(LinesOf(text, at, "cell"))
  BY <1>1, <1>4 DEF Declares, RowsAsListed
<1> QED
  BY <1>3, <1>5 DEF ValidateV2Contract

(* What a cell's row says is what its line says.                           *)
LEMMA CellRow ==
    ASSUME NEW line, line.word = "cell"
    PROVE  LET values == parseKeyValues(line.fields)
               row == RowOf(line)
           IN  /\ row.name = Value(values, "name")
               /\ row.case_id = Value(values, "case_id")
               /\ row.proof_choice = Value(values, "proof_choice")
               /\ row.indicator_class = Value(values, "indicator_class")
<1>1. {"name", "case_id", "proof_choice", "indicator_class"} \subseteq Rows["cell"]
  BY DEF Rows, Needs, Bindings
<1>2. \A key \in Rows["cell"] :
         RowOf(line)[key] = Value(parseKeyValues(line.fields), key)
  BY DEF RowOf, RowValue
<1> QED
  BY <1>1, <1>2

LEMMA OneForCell ==
    ASSUME ScanOK, parsing = "parsed", ValidateV2Contract(source), version = "v2",
           validateV2CaseIndex(source, cases), AllObserved, NEW k \in CellsOf(text)
    PROVE  \E m \in DOMAIN observations :
              \A n \in DOMAIN observations : Carries(observations[n], text[k]) <=> n = m
<1> DEFINE cells == CellBindings(source)
           values == parseKeyValues(text[k].fields)
<1>1. DOMAIN observations = DOMAIN cases /\ DOMAIN cases = 1 .. Len(cases) /\ Len(cases) \in Nat
  BY AppendOne DEF AllObserved
<1>2. PICK p \in DOMAIN cells : cells[p] = RowOf(text[k])
  BY CellLineRow
<1>3. /\ cells[p].name = Value(values, "name")
      /\ cells[p].case_id = Value(values, "case_id")
      /\ cells[p].proof_choice = Value(values, "proof_choice")
      /\ cells[p].indicator_class = Value(values, "indicator_class")
  BY <1>2, CellRow DEF CellsOf
<1>4. PICK m \in DOMAIN cases : cases[m].cell = cells[p].name /\ cases[m].id = cells[p].case_id
  BY DEF validateV2CaseIndex, Range
<1>5. ASSUME NEW n \in DOMAIN cases
      PROVE  /\ observations[n].id = cases[n].id /\ observations[n].cell.name = cases[n].cell
             /\ \E q \in DOMAIN cells : observations[n].cell = cells[q]
  BY <1>1 DEF AllObserved, Matches, Maps, Range
<1>6. observations[m].cell = cells[p]
  <2>1. PICK q \in DOMAIN cells : observations[m].cell = cells[q]
    BY <1>5
  <2>2. cells[q].name = cells[p].name
    BY <1>4, <1>5, <2>1
  <2>3. q = p
    BY <2>2, BindingsAreRows DEF ScanOK
  <2> QED
    BY <2>1, <2>3
<1>7. Carries(observations[m], text[k])
  BY <1>3, <1>4, <1>5, <1>6 DEF Carries
<1>8. ASSUME NEW n \in DOMAIN cases, Carries(observations[n], text[k]) PROVE n = m
  <2>1. cases[n].id = cases[m].id
    BY <1>3, <1>4, <1>5, <1>8 DEF Carries
  <2>2. \A i \in DOMAIN cases : \A j \in 1 .. i - 1 : cases[j].id # cases[i].id
    BY DEF validateV2CaseIndex
  <2> QED
    BY <1>1, <2>1, <2>2
<1> QED
  BY <1>1, <1>7, <1>8
-------------------------------------------------------------------------------
(* Sorted and counted: the report is complete.                             *)
LEMMA FixedCounts ==
    ASSUME FixedSummary, version \in {"v1", "v2"}, NEW s \in Status
    PROVE  Cardinality({n \in DOMAIN observations : observations[n].state = s})
               = IF version = "v1" THEN Shares[s] ELSE Third
  BY DEF FixedSummary

LEMMA CountStart ==
    ASSUME Control, CaseOK, CountCases
    PROVE  /\ AllObserved /\ ValidIndex(source, version, cases) /\ version \in {"v1", "v2"}
           /\ parsing = "parsed" /\ UNCHANGED <<version, cases, text>>
           /\ observations # << >> => Valid(source, version)
<1>1. phase = "cases" /\ Len(observations) = Len(cases) /\ UNCHANGED <<version, cases, text>>
  BY DEF CountCases, parser
<1> QED
  BY <1>1 DEF Control, CaseOK, AllObserved, Running, Caught

LEMMA CountIndexed ==
    ASSUME Control, CaseOK, CountCases, FixedSummary
    PROVE  Indexed(observations', cases, version)
<1>1. PICK order \in Bijection(DOMAIN observations, DOMAIN observations) :
         /\ SortsById(order)
         /\ observations' = [n \in DOMAIN observations |-> observations[order[n]]]
  BY DEF CountCases
<1>2. AllObserved /\ ValidIndex(source, version, cases) /\ version \in {"v1", "v2"}
  BY CountStart
<1>3. IsSeq(observations)
  BY <1>2 DEF AllObserved
<1> DEFINE q == [n \in DOMAIN observations |-> observations[order[n]]]
<1>4. /\ Len(q) = Len(observations) /\ DOMAIN q = DOMAIN observations
      /\ Range(q) = Range(observations)
      /\ \A n \in DOMAIN observations :
            order[n] \in DOMAIN observations /\ q[n] = observations[order[n]]
      /\ \A A \in SUBSET DOMAIN observations :
            Cardinality({n \in DOMAIN observations : order[n] \in A}) = Cardinality(A)
  BY <1>3, Permuted
<1>5. observations' = q
  BY <1>1
<1> HIDE DEF q
<1>6. Len(q) = Denominator(version)
  BY <1>2, <1>4 DEF AllObserved, ValidIndex
<1>7. {<<o.id, o.state>> : o \in Range(q)} = {<<c.id, c.expected>> : c \in Range(cases)}
  BY <1>2, <1>4, ObservedPairs
<1>8. \A j, k \in DOMAIN q : j < k => Rank[q[j].id] <= Rank[q[k].id]
  <2> TAKE j, k \in DOMAIN q
  <2> HAVE j < k
  <2>1. q[j].id \in DOMAIN Directory /\ q[k].id \in DOMAIN Directory
    BY <1>2, <1>4 DEF AllObserved, Matches, IsObservation
  <2>2. Rank[q[j].id] \in Nat /\ Rank[q[k].id] \in Nat
    BY <2>1, ConformanceAssumption DEF Injection
  <2>3. Rank[q[j].id] < Rank[q[k].id] \/ q[j].id = q[k].id
    BY <1>1, <1>4 DEF SortsById
  <2> QED
    BY <2>2, <2>3
<1>9. ASSUME NEW s \in Status
      PROVE  Cardinality({n \in DOMAIN q : q[n].state = s})
                 = IF version = "v1" THEN Shares[s] ELSE Third
  <2> DEFINE A == {n \in DOMAIN observations : observations[n].state = s}
  <2>1. {n \in DOMAIN q : q[n].state = s} = {n \in DOMAIN observations : order[n] \in A}
    BY <1>4
  <2>2. Cardinality({n \in DOMAIN observations : order[n] \in A}) = Cardinality(A)
    BY <1>4
  <2> QED
    BY <1>2, <2>1, <2>2, FixedCounts
<1> QED
  BY <1>5, <1>6, <1>7, <1>8, <1>9 DEF Indexed
LEMMA CountCelled ==
    ASSUME ScanOK, Control, CaseOK, CountCases, version = "v2"
    PROVE  Celled(observations', text)
<1>1. PICK order \in Bijection(DOMAIN observations, DOMAIN observations) :
         observations' = [n \in DOMAIN observations |-> observations[order[n]]]
  BY DEF CountCases
<1>2. /\ AllObserved /\ parsing = "parsed" /\ ValidIndex(source, version, cases)
      /\ observations # << >> => Valid(source, version)
  BY CountStart
<1>3. Len(observations) = Denominator("v2") /\ validateV2CaseIndex(source, cases)
  BY <1>2 DEF AllObserved, ValidIndex
<1>4. IsSeq(observations) /\ observations # << >>
  <2>1. Denominator("v2") # 0
    BY FixedNumbers DEF Denominator
  <2> QED
    BY <1>2, <1>3, <2>1, EmptyIsSeq DEF AllObserved
<1>5. ValidateV2Contract(source)
  BY <1>2, <1>4 DEF Valid
<1> DEFINE q == [n \in DOMAIN observations |-> observations[order[n]]]
<1>6. /\ Len(q) = Len(observations) /\ DOMAIN q = DOMAIN observations
      /\ \A n \in DOMAIN observations :
            order[n] \in DOMAIN observations /\ q[n] = observations[order[n]]
      /\ \A A \in SUBSET DOMAIN observations :
            Cardinality({n \in DOMAIN observations : order[n] \in A}) = Cardinality(A)
  BY <1>4, Permuted
<1>7. observations' = q
  BY <1>1
<1> HIDE DEF q
<1>8. Len(q) = Cardinality(CellsOf(text))
  BY <1>2, <1>3, <1>5, <1>6, CellLineCount
<1>9. ASSUME NEW k \in CellsOf(text)
      PROVE  Cardinality({n \in DOMAIN q : Carries(q[n], text[k])}) = 1
  <2>1. PICK m \in DOMAIN observations :
           \A n \in DOMAIN observations : Carries(observations[n], text[k]) <=> n = m
    BY <1>2, <1>3, <1>5, OneForCell
  <2>2. {n \in DOMAIN q : Carries(q[n], text[k])} = {n \in DOMAIN observations : order[n] \in {m}}
    BY <1>6, <2>1
  <2>3. Cardinality({n \in DOMAIN observations : order[n] \in {m}}) = Cardinality({m})
    BY <1>6, <2>1
  <2> QED
    BY <2>2, <2>3, FS_Singleton
<1> QED
  BY <1>7, <1>8, <1>9 DEF Celled

LEMMA CountComplete ==
    ASSUME ScanOK, Control, CaseOK, CaseOK', CountCases, FixedSummary
    PROVE  Complete(observations', cases', version', text')
<1>1. UNCHANGED <<cases, version, text>>
  BY CountStart
<1>2. \A n \in DOMAIN observations' : IsObservation(observations'[n])
  BY DEF CaseOK
<1> QED
  BY <1>1, <1>2, CountIndexed, CountCelled DEF Complete
-------------------------------------------------------------------------------
(* The reports.                                                            *)
LEMMA ReportFrame ==
    ASSUME ReportOK, UNCHANGED <<version, cases, text, summary, replay>>,
           phase' \in {"summary", "summarising", "replay", "replaying"}
               => phase' = phase /\ observations' = observations,
           phase' = "done" => phase = "done"
    PROVE  ReportOK'
  BY DEF ReportOK

LEMMA ReportNext ==
    ASSUME ScanOK, Control, CaseOK, CaseOK', ReportOK, [Next]_vars PROVE ReportOK'
<1>1. CASE \/ Begin \/ ParseContract \/ OpenCatalog \/ LoadCatalog \/ WriteMeanwhile
           \/ ReadIndex \/ ResolveCase \/ OpenEvidence \/ CloseEvidence \/ Observe \/ Stop
  <2>1. /\ UNCHANGED <<version, cases, summary, replay>>
        /\ phase' \in {"failed", "contract", "catalog", "cases"} \cup Caught
    BY <1>1 DEF Begin, ParseContract, OpenCatalog, LoadCatalog, WriteMeanwhile, ReadIndex,
                ResolveCase, MoreCases, OpenEvidence, CloseEvidence, Observe, Stop, output, Caught
  <2>2. text' = text
    <3>1. CASE Begin \/ ParseContract
      BY <3>1 DEF Begin, OpenText, ParseContract, ParseStep, TakeLine, RefuseLine, EndOfText
    <3>2. CASE ~ (Begin \/ ParseContract)
      BY <1>1, <3>2 DEF OpenCatalog, LoadCatalog, WriteMeanwhile, ReadIndex,
                  ResolveCase, OpenEvidence, CloseEvidence, Observe, Stop, parser
    <3> QED
      BY <3>1, <3>2
  <2> QED
    BY <2>1, <2>2, ReportFrame DEF Caught
<1>2. CASE CountCases
  <2>1. /\ UNCHANGED <<version, cases, text, summary, replay>>
        /\ phase' = IF FixedSummary THEN "summary" ELSE "failed"
    BY <1>2 DEF CountCases, output, parser
  <2>2. phase' = "summary" => Complete(observations', cases', version', text')
    BY <1>2, <2>1, CountComplete
  <2> QED
    BY <2>1, <2>2 DEF ReportOK
<1>3. CASE OpenSummary
  <2>1. /\ UNCHANGED <<version, cases, text, observations, replay>>
        /\ phase = "summary" /\ phase' = "summarising" /\ summary' = Torn
    BY <1>3 DEF OpenSummary, results, parser
  <2> QED
    BY <2>1 DEF ReportOK
<1>4. CASE WriteSummary
  <2>1. /\ UNCHANGED <<version, cases, text, observations, replay>>
        /\ phase = "summarising" /\ phase' = (IF version = "v1" THEN "replay" ELSE "done")
        /\ summary' = observations
    BY <1>4 DEF WriteSummary, results, parser
  <2> QED
    BY <2>1 DEF ReportOK
<1>5. CASE OpenReplay
  <2>1. /\ UNCHANGED <<version, cases, text, observations, summary>>
        /\ phase = "replay" /\ phase' = "replaying" /\ replay' = Torn
    BY <1>5 DEF OpenReplay, results, parser
  <2> QED
    BY <2>1 DEF ReportOK, IsReport
<1>6. CASE WriteReplay
  <2>1. /\ UNCHANGED <<version, cases, text, observations, summary>>
        /\ phase = "replaying" /\ phase' = "done" /\ replay' = observations
    BY <1>6 DEF WriteReplay, results, parser
  <2>2. IsReport(observations)
    BY DEF CaseOK, IsReport
  <2> QED
    BY <2>1, <2>2 DEF ReportOK
<1>7. CASE UNCHANGED vars
  BY <1>7, ReportFrame DEF vars, output, parser, results
<1> QED
  BY <1>1, <1>2, <1>3, <1>4, <1>5, <1>6, <1>7, NextSplit DEF Elsewhere
-------------------------------------------------------------------------------
(* The evidence.  While a v2 case is at hand, its directory is in place    *)
(* and no other case's ...                                                 *)
LEMMA OwnDirectory ==
    ASSUME Control, CaseOK, phase \in {"resolved", "evidence"}, SafePath(resolved.id)
    PROVE  /\ resolved.id \in DOMAIN Directory /\ Directory[resolved.id] = << resolved.id >>
           /\ Directory[resolved.id] \in CaseDirectory
           /\ resolved.artifacts \in UNION Range(Artifacts)
           /\ \A n \in DOMAIN observations :
                 /\ observations[n].id \in DOMAIN Directory
                 /\ SafePath(observations[n].id)
                        => Directory[observations[n].id] # Directory[resolved.id]
<1>1. /\ Resolving /\ cases # None /\ version = "v2" /\ ValidIndex(source, version, cases)
      /\ Len(observations) < Len(cases)
      /\ \A n \in DOMAIN observations : Matches(observations[n], cases[n], source, version)
  BY DEF Control, CaseOK, Running, Resolving, Caught
<1>2. /\ Len(observations) \in Nat /\ Len(cases) \in Nat
      /\ DOMAIN cases = 1 .. Len(cases) /\ DOMAIN observations = 1 .. Len(observations)
  BY <1>1, AtHand
<1>3. IsObservation(resolved) /\ resolved.id = cases[Len(observations) + 1].id
  BY <1>1 DEF Resolving, Matches, Spec1
<1>4. \A i \in DOMAIN cases : \A j \in 1 .. i - 1 : cases[j].id # cases[i].id
  BY <1>1 DEF ValidIndex, validateV2CaseIndex
<1>5. resolved.id \in DOMAIN Directory /\ resolved.artifacts \in Artifacts[resolved.id]
  BY <1>3 DEF IsObservation
<1>6. Directory[resolved.id] = << resolved.id >>
  BY <1>5, DirectoryAssumption DEF SafePath
<1>7. resolved.artifacts \in UNION Range(Artifacts) /\ Directory[resolved.id] \in CaseDirectory
  BY <1>5, ConformanceAssumption DEF Range, CaseDirectory
<1>8. ASSUME NEW n \in DOMAIN observations
      PROVE  /\ observations[n].id \in DOMAIN Directory
             /\ SafePath(observations[n].id)
                    => Directory[observations[n].id] # Directory[resolved.id]
  <2>1. observations[n].id \in DOMAIN Directory /\ observations[n].id = cases[n].id
    BY <1>1 DEF Matches, IsObservation
  <2>2. observations[n].id # resolved.id
    <3> DEFINE i == Len(observations) + 1
    <3>1. i \in DOMAIN cases /\ n \in 1 .. i - 1
      BY <1>1, <1>2
    <3>2. cases[n].id # cases[i].id
      BY <1>4, <3>1
    <3> QED
      BY <1>3, <2>1, <3>2
  <2>3. SafePath(observations[n].id) => Directory[observations[n].id] = << observations[n].id >>
    BY <2>1, DirectoryAssumption DEF SafePath
  <2>4. << observations[n].id >> # << resolved.id >>
    BY <2>2
  <2> QED
    BY <1>6, <2>1, <2>3, <2>4
<1> QED
  BY <1>5, <1>6, <1>7, <1>8

(* ... so that writing it keeps the others.                                *)
LEMMA WriteOwn ==
    ASSUME Control, CaseOK, EvidenceOK, phase \in {"resolved", "evidence"},
           SafePath(resolved.id), NEW content, content = Torn \/ content = resolved.artifacts
    PROVE  LET e == [evidence EXCEPT ![Directory[resolved.id]] = content]
           IN  /\ e \in [CaseDirectory -> (UNION Range(Artifacts)) \cup {None, Torn}]
               /\ InPlace(e) /\ e[Directory[resolved.id]] = content
               /\ \A n \in DOMAIN observations : Kept(observations[n], e)
<1> DEFINE own == Directory[resolved.id]
           e == [evidence EXCEPT ![own] = content]
<1>1. /\ resolved.id \in DOMAIN Directory /\ own = << resolved.id >> /\ own \in CaseDirectory
      /\ content \in (UNION Range(Artifacts)) \cup {Torn}
      /\ \A n \in DOMAIN observations :
            /\ observations[n].id \in DOMAIN Directory
            /\ SafePath(observations[n].id) => Directory[observations[n].id] # own
  <2>1. resolved.artifacts \in UNION Range(Artifacts)
    BY OwnDirectory
  <2>2. content \in (UNION Range(Artifacts)) \cup {Torn}
    BY <2>1
  <2> QED
    BY <2>2, OwnDirectory
<1>2. /\ evidence \in [CaseDirectory -> (UNION Range(Artifacts)) \cup {None, Torn}]
      /\ InPlace(evidence)
      /\ \A n \in DOMAIN observations : Kept(observations[n], evidence)
  BY DEF EvidenceOK, Control, Caught
<1> HIDE DEF own
<1>3. /\ e \in [CaseDirectory -> (UNION Range(Artifacts)) \cup {None, Torn}]
      /\ e[own] = content /\ \A d \in CaseDirectory \ {own} : e[d] = evidence[d]
  BY <1>1, <1>2
<1>4. InPlace(e)
  BY <1>1, <1>2, <1>3 DEF InPlace
<1>5. ASSUME NEW n \in DOMAIN observations PROVE Kept(observations[n], e)
  <2>1. Directory[observations[n].id] \in CaseDirectory
    BY <1>1 DEF CaseDirectory, Range
  <2> QED
    BY <1>1, <1>2, <1>3, <2>1 DEF Kept
<1> QED
  BY <1>3, <1>4, <1>5 DEF own

LEMMA EvidenceNext ==
    ASSUME Control, CaseOK, CaseOK', EvidenceOK, [Next]_vars PROVE EvidenceOK'
<1>0. /\ evidence \in [CaseDirectory -> (UNION Range(Artifacts)) \cup {None, Torn}]
      /\ InPlace(evidence)
  BY DEF EvidenceOK
<1>1. CASE \/ Begin \/ ParseContract \/ OpenCatalog \/ LoadCatalog \/ WriteMeanwhile \/ Stop
  <2>1. evidence' = evidence /\ phase' \in {"contract", "catalog", "failed"}
    BY <1>1 DEF Begin, ParseContract, OpenCatalog, LoadCatalog, WriteMeanwhile, Stop, output
  <2> QED
    BY <1>0, <2>1 DEF EvidenceOK, Caught
<1>2. CASE ReadIndex
  <2>1. /\ evidence' = evidence /\ phase' \in {"cases", "failed"}
        /\ observations = << >> /\ observations' = observations
    BY <1>2 DEF ReadIndex, output, results, CaseOK
  <2>2. DOMAIN << >> = {}
    OBVIOUS
  <2> QED
    BY <1>0, <2>1, <2>2 DEF EvidenceOK
<1>3. CASE ResolveCase
  <2>1. /\ UNCHANGED <<evidence, observations, version>> /\ phase = "cases"
        /\ phase' \in {"generated", "resolved", "failed"}
        /\ version = "v2" => phase' \in {"resolved", "failed"}
    BY <1>3 DEF ResolveCase, MoreCases, output
  <2> QED
    BY <1>0, <2>1 DEF EvidenceOK, Caught
<1>4. CASE OpenEvidence
  <2>1. /\ phase = "resolved" /\ UNCHANGED <<version, resolved, observations>>
    BY <1>4 DEF OpenEvidence, results
  <2>2. CASE SafePath(resolved.id)
    <3>1. /\ evidence' = [evidence EXCEPT ![Directory[resolved.id]] = Torn]
          /\ phase' = "evidence"
      BY <1>4, <2>2 DEF OpenEvidence
    <3> QED
      BY <2>1, <2>2, <3>1, WriteOwn DEF EvidenceOK, Caught
  <2>3. CASE ~ SafePath(resolved.id)
    <3>1. evidence' = evidence /\ phase' = "failed"
      BY <1>4, <2>3 DEF OpenEvidence
    <3> QED
      BY <1>0, <3>1 DEF EvidenceOK, Caught
  <2> QED
    BY <2>2, <2>3
<1>5. CASE CloseEvidence
  <2>1. /\ phase = "evidence" /\ UNCHANGED <<version, resolved, observations>>
        /\ evidence' = [evidence EXCEPT ![Directory[resolved.id]] = resolved.artifacts]
        /\ phase' = "generated"
    BY <1>5 DEF CloseEvidence, results
  <2>2. SafePath(resolved.id)
    BY <2>1 DEF EvidenceOK
  <2>3. /\ evidence' \in [CaseDirectory -> (UNION Range(Artifacts)) \cup {None, Torn}]
        /\ InPlace(evidence') /\ evidence'[Directory[resolved.id]] = resolved.artifacts
        /\ \A n \in DOMAIN observations : Kept(observations[n], evidence')
    BY <2>1, <2>2, WriteOwn
  <2>4. Kept(resolved', evidence')
    BY <2>1, <2>2, <2>3 DEF Kept
  <2> QED
    BY <2>1, <2>3, <2>4 DEF EvidenceOK, Caught
<1>6. CASE Observe
  <2>1. UNCHANGED <<version, evidence>> /\ phase = "generated"
    BY <1>6 DEF Observe, output
  <2>2. CASE phase' = "failed"
    BY <1>0, <2>1, <2>2 DEF EvidenceOK, Caught
  <2>3. CASE phase' = "cases" /\ observations' = Append(observations, resolved)
    <3>1. IsSeq(observations)
      BY DEF CaseOK
    <3>2. /\ Len(observations) \in Nat /\ DOMAIN observations = 1 .. Len(observations)
          /\ DOMAIN observations' = 1 .. Len(observations) + 1
          /\ observations'[Len(observations) + 1] = resolved
          /\ \A n \in 1 .. Len(observations) : observations'[n] = observations[n]
      BY <2>3, <3>1, AppendOne
    <3>3. version = "v2" => /\ Kept(resolved, evidence)
                            /\ \A n \in DOMAIN observations : Kept(observations[n], evidence)
      BY <2>1 DEF EvidenceOK, Caught
    <3>4. version = "v2" => \A n \in DOMAIN observations' : Kept(observations'[n], evidence)
      <4> SUFFICES ASSUME version = "v2", NEW n \in DOMAIN observations'
                   PROVE  Kept(observations'[n], evidence)
        OBVIOUS
      <4>1. CASE n = Len(observations) + 1
        BY <3>2, <3>3, <4>1
      <4>2. CASE n # Len(observations) + 1
        BY <3>2, <3>3, <4>2
      <4> QED
        BY <4>1, <4>2
    <3> QED
      BY <1>0, <2>1, <2>3, <3>4 DEF EvidenceOK, Caught
  <2> QED
    BY <1>6, <2>2, <2>3 DEF Observe
<1>7. CASE CountCases
  <2>1. UNCHANGED <<version, evidence>> /\ phase = "cases" /\ phase' \in {"summary", "failed"}
    BY <1>7 DEF CountCases, output
  <2>2. PICK order \in Bijection(DOMAIN observations, DOMAIN observations) :
           observations' = [n \in DOMAIN observations |-> observations[order[n]]]
    BY <1>7 DEF CountCases
  <2>3. IsSeq(observations)
    BY DEF CaseOK
  <2>4. /\ DOMAIN observations' = DOMAIN observations
        /\ \A n \in DOMAIN observations :
              order[n] \in DOMAIN observations /\ observations'[n] = observations[order[n]]
    BY <2>2, <2>3, Permuted
  <2>5. version = "v2" => \A n \in DOMAIN observations : Kept(observations[n], evidence)
    BY <2>1 DEF EvidenceOK, Caught
  <2>6. version = "v2" => \A n \in DOMAIN observations' : Kept(observations'[n], evidence)
    BY <2>4, <2>5
  <2> QED
    BY <1>0, <2>1, <2>6 DEF EvidenceOK, Caught
<1>8. CASE OpenSummary \/ WriteSummary
  <2>1. /\ UNCHANGED <<version, evidence, observations>>
        /\ \/ phase = "summary" /\ phase' = "summarising"
           \/ /\ phase = "summarising" /\ phase' \in {"replay", "done"}
              /\ summary' = observations
    BY <1>8 DEF OpenSummary, WriteSummary, results
  <2> QED
    BY <1>0, <2>1 DEF EvidenceOK, Caught
<1>9. CASE OpenReplay \/ WriteReplay
  <2>1. /\ UNCHANGED <<version, evidence>> /\ phase' \in {"replaying", "done"} /\ version = "v1"
    BY <1>9 DEF OpenReplay, WriteReplay, Control
  <2> QED
    BY <1>0, <2>1 DEF EvidenceOK
<1>10. CASE UNCHANGED vars
  BY <1>10 DEF vars, output, results, EvidenceOK
<1> QED
  BY <1>1, <1>2, <1>3, <1>4, <1>5, <1>6, <1>7, <1>8, <1>9, <1>10, NextSplit DEF Elsewhere
-------------------------------------------------------------------------------
LEMMA InvInit == ASSUME Init PROVE IInv
<1>1. PICK w \in Worlds :
         /\ version = w.version /\ cases = w.cases /\ text = w.text
         /\ catalogFile = w.catalogFile /\ lockFile = w.lockFile /\ others = w.others
         /\ commands = w.commands
  BY DEF Init
<1>2. /\ writes = 0 /\ raced = FALSE /\ ParserIdle /\ LoaderIdle /\ phase = "idle"
      /\ resolved = None /\ observations = << >>
      /\ evidence = [d \in CaseDirectory |-> None] /\ summary = None /\ replay = None
  BY DEF Init
<1>3. /\ version \in {"v1", "v2"} /\ text \in Texts \cup {None}
      /\ catalogFile \in Contents \cup {NoFile} /\ lockFile \in LockFiles \cup {NoFile}
      /\ commands \in 0 .. MaxCommands /\ others \in 0 .. MaxWrites
  BY <1>1, ConformanceAssumption
<1>4. ScanOK
  BY <1>2, <1>3, ScanInit
<1>5. LoadOK
  <2>1. LoadTyped
    BY <1>2, <1>3, CatalogAssumption DEF LoaderIdle, LoadTyped
  <2>2. LoadVouched
    BY <1>2 DEF LoaderIdle, LoadVouched
  <2> QED
    BY <2>1, <2>2 DEF LoadOK
<1>6. Control
  <2>1. cases # None => /\ IsSeq(cases)
                        /\ \A c \in Range(cases) : c.id \in DOMAIN Directory
    BY <1>1, CasesAssumption DEF IsSeq
  <2> QED
    BY <1>2, <1>3, <2>1 DEF Control, Running, Range
<1>7. CaseOK
  BY <1>2, EmptyIsSeq DEF CaseOK, Caught
<1>8. ReportOK
  BY <1>2 DEF ReportOK, IsReport
<1>9. EvidenceOK
  <2>1. evidence \in [CaseDirectory -> (UNION Range(Artifacts)) \cup {None, Torn}]
    BY <1>2
  <2>2. InPlace(evidence)
    BY <1>2 DEF InPlace
  <2>3. phase \notin {"evidence", "generated", "summary", "summarising", "done"} \cup Caught
    BY <1>2 DEF Caught
  <2> QED
    BY <2>1, <2>2, <2>3 DEF EvidenceOK
<1> QED
  BY <1>4, <1>5, <1>6, <1>7, <1>8, <1>9 DEF IInv

LEMMA InvNext == ASSUME IInv, [Next]_vars PROVE IInv'
<1>1. ScanOK' /\ LoadOK' /\ Control'
  BY ScanNext, LoadNext, ControlNext DEF IInv
<1>2. CaseOK'
  BY <1>1, CaseNext DEF IInv
<1>3. ReportOK' /\ EvidenceOK'
  BY <1>2, ReportNext, EvidenceNext DEF IInv
<1> QED
  BY <1>1, <1>2, <1>3 DEF IInv

(* The invariant holds in every state of every run of the two commands.    *)
THEOREM Invariance == Spec => []IInv
<1> QED
  BY InvInit, InvNext, PTL DEF Spec
-------------------------------------------------------------------------------
(* The state and what the commands leave have their types (the variables   *)
(* of RunConformance and RunV2Conformance).                                *)
THEOREM Typing == Spec => []TypeOK
<1>1. ASSUME IInv PROVE TypeOK
  <2>1. /\ version \in {"v1", "v2"} /\ commands \in 0 .. MaxCommands
        /\ phase \in {"idle", "contract", "catalog", "cases", "resolved", "evidence", "generated",
                      "summary", "summarising", "replay", "replaying", "done", "failed"}
    BY <1>1 DEF IInv, Control, Running
  <2>2. /\ text \in Texts \cup {None} /\ (text # None => at \in 0 .. Len(text))
        /\ parsing \in {"idle", "lines", "parsed", "refused"}
        /\ DOMAIN source.field = Field /\ DOMAIN source.rows = Lists
    BY <1>1, TextIsSeq DEF IInv, ScanOK, SourceOK
  <2>3. resolved # None => IsObservation(resolved) /\ resolved.cell \in Cell
    BY <1>1 DEF IInv, CaseOK, Resolving, Matches, Cell, contract
  <2>4. IsReport(observations) /\ IsReport(summary) /\ IsReport(replay)
    BY <1>1 DEF IInv, CaseOK, ReportOK, Complete, IsReport
  <2> QED
    BY <1>1, <2>1, <2>2, <2>3, <2>4 DEF IInv, LoadOK, LoadTyped, LoadVouched, EvidenceOK, TypeOK
<1> QED
  BY <1>1, Invariance, PTL

(* What is parsed is what the text declares (ParseSource).                 *)
THEOREM Declaration == Spec => []AsDeclared
<1>1. IInv => AsDeclared
  BY ScanDeclares DEF IInv
<1> QED
  BY <1>1, Invariance, PTL

(* Declarations of different words change places, whatever the lines and   *)
(* the source are (the cases of ParseSource assign to different fields).   *)
THEOREM Independence == Spec => []OrderFree
<1>1. IInv => OrderFree
  BY ScanDeclares DEF IInv
<1> QED
  BY <1>1, Invariance, PTL

(* Observations are about the catalog that the lock vouches for, unless    *)
(* somebody wrote it between its two reads (LoadCatalog, LoadV2Catalog).   *)
THEOREM Vouching == Spec => []CatalogVouched
<1>1. IInv => CatalogVouched
  BY DEF IInv, LoadOK, LoadVouched, CaseOK, CatalogVouched
<1> QED
  BY <1>1, Invariance, PTL

(* A complete v2 summary has one observation of every cell the contract's  *)
(* text declares, and no others (validateV2CellBindings, the index and the *)
(* check of each resolution's cell together).                              *)
THEOREM CellsCovered == Spec => []EveryCellObserved
<1>1. IInv => EveryCellObserved
  BY DEF IInv, ReportOK, Complete, Celled, CellsOf, CellLines, EveryCellObserved, Reported
<1> QED
  BY <1>1, Invariance, PTL

(* A complete summary reports the cases of the index, sorted, with the     *)
(* statuses expected and as many of each as are fixed.                     *)
THEOREM IndexReported == Spec => []SummaryReportsIndex
<1>1. IInv => SummaryReportsIndex
  BY DEF IInv, ReportOK, Complete, Indexed, SummaryReportsIndex, Reported
<1> QED
  BY <1>1, Invariance, PTL

(* After a v2 command that succeeded every evidence directory holds what   *)
(* its observation was made from, whatever was left there before           *)
(* (RunV2Conformance).                                                     *)
THEOREM EvidenceKept == Spec => []SummaryMatchesEvidence
<1>1. IInv => SummaryMatchesEvidence
  BY DEF IInv, EvidenceOK, Kept, SummaryMatchesEvidence
<1> QED
  BY <1>1, Invariance, PTL

(* No directory is touched but those named after a case (the comparison of *)
(* filepath.Base with the id in RunV2Conformance).                         *)
THEOREM Confinement == Spec => []EvidenceInPlace
<1>1. IInv => EvidenceInPlace
  BY DEF IInv, EvidenceOK, InPlace, EvidenceInPlace
<1> QED
  BY <1>1, Invariance, PTL

(* When a v1 command has succeeded, replay.json is about the summary.      *)
THEOREM Replay == Spec => []ReplayFollows
<1>1. IInv => ReplayFollows
  BY DEF IInv, ReportOK, ReplayFollows
<1> QED
  BY <1>1, Invariance, PTL
===============================================================================
