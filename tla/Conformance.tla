------------------------------ MODULE Conformance ------------------------------
(***************************************************************************)
(* The commands conformance (RunConformance, conformance.go) and           *)
(* conformance-v2 (RunV2Conformance, conformance_v2.go): parse the         *)
(* contract, load the catalog under its lock, read the index of cases,     *)
(* resolve and check case after case, leave the evidence of each (v2), and *)
(* write a summary when all have passed.  A command stops at the first     *)
(* error, may be killed anywhere, and is run again over what is there.     *)
(*                                                                         *)
(* What the resolver makes of a case is left open: any root name it may    *)
(* find in the case's source, any status, and any of a few Artifacts,      *)
(* which stand for everything that is generated from a resolution.         *)
(***************************************************************************)
EXTENDS Contracts, CatalogLoad, SequencesExt

CONSTANTS
    Worlds,      \* what commands start from: records of version, text,
                 \* catalogFile, lockFile, others, cases (None: none that can
                 \* be read and has the right fixed numbers) and commands
    RootNames,   \* the names of the consumers the cases are about
    Artifacts,   \* what may be generated for each case id
    Directory,   \* for each case id, the names on the path Join("cases", id)
    Rank,        \* where each case id comes in the order of the ids
    Torn,        \* what a file or directory holds while it is written
    MaxCommands  \* a bound on commands

VARIABLES
    version,     \* "v1" or "v2": which of the two commands is run
    cases,       \* the cases of the index file
    phase,       \* what the command is at
    resolved,    \* the current case as it was resolved, or None
    observations,\* the cases that have passed
    evidence,    \* what each evidence directory holds
    summary,     \* what conformance.json or conformance-v2.json holds
    replay,      \* replay.json: what it is a digest of
    commands     \* how many commands will yet be begun at most

results == <<resolved, observations>>
output  == <<evidence, summary, replay>>
vars == <<version, cases, phase, commands, results, output, parser, loader, files>>

ASSUME ConformanceAssumption ==
    /\ DOMAIN Artifacts = DOMAIN Directory
    /\ \A id \in DOMAIN Directory : {None, Torn} \cap Artifacts[id] = {}
    /\ None # Torn
    /\ Rank \in Injection(DOMAIN Directory, Nat)
    /\ MaxCommands \in Nat
    /\ \A w \in Worlds : /\ w.version \in {"v1", "v2"} /\ w.text \in Texts \cup {None}
                        /\ w.catalogFile \in Contents \cup {NoFile}
                        /\ w.lockFile \in LockFiles \cup {NoFile}
                        /\ w.commands \in 0 .. MaxCommands /\ w.others \in 0 .. MaxWrites

(* A list of cases is a sequence, of ids that are taken into account.      *)
ASSUME CasesAssumption ==
    \A w \in Worlds : w.cases # None =>
        /\ w.cases \in Seq(Range(w.cases))
        /\ \A c \in Range(w.cases) : c.id \in DOMAIN Directory

(* An id that is the last name of its path is all of it: only what has no  *)
(* separator is a name, and "." and ".." lead elsewhere.                   *)
ASSUME DirectoryAssumption ==
    \A id \in DOMAIN Directory : Last(Directory[id]) = id => Directory[id] = << id >>

CaseDirectory == Range(Directory)
contract == source
-------------------------------------------------------------------------------
Init ==
    /\ \E w \in Worlds :
          /\ version = w.version /\ cases = w.cases /\ text = w.text
          /\ catalogFile = w.catalogFile /\ lockFile = w.lockFile /\ others = w.others
          /\ commands = w.commands
    /\ writes = 0 /\ raced = FALSE /\ ParserIdle /\ LoaderIdle
    /\ phase = "idle"
    /\ resolved = None /\ observations = << >>
    /\ evidence = [d \in CaseDirectory |-> None] /\ summary = None /\ replay = None

Idle == phase \in {"idle", "done", "failed"}

Begin ==
    /\ Idle /\ commands > 0
    /\ commands' = commands - 1
    /\ OpenText
    /\ phase' = IF text = None THEN "failed" ELSE "contract"
    /\ resolved' = None /\ observations' = << >>
    /\ UNCHANGED <<version, cases, output, loader, files>>

(* The contract, ParseSource.                                              *)
ParseContract ==
    /\ phase = "contract" /\ parsing = "lines"
    /\ ParseStep
    /\ phase' = IF parsing' = "refused" THEN "failed" ELSE phase
    /\ UNCHANGED <<version, cases, commands, results, output, loader, files>>

(* The catalog, LoadCatalog or LoadV2Catalog.                              *)
OpenCatalog ==
    /\ phase = "contract" /\ parsing = "parsed"
    /\ BeginLoad /\ phase' = "catalog"
    /\ UNCHANGED <<version, cases, commands, results, output, parser>>

LoadCatalog ==
    /\ phase = "catalog" /\ loading # "loaded"
    /\ LoadStep
    /\ phase' = IF loading' = "refused" THEN "failed" ELSE phase
    /\ UNCHANGED <<version, cases, commands, results, output, parser>>

WriteMeanwhile ==
    /\ phase = "catalog" /\ Meanwhile
    /\ UNCHANGED <<version, cases, phase, commands, results, output, parser>>

(* The index: LoadJSON and the fixed numbers, validateV2CaseIndex.         *)
ReadIndex ==
    /\ phase = "catalog" /\ loading = "loaded"
    /\ phase' = IF cases # None /\ ValidIndex(contract, version, cases)
                THEN "cases" ELSE "failed"
    /\ UNCHANGED <<version, cases, commands, results, output, parser, loader, files>>
-------------------------------------------------------------------------------
(* One case.                                                               *)

MoreCases == phase = "cases" /\ resolved = None /\ Len(observations) < Len(cases)
Spec1 == cases[Len(observations) + 1] \* the case at hand

AnyCell(cell) == TRUE \* slip: the cell of the resolution is not looked at

(* "resolution cell evidence does not match authority mapping"             *)
CellMatches(cell) == version = "v2" => Maps(Spec1, cell) /\ cell.case_id = Spec1.id

(* ParseSource on the root, Resolve with the validation of the contract,   *)
(* the checks of status and cell, generation.                              *)
ResolveCase ==
    /\ MoreCases
    /\ \E name \in RootNames, state \in Status, artifacts \in Artifacts[Spec1.id] :
          LET cell == IF version = "v1" THEN None ELSE v2CellForRoot(contract, name)
          IN  IF /\ Valid(contract, version)
                 /\ version = "v2" => cell # None
                 /\ state = Spec1.expected
                 /\ CellMatches(cell)
              THEN /\ resolved' = [id |-> Spec1.id, state |-> state, cell |-> cell,
                                   artifacts |-> artifacts]
                   /\ phase' = IF version = "v1" THEN "generated" ELSE "resolved"
              ELSE phase' = "failed" /\ resolved' = resolved
    /\ UNCHANGED <<version, cases, commands, observations, output, parser, loader, files>>

(* WriteV2Artifacts, if the case directory bears the id of the case.       *)
AnyPath(id) == TRUE \* slip: the evidence path is not looked at
SafePath(id) == Last(Directory[id]) = id

OpenEvidenceOnce == \* slip: evidence that is there is kept
    /\ phase = "resolved" /\ SafePath(resolved.id)
    /\ LET d == Directory[resolved.id]
       IN  IF evidence[d] = None
           THEN evidence' = [evidence EXCEPT ![d] = Torn] /\ phase' = "evidence"
           ELSE evidence' = evidence /\ phase' = "generated"
    /\ UNCHANGED <<version, cases, commands, results, summary, replay, parser, loader, files>>

OpenEvidence ==
    /\ phase = "resolved"
    /\ IF SafePath(resolved.id)
       THEN /\ evidence' = [evidence EXCEPT ![Directory[resolved.id]] = Torn]
            /\ phase' = "evidence"
       ELSE evidence' = evidence /\ phase' = "failed"
    /\ UNCHANGED <<version, cases, commands, results, summary, replay, parser, loader, files>>

CloseEvidence ==
    /\ phase = "evidence"
    /\ evidence' = [evidence EXCEPT ![Directory[resolved.id]] = resolved.artifacts]
    /\ phase' = "generated"
    /\ UNCHANGED <<version, cases, commands, results, summary, replay, parser, loader, files>>

ObserveSpec == \* slip: what is observed is the case of the index
    /\ phase = "generated"
    /\ observations' = Append(observations, Spec1)
    /\ resolved' = None /\ phase' = "cases"
    /\ UNCHANGED <<version, cases, commands, output, parser, loader, files>>

(* The case is observed; one that asserts a diamond is resolved again over *)
(* the reversed catalog first, and must come out the same.                 *)
Observe ==
    /\ phase = "generated"
    /\ \E same \in BOOLEAN :
          IF Spec1.diamond => same
          THEN /\ observations' = Append(observations, resolved)
               /\ resolved' = None /\ phase' = "cases"
          ELSE phase' = "failed" /\ UNCHANGED results
    /\ UNCHANGED <<version, cases, commands, output, parser, loader, files>>
-------------------------------------------------------------------------------
(* The summary.                                                            *)

(* Slip: the statuses are not counted.                                     *)
AnySummary == TRUE

(* "unexpected fixed case summary"                                         *)
FixedSummary ==
    LET number(test(_)) == Cardinality({k \in DOMAIN observations : test(observations[k])})
    IN  IF version = "v1"
        THEN \A s \in Status : number(LAMBDA o : o.state = s) = Shares[s]
        ELSE /\ \A s \in Status : number(LAMBDA o : o.state = s) = Third
             /\ \A c \in V2ProofChoices : number(LAMBDA o : o.cell.proof_choice = c) = Third
             /\ \A c \in V2IndicatorClasses :
                   number(LAMBDA o : o.cell.indicator_class = c) = Third

(* sort.Slice keeps so few equal ids in their order.                       *)
SortsById(order) ==
    \A j, k \in DOMAIN observations :
        j < k => LET first == observations[order[j]]
                     next == observations[order[k]]
                 IN  \/ Rank[first.id] < Rank[next.id]
                     \/ first.id = next.id /\ order[j] < order[k]

CountCases ==
    /\ phase = "cases" /\ resolved = None /\ Len(observations) = Len(cases)
    /\ \E order \in Bijection(DOMAIN observations, DOMAIN observations) :
          /\ SortsById(order)
          /\ observations' = [n \in DOMAIN observations |-> observations[order[n]]]
    /\ phase' = IF FixedSummary THEN "summary" ELSE "failed"
    /\ UNCHANGED <<version, cases, commands, resolved, output, parser, loader, files>>

(* os.WriteFile truncates and writes the summary ...                       *)
OpenSummary ==
    /\ phase = "summary" /\ summary' = Torn /\ phase' = "summarising"
    /\ UNCHANGED <<version, cases, commands, results, evidence, replay, parser, loader, files>>

WriteSummaryAlone == \* slip: a replay file that is there is kept
    /\ phase = "summarising" /\ summary' = observations
    /\ phase' = IF version = "v1" /\ replay = None THEN "replay" ELSE "done"
    /\ UNCHANGED <<version, cases, commands, results, evidence, replay, parser, loader, files>>

WriteSummary ==
    /\ phase = "summarising" /\ summary' = observations
    /\ phase' = IF version = "v1" THEN "replay" ELSE "done"
    /\ UNCHANGED <<version, cases, commands, results, evidence, replay, parser, loader, files>>

(* ... and in v1 replay.json, with the digest of what was just written.    *)
OpenReplay ==
    /\ phase = "replay" /\ replay' = Torn /\ phase' = "replaying"
    /\ UNCHANGED <<version, cases, commands, results, evidence, summary, parser, loader, files>>

WriteReplay ==
    /\ phase = "replaying" /\ replay' = observations /\ phase' = "done"
    /\ UNCHANGED <<version, cases, commands, results, evidence, summary, parser, loader, files>>

(* An operation returns an error, or the program is killed.                *)
Stop ==
    /\ ~ Idle /\ phase' = "failed"
    /\ UNCHANGED <<version, cases, commands, results, output, parser, loader, files>>

Step ==
    \/ ParseContract \/ OpenCatalog \/ LoadCatalog \/ ReadIndex
    \/ ResolveCase \/ OpenEvidence \/ CloseEvidence \/ Observe
    \/ CountCases \/ OpenSummary \/ WriteSummary \/ OpenReplay \/ WriteReplay

Next == Begin \/ Step \/ WriteMeanwhile \/ Stop

(* A command is a sequential program that takes its next step until it     *)
(* returns; nothing obliges anybody to begin one, to kill it or to write   *)
(* files meanwhile.                                                        *)
Spec == Init /\ [][Next]_vars /\ WF_vars(Step)
-------------------------------------------------------------------------------
(* The type of the command's state and of what it leaves.                  *)
Cell == Range(CellBindings(contract)) \cup {None}
IsObservation(o) ==
    /\ DOMAIN o = {"id", "state", "cell", "artifacts"}
    /\ o.id \in DOMAIN Directory /\ o.state \in Status /\ o.artifacts \in Artifacts[o.id]
IsReport(r) == r \in {None, Torn} \/ \A n \in DOMAIN r : IsObservation(r[n])

TypeOK ==
    /\ version \in {"v1", "v2"} /\ commands \in 0 .. MaxCommands
    /\ phase \in {"idle", "contract", "catalog", "cases", "resolved", "evidence", "generated",
                  "summary", "summarising", "replay", "replaying", "done", "failed"}
    /\ text \in Texts \cup {None} /\ (text # None => at \in 0 .. Len(text))
    /\ parsing \in {"idle", "lines", "parsed", "refused"}
    /\ DOMAIN source.field = Field /\ DOMAIN source.rows = Lists
    /\ catalogFile \in Contents \cup {NoFile} /\ lockFile \in LockFiles \cup {NoFile}
    /\ others \in 0 .. MaxWrites /\ writes \in 0 .. others /\ raced \in BOOLEAN
    /\ catalog \in Decoded \cup {NoFile} /\ data \in Contents \cup {NoFile}
    /\ loading \in {"idle", "decode", "reread", "lock", "loaded", "refused"}
    /\ resolved # None => IsObservation(resolved) /\ resolved.cell \in Cell
    /\ IsReport(observations) /\ IsReport(summary) /\ IsReport(replay)
    /\ evidence \in [CaseDirectory -> (UNION Range(Artifacts)) \cup {None, Torn}]

(* Whatever was observed is about the catalog the lock vouches for, though *)
(* both files may be written at any time, but for a write of the catalog   *)
(* between its two reads (LoadCatalog decodes one and digests the other).  *)
CatalogVouched ==
    observations # << >> => data = lockFile /\ (catalog = lockFile \/ raced)

Reported == summary \notin {None, Torn}

(* A complete summary, an old one too, has for every cell the TEXT of the  *)
(* contract declares exactly one observation, which carries the cell's     *)
(* case, proof choice and indicator class, and it has no others            *)
(* ("every fixed case cell carries proof indicator and dossier reference").*)
CellLines == {k \in DOMAIN text : text[k].word = "cell"}
Carries(o, line) ==
    LET values == parseKeyValues(line.fields)
    IN  /\ o.id = Value(values, "case_id") /\ o.cell.name = Value(values, "name")
        /\ o.cell.proof_choice = Value(values, "proof_choice")
        /\ o.cell.indicator_class = Value(values, "indicator_class")

EveryCellObserved ==
    Reported /\ version = "v2" =>
        /\ Len(summary) = Cardinality(CellLines)
        /\ \A k \in CellLines :
              Cardinality({n \in DOMAIN summary : Carries(summary[n], text[k])}) = 1

(* A complete summary reports the cases of the index in the order of their *)
(* ids, each with the status the index expects, and as many of each status *)
(* as are fixed (the loops of RunConformance and RunV2Conformance).        *)
SummaryReportsIndex ==
    Reported =>
        /\ Len(summary) = Denominator(version)
        /\ {<<o.id, o.state>> : o \in Range(summary)}
               = {<<c.id, c.expected>> : c \in Range(cases)}
        /\ \A j, k \in DOMAIN summary :
              j < k => Rank[summary[j].id] <= Rank[summary[k].id]
        /\ \A s \in Status :
              Cardinality({n \in DOMAIN summary : summary[n].state = s})
                  = IF version = "v1" THEN Shares[s] ELSE Third

(* When a command has succeeded, what lies in every evidence directory is  *)
(* what its observation was made from, whatever commands that failed half  *)
(* way had left there (RunV2Conformance writes case by case).              *)
SummaryMatchesEvidence ==
    phase = "done" /\ version = "v2" =>
        \A n \in DOMAIN summary : evidence[Directory[summary[n].id]] = summary[n].artifacts

(* Evidence goes nowhere but to the directories named after the cases: a   *)
(* directory of another name is never touched.                             *)
EvidenceInPlace ==
    \A d \in CaseDirectory :
        evidence[d] # None => \E id \in DOMAIN Directory : d = << id >>

(* When a v1 command has succeeded, replay.json is about the summary.      *)
ReplayFollows == phase = "done" /\ version = "v1" => replay = summary

(* Every command ends.                                                     *)
Terminates == ~ Idle ~> Idle
===============================================================================
