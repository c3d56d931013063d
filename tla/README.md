# Verification of the Gooo semantic meta package resolver

TLA+ modules, TLC configurations and TLAPS proofs kept beside the Go program
`gooo-semantic-meta-package-resolver` (paths below are relative to the
repository, `resolver/` stands for `internal/resolver/`).

The program is sequential. What makes it hard is not threads but a recursive
walk over graphs that may be cyclic or contradict themselves, evidence of which
any piece may be missing, files that are read more than once while others may
write them, and an output directory that several invocations share.

1. [The system](#1-the-system)
2. [Modules and the code they model](#2-modules-and-the-code-they-model)
3. [Runs](#3-runs)
4. [Proofs](#4-proofs)
5. [Where code and documents disagree](#5-where-code-and-documents-disagree)
6. [What is not modelled](#6-what-is-not-modelled)
7. [Plan](#7-plan)

## 1. The system

| component | state it keeps | operations | what makes it correct |
| --- | --- | --- | --- |
| **claims** (`resolver/types.go`, `finalClaim` of `resolve.go`) | the list `decisions` of a resolution | `refutedClaim`, `unknownClaim`, `closedClaim`, `finalClaim` | the final claim is the worst one found; `REFUTED > UNKNOWN > CLOSED` |
| **v2 resolver** (`resolver/v2.go`) | `v2ResolveState`: `selected`, `sources`, `resolving`, `visited`, `edges`, `decisions` | `Resolve`, `resolveImport`, `walkDependencies`, `candidates`, `inspectCandidate`, `v2ImportMatches`, `addEdge` | CLOSED leaves no import unlinked; links are acyclic and declared; what is selected is what the catalog and the contract vouch for; every walk ends |
| **v1 resolver** (`resolver/resolve.go`) | `resolveState`: the same maps and `lockRefs` | the same, and the merge of a provided lockfile, the generated lockfile | locks are assertions; a CLOSED resolution replays to itself with its own lockfile; what is skipped lies on a cycle |
| **versions and candidates** (`resolver/semver.go`, `candidates` in both resolvers) | none between calls; a slice being filtered and sorted | `parseSemver`, `compareSemver`, `satisfies`, `candidates` | a constraint admits what it means, at every boundary; candidates are tried from the lowest up, whatever the catalog's order |
| **artifacts** (`resolver/generate.go`, `generate_v2.go`) | the files of an output directory | `GenerateArtifacts`, `WriteArtifacts`, `ExecuteArtifact` and their v2 forms | success means a complete set of files; a receipt tells the truth about what ran |
| **command line** (`cmd/.../main.go`) | the output directory, the lockfile passed back in | `run`/`resolve`, `execute`, `conformance`, `conformance-v2` | the above, over failed and repeated invocations |
| **catalog loading** (`LoadCatalog` in `parse.go`, `LoadV2Catalog` in `v2.go`) | what the first and the second read returned | decode, read again, compare with the lock | the catalog used is the one its lock vouches for, unless somebody writes it between the two reads |
| **parser** (`ParseSource` in `parse.go`) | the source being built, line by line | one case per declaration, `parseKeyValues`, `parseRows` | the source is what the text declares, wherever a line stands; the first bad line refuses the text |
| **contract checks** (`ValidateContract`, `ValidateV2Contract`, `validateV2CellBindings`, `validateV2CaseIndex`) | none | comparisons of contract, index and fixed numbers | contract, index and resolution agree on one cell per case |
| **conformance** (`conformance.go`, `conformance_v2.go`) | observations, evidence directories, summary and replay files | `RunConformance`, `RunV2Conformance` | a summary covers every cell and case once and agrees with the evidence beside it, whatever earlier commands left |
| **digests** (`digest.go`) | none | SHA-256 | injective in practice |
| **tests, scripts, workflows, contracts, fixtures** | | | data and glue |

How they interact: a command loads the contract, the catalog and the consumer's
source, hands them to a resolver by value, and the resolver reads package files
below the catalog's directory as it walks. The resolution is turned into the
texts of some files, which are written to the output directory one after the
other; with `--execute` the Go artifact among them is run by `go run` and its
output becomes the receipt `execution.json`. The lockfile of one run may be given
to a later one. Nothing locks the catalog's files or the output directory.

Hard behaviours, each listed at its line in `PROJECT.json` under `hazards`:

* *stale data*: a package file is read twice (digested, then parsed); a package
  selected for one import is reused for others with other demands; an old receipt
  stays beside new files;
* *order*: which of several imports meets a shared package first, which candidate
  is tried first, which claim becomes the final one;
* *protocol over several calls*: cycles recognised only while a package is open;
  locks from two sources; a resolution replayed with a lockfile it wrote;
* *partial failure*: one import fails after its siblings were linked; some files of
  an output directory are written and others not; a conformance command stops at
  the first failing case and leaves the evidence of those before it;
* *numeric edges*: the caret's upper bound at zero and at the greatest `int`;
* *interleaving*: two invocations in one output directory.

## 2. Modules and the code they model

```
Claims, WorkLeft <---- ResolverV2 <---- MCResolverV2    LinkGraph  (abstract)
                 <---- ResolverV1 <---- MCResolverV1      ^ implemented by ResolverV1, ResolverV2
Semver <---- Candidates <---- MCCandidates
             OutputDirectory <---- MCOutputDirectory
SourceParser <---- Contracts <---- Conformance <---- MCConformance
CatalogLoad  <------------------/
X_proofs EXTENDS X and holds its theorems:
ResolverV2_proofs <---- ResolverV2Files_proofs      Candidates_proofs
ResolverV1_proofs <---- ResolverV1Replay_proofs     OutputDirectory_proofs
SourceParser_proofs <---- Conformance_proofs
```

`PROJECT.json`, `map`, gives the lines every definition stands for. Operators with
`Slip` in their comment (such as `OpenInnermost`) are plausible mistakes; they are
used nowhere in the specifications and serve to confirm that each property notices one.

**Claims** has the claims of `types.go` and `finalClaim`. A claim keeps its state,
its reason and its package. The sort key `stage/step/reason` is a table from
reasons to ranks that each resolver supplies.

**LinkGraph** is the promise of a resolution, without any walk: packages and links are
added one at a time and never close a cycle, flaws are found, and at the end the
verdict is the worst flaw. Both resolvers are proved to implement it.

**WorkLeft** compares lists of what is left to do: a list is less than another if the first set in which
they differ is smaller. Over finite sets nothing can grow less forever.

**ResolverV2** is one v2 resolution. The recursion `resolveImport` /
`walkDependencies` is a stack: `frames[1]` is the consumer, every further frame an open
package (the map `resolving`) with the imports it still has to turn to. The
loop over candidates is `probe`. Every way out of `resolveImport` is an action:

| code (`v2.go`) | action |
| --- | --- |
| `Resolve`, `ValidateV2Root` | `Start` |
| import of an open package | `RefuteCycle` |
| package already selected: pinned digest differs / export differs / fits | `RefuteDigestConflict`, `RefuseSelected`, `LinkSelected` |
| no candidate / loop over candidates starts | `RefuteNoCandidate`, `BeginProbe` |
| `inspectCandidate` up to `os.ReadFile` | `ReadUnavailable`, `ReadCandidate` |
| `inspectCandidate` from `ParseSource` on | `RefuseCandidate`, `SelectCandidate` |
| loop ends without a selection | `ExhaustCandidates` |
| `walkDependencies` returns | `Return` |
| `finalClaim` | `Finish` |
| somebody writes a package file | `Rewrite` (environment) |

Abstractions. Bytes are numbered and are their own digests. `Parsed` is what
`ParseSource` makes of bytes; a source's imports come with the rank of their
sort key and their line. Repository, tag object, tag target and asset id, which the
code only compares, are one field; of an asset digest it is kept whether it begins with
`sha256:` (`Sha256`), which the program asks of the root's imports and, when it generates, of what was selected, and nowhere else. `Admits` gives the versions each
constraint admits; what it means is the subject of `Candidates`. Contract
validation before the walk has no effect on state and is not repeated; the
checks on the root that can fail are `ValidateV2Root`, and an invalid root is
the outcome ERROR: a wrong kind, version, selection policy or merge strategy, or a missing cell, ends
as a consumer without imports does (and duplicate locks in v1). The consumer has a name no package has
(`WorldAssumption`): the code would let edges of a package and of a
consumer of the same name mingle. Entries that tie in version and digest are tried
in either order. The digests of the result are functions of the final state and left
out. `mergeV2Exports` and `VerifyV2Resolution`, which change nothing either, are operators
over the final state, because what they return can be wrong. A world is a catalog and a
consumer; `Worlds` says which of them belong together.

**ResolverV1** is the same for `resolve.go`, with what differs there: an import of an open
package is skipped (`SkipOpen`), the root's locks and a provided lockfile are merged
(`ApplyLock`, one entry per step, in any order), a lock restricts candidates
(`RefuteLock`), the evidence is digest and proof, and the parsed bytes are not
compared with the digest again. `Replay` resolves the same root with the lockfile the
first resolution generated, as the command writes it whatever the outcome. Whether a
provided lockfile fits this root, contract and catalog is its field `valid`.

**Semver** has the parsing (up to the numbers between dots), the comparison and
`satisfies`; `CONSTANT MaxInt` is the greatest `int`, and `Increment` wraps around.
Values in sources hold no blanks, so the trimming of blanks is left out.
**Candidates** is the loop `candidates` of both resolvers, with a pin or lock, and the
sort. `sort.Slice` is not stable: `Sort` may leave any arrangement the comparison allows.

**OutputDirectory** is what commands do to one directory. `Artifacts` are resolutions by
version and status; a member stands for the text of each of its files.
`BeginResolve` is a command that has resolved and is about to write;
`OpenFile` and `WriteFile` are the two halves of `os.WriteFile` (truncate, write), in the
order of the sorted names; `ReadArtifact`, `GoRun` and the receipt are
`ExecuteArtifact`/`ExecuteV2Artifact`; `Return` ends the command. `Fail` is an error or a
kill at any point. Two commands may overlap at any of these steps: a write over what
another command wrote meanwhile may leave a mixed text (`Torn`). Of a text the program only looks for two
markers before it runs it, so a torn one may be read or refused, and run or fail.

**SourceParser** is `ParseSource`. A text is a sequence of lines, a line its first word and its
fields, split and without comments and quotes. The switch over 29 words has one shape for all but two of
them, so it is four tables: which values a word needs (`Needs`), which fields it sets to a value (`Copies`) or to a
number if given (`Counts`), and what row it adds to its list (`Rows`). `WellFormed` is when no case
returns an error, `Declare` what the case does to the source; the rows of a list are kept in the order of their lines. `Atoi` and `Listed` are the conversions of
numbers and comma-separated lists.

**CatalogLoad** is `LoadCatalog`/`LoadV2Catalog`: `DecodeCatalog` (first read), `ReadAgain` (the bytes that are
digested), `HoldAgainstLock`; `Meanwhile` is somebody who writes the catalog or the lock before, between or after them, and
`raced` remembers a write of the catalog between its two reads.

**Contracts** has the checks of a parsed contract and of a case index. The fixed numbers (7 = 4 + 1 + 2 cases in v1, 12 = 3 * 4
in v2, at least five grammar rows and so on, the preserved release) are constants: `Shares`, `Third`,
`Least`, `Preserved`.

**Conformance** composes the three: both commands, one step per operation that can fail or be seen by others.

| code | action |
| --- | --- |
| `ParseSource` on the contract | `Begin`, `ParseContract` |
| `LoadCatalog`, `LoadV2Catalog` | `OpenCatalog`, `LoadCatalog`, `WriteMeanwhile` (environment) |
| `LoadJSON` on the index and its checks | `ReadIndex` |
| loop body up to the generated artifacts | `ResolveCase` |
| evidence path, `WriteV2Artifacts` | `OpenEvidence`, `CloseEvidence` |
| "diamond" resolved again, the observation | `Observe` |
| sort and fixed summary | `CountCases` (any arrangement `SortsById` allows) |
| `conformance.json`, `conformance-v2.json`, `replay.json` | `OpenSummary`, `WriteSummary`, `OpenReplay`, `WriteReplay` |
| any other error, a kill | `Stop` |

What the resolver makes of a case is left open: any consumer's name, any status and any of a few
artifacts, so nothing that holds rests on a correct resolver. `Directory` is where a case id leads to when it is joined
to the output path. How an evidence directory is written file by file is `OutputDirectory`'s subject; here it is torn between its first
and its last write.

## 3. Runs

All runs finish on two workers within minutes; `CHECK_DEADLOCK FALSE` because a resolution
that has returned, and a directory whose commands have ended, do stop.

| run | states | what it asks |
| --- | --- | --- |
| `v2_walk` | 36,844 | graphs over three packages: chains, diamonds, cycles, pins that conflict, ambiguous exports, two exports of one id, an invalid root; and one package with candidates that are defective in some way, with or without an honest higher one, its files rewritten between or during reads; and dependencies whose identity lacks a field or has another kind of asset digest |
| `v1_walk` | 147,696 | graphs as for v2, with root locks, provided lockfiles (valid or not), defects of evidence, one rewrite, and a replay |
| `candidates` | 265,668 | every constraint against every version with numbers 0..2 where 2 is the greatest int, malformed texts included; every catalog of three out of six entries |
| `conformance` | 41,104 | both commands over every contract with a line missing, added or changed, every text of two declarations out of 38, wrong indexes, unsafe case ids, catalogs and locks that others write; killed anywhere and, over good input, run again |
| `output` | 588,880 | two commands of either kind over the remains of an earlier one, each failing anywhere |

The properties, apart from one type invariant each:

* `WalkedOnce` (v1, v2): a selected package is open or visited, never both, and none is
  open twice: the maps `selected`, `resolving`, `visited` fit, and `if !s.visited` never fires.
* `Acyclic`, `ImplementsLinkGraph` (v2; v1 within one resolution): recorded links never close a
  cycle, at whatever depth; the verdict is the worst flaw found.
* `ClosedIsComplete` (v2): a CLOSED resolution links every import of the root and of every
  selected package to a package that offers what it asks for and has the pinned digest.
* `LinksAreDeclared` (v2): failing imports leave nothing behind that nobody declared.
* `OnlyGrows` (v2, action property): a selection is never replaced; a diamond converges.
* `VerifiedSelection` (v2): however files change between the two reads, the bytes parsed are
  those of the digest, and identity, contract, toolchain and export digest agree.
* `LowestCompatible`, `RefutationPrevails` (v2): the first acceptable candidate from below is taken;
  no refutation is lost behind an unknown, in an import or in the graph.
* `MergeServesLinks` (v2): what an import of a CLOSED resolution was linked for is among the merged exports itself, or an
  earlier export of the same id stands for it. The second case is real: the merge keeps the first, whatever it offers.
* `Generates` (v2): what ends in any status passes `VerifyV2Resolution`, if the imports of packages leave no
  identity field empty and have asset digests that begin with `sha256:`. `v2_verify` shows what happens otherwise.
* `SkippedOnlyOnCycle` (v1): an import a CLOSED resolution has no link for leads to a package that
  reaches its importer.
* `LocksAreAssertions` (v1): what is locked is selected with that digest or not at all, and
  contradicting locks refute.
* `SelectedOnEvidence` (v1): proof, owner and declared digest agree, and the bytes have the
  catalog's digest if no file was rewritten.
* `ReplayFaithful` (v1): replaying a CLOSED resolution with its own lockfile gives the same packages
  and edges; if the first run had no lockfile, the replay makes no other verdict CLOSED.
* `KeptAsMeant`, `Ascending` (candidates): what passes the filter is exactly what the constraint
  means, stated without the computed bound; the order is by version, then digest.
* `CompleteOnSuccess` (output): a command that had the directory to itself and succeeded left all its
  files whole, whatever was there, and with `--execute` its own receipt.
* `ReceiptsAreTrue`, `ReceiptLast` (output): unless commands overlapped, a receipt is about a CLOSED
  artifact and about the text that ran, and appears only when all files of its artifact are there.
* `AsDeclared`, `OrderFree` (conformance): a parsed source has in each field what the last line that sets it says and in each list
  one row per line; neighbouring lines of different words may change places.
* `CatalogVouched` (conformance): observations are about a catalog the lock names, whoever writes the two files and when, except for a
  write of the catalog between its two reads, against which the code has no guard.
* `EveryCellObserved` (conformance): a complete v2 summary has, for every cell line in the *text* of the contract, exactly one observation
  that carries its case, proof choice and indicator class; the checks of the contract, the index and the resolution must fit together for that.
* `SummaryReportsIndex` (conformance): a summary reports the cases of the index with the statuses expected there, sorted.
* `SummaryMatchesEvidence` (conformance): after a success, every evidence directory holds what its observation was made from.
* `EvidenceInPlace` (conformance): no evidence is written outside the directory named after a case.
* `ReplayFollows` (conformance): after a v1 success `replay.json` is about the summary beside it.
* `RunsOut` (v1, action property; for v2 defined likewise and proved): every step of a resolution leaves less to do in
  the sense of `WorkLeft` - a package entered, or else one left, or else an import turned to, or else a candidate tried - and
  rewriting files adds nothing. This is why cyclic imports and failing candidates end, without any fairness.
* `Terminates` (v1, v2, output, conformance): every resolution and every command ends.

**Bounds, and why they are enough.** In the resolvers three packages give every shape of a cycle through one, two or three
packages, a diamond, and an import met fresh, open and visited. Two
candidates that fail and one that is honest distinguish the first refutation, the first unknown and a success
after either. Two rewrites can change a file and restore it around each of the two reads;
v1 needs one because the property there speaks of unchanged files. `MaxInt = 2` puts zero, an ordinary number
and the wrap-around next to each other. Two commands are enough for a read of one to fall between any two
writes of the other; the third party is what an earlier command left on the disk. Three cells and cases in place of twelve or seven give one of each
status, proof choice and class, so that any two can be crossed, repeated or missing; two commands are a failed one and one
that must repair what it left. Two writes during a load let the catalog differ between its two reads, the lock follow it, or the catalog change and change back. Two lines are enough to tell whether a line disturbs what another declared. Only
`case-c` has two possible artifacts: one directory with evidence that differs between commands shows what all would.

**Fairness.** A resolution is one sequential call: weak fairness of its `Step` says that it keeps executing.
`Replay`, `Rewrite`, `Meanwhile`, `Fail`, `Stop` and the start of a command are never forced. In `OutputDirectory` each running
command is scheduled on its own; that `go run` ends is assumed, as the artifact it runs is a program that prints
one line.

## 4. Proofs

Checked by `tlapm`; the constants are arbitrary within the named assumptions, which TLC evaluates in the runs:

* `WorldAssumption` (both resolvers): catalogs, imports, locks and files are well-typed, the consumer's name is no
  package's, and `None` is none of the values it stands for the absence of.
* `MaxIntAssumption`, `CandidatesAssumption`: the greatest int is a number; catalogs are lists of entries over the texts at hand.
* `OutputAssumption`, `LeftAssumption`: artifacts, receipts and the marks of an empty or torn file are distinct; a receipt
  found in the directory at first is a true one, as earlier commands that did not overlap leave them.
* `ParserAssumption`: a text is a sequence of lines. `FixedNumbers`: `Third > 0` (it is 4): with an empty index
  no case would be resolved, and no resolution would have validated the contract.
* `ConformanceAssumption`, `CasesAssumption`, `DirectoryAssumption`: worlds are well-typed, ids can be sorted (ranks are
  injective), and an id that is the last name of its path is the whole of it.

Every inductive invariant was checked by TLC, as an invariant of the runs of its module, before it was proved; `OnCourse`,
`OffCourse` and what `Recorded` says of walks, which quantify over all maps of digests and all sets of walks, only for the one map of
`SameDigests`, by running its walk.

**ResolverV2_proofs.** The inductive invariant `IInv` is

* `TypeOK`;
* `ProbeOK`: the import being probed is one the top frame still has to turn to, its package is neither selected nor
  open, and the candidates left are candidates;
* `StackOK`: before the start nothing has been found; then the first frame is the consumer's and the others are packages;
* `WalkedOnce`, `VerifiedSelection`;
* `EdgesOK`: edges join the consumer or selected packages to selected ones; those of visited packages lead to
  packages that are visited, those of an open one to visited packages or to the next frame;
* `Acyclic`;
* `Accounted`: unless a claim was raised, each import of the root and of every selected package is linked or
  waits in a frame;
* `EndOK`: the outcome is CLOSED only if no claim was raised, only the consumer's frame is left and nothing waits in it.

`Acyclic` alone is not inductive: that a new link closes no cycle follows from `EdgesOK`, because the importer is the
top of the stack and nothing visited leads back to an open package. `ClosedIsComplete` needs `Accounted`, as at
the end nothing is waiting. The lemma `WalkSteps` reduces every step to one of seven cases (nothing of the walk
changes, start, an import refused, linked to a package already walked, linked to one that opens, return, finish), so each
part of the invariant is proved against seven cases and not fifteen actions. `Declaration` needs one more part
(`Declared`) that is proved on top of `IInv`. `Implementation` maps every step to `Link`, `Flaw`, `Conclude`,
`Reject` or a stutter of `LinkGraph`; the new link keeps the graph acyclic by `Acyclic'`.

`Merging` and `Generation` rest on `IInv` and two further parts: an accepted import has exactly one matching export
(`MatchedExport`), and the first export of its id (`FirstPlace`) is the one the merge keeps (`Served`); and the identity of a selected entry is
that of the import it was selected for (`InspectAccepts`), so it is well formed when that import's is (`OwedGenerates`).

Theorems: `Invariance`, `Typing`, `Verification`, `Walking`, `Acyclicity`, `Completeness`, `Growth`, `Declaration`,
`Implementation`, `Merging`, `Generation`, `RunningOut`.

`RunningOut` (in both resolvers) shows that each action lowers one set of the list `Remaining` and keeps those before it: `SelectCandidate` opens a package that
was never walked, as it was not selected (`WalkedOnce`); `Return` keeps the packages walked and visits one more; an import that was handled no longer
waits in any frame, as no package is open twice; a refusal takes away the candidate that was read, for which `ReadsUntried` joins the invariant.

**ResolverV2Files_proofs** is about resolutions during which no file is rewritten. `QInv` adds to `IInv` and `Declared`:
the files are those found at first; every candidate the probe has put aside objects on those files, and if one of them
refutes, a refutation is kept (`ProbeFair`); an import that is neither waiting nor selected left its claim, a refutation if
there was one to find (`Settled`). That the candidate being read is a lowest one of those not yet tried gives
`Lowest` (`LowestCompatible`); `Settled` at the end, with `finalClaim`, gives `Prevalence` (`RefutationPrevails`).

**ResolverV1_proofs.** The invariant has the parts of v2, over both the first resolution and its replay, with these differences. An import
of an open package is skipped, so `Accounted` has a third case: its package leads to its importer. That this stays true needs
`PathOK`: links lead up the stack, from each open package to those above it. `LocksOK` follows the merge of the
locks: nothing is selected before the last entry is merged, the root's locks stand, and an entry that was merged agrees with
them or left a refutation. `SelectedOnEvidence` takes the place of `VerifiedSelection`, `DiskOK` says that files without rewrites are
those found. Theorems: `Invariance`, `Typing`, `Walking`, `Evidence`, `Acyclicity`, `Skipping` (`SkippedOnlyOnCycle`), `Locking`
(`LocksAreAssertions`), `Implementation` (a replay starts a new graph), `RunningOut` (`RunsOut`; the locks still to be merged come before the packages).

**ResolverV1Replay_proofs** compares two whole resolutions, which no invariant of one of them does. While no file is rewritten, where a walk gets depends on the catalog,
the consumer and the digest each package is selected with. `Turn` is this walk: a deterministic relation (`OneTurn`) over frames, visited packages and
edges, for a map `D` of digests. `ComesTo` is what it reaches, defined by the sets that hold its beginning and all that follows, so
that no induction is needed; `OneHalt` proves that it halts in one place only: the walks from which that place is reached are such a set. `RInv` adds to `IInv`

* `OnCourse`: without a claim, the resolution is where the walk comes to, for every `D` that agrees with what is selected;
* `OffCourse`: with a claim, the walk stops short of an import, for every such `D` that heeds the locks too, unless the provided lockfile
  contradicts the root or itself (`Compatible`);
* `Merged`: where the locks come from, and that a compatible lockfile is merged without a claim;
* `Tried`: what a probe has put aside is not acceptable, and its import is the least that waits;
* `Recorded`: the same of the first resolution while it is replayed, and that the lockfile respects the root's locks.

When a replay ends, one map of digests agrees with both resolutions and all locks (`SameDigests`), so both are about the same walk; it halts in one place,
at the end or short of it. Theorems: `WalkInvariance`, `Faithfulness` (`ReplayFaithful`).

**Candidates_proofs.** `CompareMeaning` and `TotalOrder` say what `compareSemver` computes; `CaretMeaning` that the range between a
base and its computed bound is what agrees with the base up to its first nonzero number, for every width of an int,
and empty when the bound wraps around; `AdmitsMeaning` extends this to all constraints. The inductive invariant is
`TypeOK`, `KeptAsMeant`, "not sorted before the end" and `Ascending`; the step of `Sort` rests on `SameMembers`: an arrangement
through a bijection has the same members. Theorems: `TotalOrder`, `CaretMeaning`, `Invariance`, `Typing`, `Filtering`,
`Ordering`.

**OutputDirectory_proofs**, for any number of commands. While `sole` names a command no other one has run since it began
(`AtMostOne`), so the directory holds what this command wrote file after file, and it reads back what it wrote
(`SoleOK`); what a command has still to write, and when it may have a receipt, is `JobOK`. Theorems: `Invariance`, `Typing`, `Completeness`
(`CompleteOnSuccess`), `Truth` (`ReceiptsAreTrue`), and the action property `Lateness` (`ReceiptLast`).

**SourceParser_proofs** has no specification of its own, only lemmas on the declarations. `AppendOne` and the lemmas on owners show that every
word sets fields and adds to lists of its own, from which `DeclareCommutes` follows: lines of different words have the same effect in either order.
`AsDeclaredSplit` turns `AsDeclared`, which is about the text read so far, into one statement per field and per list,
so that a further line (`DeclaredOne`) is a step of an ordinary inductive invariant and no induction over texts is needed. `ScanInit`, `ScanOpen`, `ScanStep` and `ScanKept`
are the steps of the parser for whoever composes it.

**Conformance_proofs.** The invariant has a part per concern: `ScanOK` (the scan declares what it read), `LoadOK` (what was decoded is what
was digested unless a write raced, and what was digested is what the lock names), `Control` (what has been checked by which phase), `CaseOK` (the observations are those of the first cases of
the index, each with its cell), `ReportOK` (what was counted is complete and stays so) and `EvidenceOK` (what was observed is still where it belongs).
That every cell is observed once (`CellsCovered`) goes through the text of the contract: its cell lines are as many as the parsed bindings
(`CellLineCount`, from `AsDeclared`), each line is one of these (`CellLineRow`), and the check of the index gives it a case which no other case shares,
as ids are distinct (`OneForCell`); sorting keeps all of it (`Permuted`). `EvidenceKept` needs that no two ids share a directory (`OwnDirectory`, from `SafePath` and `DirectoryAssumption`).
Theorems: `Invariance`, `Typing`, `Declaration`, `Independence`, `Vouching`, `CellsCovered`, `IndexReported`, `EvidenceKept`,
`Confinement`, `Replay`.

**Only model-checked**: every `Terminates`, as liveness under fairness is beyond the prover here; of the resolvers the safety half, that no step
can be taken forever, is `RunningOut`. Every other property of the passing runs is a theorem.

## 5. Where code and documents disagree

Each is a run of its own that ends in a counterexample; `PROJECT.json`, `findings`, quotes the lines.

| run | what it shows |
| --- | --- |
| `v2_reuse` | a package selected for one import is linked to a later one of another identity, in a CLOSED resolution (`v2.go:231`) |
| `v2_verify` | a package's import, its entry and its source agree on an identity without tag or repository, or on an asset digest that does not begin with `sha256:`; the resolution is CLOSED and `VerifyV2Resolution` refuses it (`v2.go:161`) |
| `v1_cycle` | an import that closes a cycle leaves no edge and no claim, and the resolution is CLOSED (`resolve.go:110`) |
| `v1_constraint` | a selected package is reused for an import whose constraint it does not meet, in a CLOSED resolution (`resolve.go:113`) |
| `v1_bytes` | v1 parses a second read of a file it does not compare with the digest (`resolve.go:217`) |
| `candidates_tie` | two entries of one version and digest are tried in an order the catalog decides (`resolve.go:195`) |
| `output_status` | `execute` prints a CLOSED receipt for the artifact of a REFUTED resolution (`generate.go:164`) |

## 6. What is not modelled

* Digests and the texts of artifacts: pure functions without state between calls. The models identify bytes with their digest;
  that generating twice gives the same bytes is compared by the program itself in conformance.
* Splitting a text into lines and words, and the limit of 64 KiB on a line (`bufio.Scanner`), which is an error of the whole text as any other.
* That a resolution asks for the parsed source of its root and of packages: the resolvers take parsed sources as a constant, and
  `SourceParser` is checked on contracts and small texts, whose declarations are the same for all kinds of source.
* `VerifyResolution` of v1 and the assertions of single cases (`assertV2Case`): whether they hold depends on the fixtures; in `Conformance` any
  case may fail.
* Flag parsing, the shape of errors, the wording of claims, the console, CI and release workflows, scripts: no state of the program.

## 7. Plan

Done, in this order: `Claims`, `LinkGraph`, `ResolverV2` and its proofs, `ResolverV1`, `Semver` and `Candidates` and their proofs,
`OutputDirectory`, `SourceParser`, `CatalogLoad`, `Contracts`, `Conformance`, the merge and verification of v2 results with their proofs,
and the proofs of `ResolverV1`, its replay, `OutputDirectory`, `ResolverV2`'s candidates, `SourceParser` and `Conformance`, and that
resolutions run out of steps.

Next: that a resolution is never stuck short of its end (some action is always possible), which with `RunsOut` is what `Terminates` rests on; the same
measure for commands; and that without ties the order of the catalog does not decide which candidate is tried first.
