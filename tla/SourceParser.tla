------------------------------ MODULE SourceParser ------------------------------
(***************************************************************************)
(* ParseSource (parse.go): a .gooo text is read once and its lines are     *)
(* taken one after the other; the first that is not a well-formed          *)
(* declaration refuses the whole text.                                     *)
(*                                                                         *)
(* A line is what is left of it without its comment, split at the blanks:  *)
(* a word, and fields with key and value (without quotes), the key empty   *)
(* where there is no "=" or nothing before it.  What the declarations have *)
(* in common is in tables: which values a word needs, where it puts them,  *)
(* and what rows it adds.  Schema is left out: it is made of the kind and  *)
(* the language version.                                                   *)
(***************************************************************************)
EXTENDS Sequences, Integers, FiniteSets, Functions

CONSTANTS
    Texts,   \* the texts that may be parsed: sequences of lines
    Atoi,    \* the texts strconv.Atoi accepts, and their values
    Listed,  \* the sorted items a comma-separated text lists
    None     \* no such file, no source

ASSUME ParserAssumption == None \notin Texts /\ \A t \in Texts : t \in Seq(Range(t))

VARIABLES
    text,    \* the text of the file, or None
    at,      \* how many of its lines were taken
    source,  \* what they declare
    parsing  \* "idle", "lines", "parsed" or "refused"

parser == <<text, at, source, parsing>>
-------------------------------------------------------------------------------
(* Fields.                                                                 *)

Missing == ""
Value(values, key) == IF key \in DOMAIN values THEN values[key] ELSE Missing

parseKeyValues(fields) ==
    IF \E k \in DOMAIN fields : \/ fields[k].key = Missing
                                \/ \E j \in 1 .. k - 1 : fields[j].key = fields[k].key
    THEN None
    ELSE [key \in {fields[k].key : k \in DOMAIN fields} |->
            fields[CHOOSE k \in DOMAIN fields : fields[k].key = key].value]

parseRows(value) == IF value \in {Missing, "-"} THEN << >> ELSE Listed[value]
-------------------------------------------------------------------------------
(* The declarations.                                                       *)

(* The values each word must have.                                         *)
Needs ==
    [ rule |-> {"name", "definition"}, type |-> {"name", "definition"},
      capability |-> {"name"}, effect |-> {"name"}, origin_rule |-> {"name"},
      fixed_denominator |-> {"cases"}, precedence |-> {"states"},
      unknown_fields |-> {"fields"}, cell |-> {"name", "activity"},
      merge |-> {"strategy"}, gate |-> {"name", "value"},
      repository |-> {"identity"}, release |-> {"id"}, tag |-> {"object", "target"},
      asset |-> {"id"}, symbol_set |-> {"digest"}, contract |-> {"digest"},
      toolchain |-> {"digest"}, package |-> {}, version |-> {}, semantic_id |-> {},
      stage |-> {}, origin |-> {}, version_contract |-> {"major", "minor", "patch"},
      export |-> {"id", "semantic_id", "type", "stage"},
      import |-> {"package", "constraint", "semantic_id", "type", "stage"},
      immutable |-> {}, selection |-> {}, lock |-> {"package", "digest"} ]

(* The fields of the source a word sets to a value, given or not ...       *)
Copies ==
    [ fixed_denominator |-> [ProofVector |-> "proof", IndicatorVector |-> "indicator"],
      precedence |-> [Precedence |-> "states"],
      unknown_fields |-> [UnknownFields |-> "fields"],
      merge |-> [MergeStrategy |-> "strategy"],
      repository |-> [RepositoryIdentity |-> "identity"],
      release |-> [ImmutableReleaseID |-> "id"],
      tag |-> [AnnotatedTagObject |-> "object", AnnotatedTagTarget |-> "target"],
      asset |-> [AssetID |-> "id", AssetDigest |-> "digest"],
      symbol_set |-> [SymbolSetDigest |-> "digest", ExportedSymbolSetDigest |-> "digest"],
      contract |-> [ContractDigest |-> "digest"],
      toolchain |-> [GoToolchainDigest |-> "digest"],
      package |-> [Name |-> "name"], version |-> [Version |-> "value"],
      semantic_id |-> [SemanticID |-> "value", PackageSemanticID |-> "value"],
      stage |-> [Stage |-> "value"],
      origin |-> [Owner |-> "owner", OriginKind |-> "kind"],
      version_contract |-> [Compatibility |-> "compatibility"],
      immutable |-> [Digest |-> "digest", Proof |-> "proof", Adapter |-> "adapter"],
      selection |-> [Strategy |-> "strategy", VersionOrder |-> "version_order",
                     Registry |-> "registry", NoLatest |-> "no_latest"] ]

(* ... and those it sets to a number, if the value is given.               *)
Counts ==
    [ fixed_denominator |->
          [FixedDenominator |-> "cases", FixedCells |-> "cells",
           FixedMetaActivities |-> "meta_activities", FixedClosed |-> "closed",
           FixedUnknown |-> "unknown", FixedRefuted |-> "refuted"],
      gate |-> [CrossProjectRequiredGates |-> "value"],
      version_contract |-> [Major |-> "major", Minor |-> "minor", Patch |-> "patch"] ]

(* The values a word adds to its list as a row.                            *)
Identities == {"repository", "release_id", "tag_object", "tag_target", "asset_id",
               "asset_digest", "package_semantic_id", "symbols_digest",
               "contract_digest", "toolchain_digest"}
Bindings == {"case_id", "proof_choice", "indicator_class", "evidence_ref"}
Rows ==
    [ rule |-> Needs.rule, type |-> Needs.type, capability |-> {"name", "row"},
      effect |-> {"name", "row"}, origin_rule |-> {"name", "definition"},
      cell |-> Needs.cell \cup Bindings, lock |-> Needs.lock,
      export |-> Needs.export \cup {"capability", "effect", "optional"},
      import |-> Needs.import \cup Identities
                     \cup {"package_digest", "capability", "effect", "owner"} ]

Names(table) == UNION {DOMAIN table[w] : w \in DOMAIN table}
Field == {"Kind", "Name", "LanguageVersion"} \cup Names(Copies) \cup Names(Counts)
Lists == DOMAIN Rows \cup {"grammar"}

EmptySource ==
    [ field |-> [f \in Field |-> IF f \in Names(Counts) THEN 0
                                 ELSE IF f = "NoLatest" THEN FALSE
                                 ELSE IF f = "LanguageVersion" THEN "v1" ELSE Missing],
      rows |-> [l \in Lists |-> << >>] ]

(* Only one gate counts.                                                   *)
Counted(word, values) ==
    {f \in DOMAIN Counts[word] :
        /\ Value(values, Counts[word][f]) # Missing
        /\ word = "gate" => Value(values, "name") = "cross_project_required_gates"}

WellFormed(line) ==
    LET values == parseKeyValues(line.fields)
        given(key) == Value(values, key) # Missing
    IN  \/ /\ line.word = "gooo" /\ Len(line.fields) = 3
           /\ line.fields[3].value \in {"v1", "v2"}
        \/ /\ line.word = "grammar" /\ values # None /\ Len(line.fields) = 1
           /\ line.fields[1].value # Missing
        \/ /\ line.word \in DOMAIN Needs /\ values # None
           /\ \A key \in Needs[line.word] : given(key)
           /\ line.word \in DOMAIN Counts =>
                 \A f \in Counted(line.word, values) :
                     Value(values, Counts[line.word][f]) \in DOMAIN Atoi
           /\ line.word = "cell" => \A j, k \in Bindings : given(j) = given(k)

Text(f, value) == IF f = "NoLatest" THEN value = "true" ELSE value
RowValue(word, key, value) ==
    IF word \notin {"export", "import"} THEN value
    ELSE IF key \in {"capability", "effect"} THEN parseRows(value)
    ELSE IF key = "optional" THEN value = "true" ELSE value

(* The fields a well-formed line sets, and what it sets them to.           *)
Sets(line) ==
    LET values == parseKeyValues(line.fields)
        copied == IF line.word \in DOMAIN Copies THEN DOMAIN Copies[line.word] ELSE {}
        counted == IF line.word \in DOMAIN Counts THEN Counted(line.word, values) ELSE {}
    IN  IF line.word = "gooo"
        THEN [Kind |-> line.fields[1].value, Name |-> line.fields[2].value,
              LanguageVersion |-> line.fields[3].value]
        ELSE [f \in copied \cup counted |->
                 IF f \in copied THEN Text(f, Value(values, Copies[line.word][f]))
                 ELSE Atoi[Value(values, Counts[line.word][f])]]

(* The row a well-formed line adds to the list of its word.                *)
RowOf(line) ==
    IF line.word = "grammar" THEN line.fields[1].value
    ELSE LET values == parseKeyValues(line.fields)
         IN  [key \in Rows[line.word] |-> RowValue(line.word, key, Value(values, key))]

(* Slip: a line about the release starts a whole new identity, the way an *)
(* origin line starts a new Origin.                                        *)
DeclareAfresh(s, line) ==
    LET identity == UNION {DOMAIN Copies[w] : w \in {"repository", "release", "tag", "asset"}}
        lost == IF line.word = "release" THEN identity ELSE {}
        new == Sets(line)
    IN  [ field |-> [f \in Field |-> IF f \in DOMAIN new THEN new[f]
                                     ELSE IF f \in lost THEN Missing ELSE s.field[f]],
          rows |-> [l \in Lists |-> IF l = line.word THEN Append(s.rows[l], RowOf(line))
                                    ELSE s.rows[l]] ]

Declare(s, line) ==
    LET new == Sets(line)
    IN  [ field |-> [f \in Field |-> IF f \in DOMAIN new THEN new[f] ELSE s.field[f]],
          rows |-> [l \in Lists |-> IF l = line.word THEN Append(s.rows[l], RowOf(line))
                                    ELSE s.rows[l]] ]

(* Cells and MetaActivities are columns of the cell rows; CellBindings are *)
(* those rows that bind a case, each at its place among the rows.          *)
CellBindings(s) ==
    LET cells == s.rows["cell"]
    IN  Restrict(cells, {k \in DOMAIN cells : cells[k]["case_id"] # Missing})
-------------------------------------------------------------------------------
(* The scan.                                                               *)

ParserIdle == at = 0 /\ source = EmptySource /\ parsing = "idle"

(* os.ReadFile.                                                            *)
OpenText ==
    /\ parsing' = IF text = None THEN "refused" ELSE "lines"
    /\ at' = 0 /\ source' = EmptySource
    /\ UNCHANGED text

TakeLine ==
    /\ parsing = "lines" /\ at < Len(text)
    /\ WellFormed(text[at + 1])
    /\ source' = Declare(source, text[at + 1])
    /\ at' = at + 1
    /\ UNCHANGED <<text, parsing>>

(* Slip: a line that is not well-formed is looked at for ever.             *)
RefuseInPlace ==
    /\ parsing = "lines" /\ at < Len(text)
    /\ ~ WellFormed(text[at + 1])
    /\ UNCHANGED parser

RefuseLine ==
    /\ parsing = "lines" /\ at < Len(text)
    /\ ~ WellFormed(text[at + 1])
    /\ parsing' = "refused"
    /\ UNCHANGED <<text, at, source>>

EndOfText ==
    /\ parsing = "lines" /\ at = Len(text)
    /\ parsing' = IF Missing \in {source.field["Kind"], source.field["Name"]}
                  THEN "refused" ELSE "parsed"
    /\ UNCHANGED <<text, at, source>>

ParseStep == TakeLine \/ RefuseLine \/ EndOfText
-------------------------------------------------------------------------------
(* What a parsed source is.                                                *)

(* The source is what the text declares: a field has the value the last    *)
(* line that sets it gives it, every line of a listing word is a row at    *)
(* its place in the list, and nothing of a refused line is taken; this     *)
(* holds of the lines taken so far (the assignments in ParseSource).       *)
AsDeclared ==
    text # None =>
        LET sets == [k \in 1 .. at |-> Sets(text[k])]
            setters(f) == {k \in 1 .. at : f \in DOMAIN sets[k]}
            lines(word) == {k \in 1 .. at : text[k].word = word}
            place(k) == Cardinality({j \in lines(text[k].word) : j <= k})
        IN  /\ \A k \in 1 .. at : WellFormed(text[k])
            /\ \A f \in Field :
                  IF setters(f) = {} THEN source.field[f] = EmptySource.field[f]
                  ELSE \E k \in setters(f) : /\ \A j \in setters(f) : j <= k
                                             /\ source.field[f] = sets[k][f]
            /\ \A l \in Lists :
                  /\ Len(source.rows[l]) = Cardinality(lines(l))
                  /\ \A k \in lines(l) : source.rows[l][place(k)] = RowOf(text[k])

(* Declarations of different words, the header and package apart, may      *)
(* change places: whichever comes first, the source is the same (no two    *)
(* of these cases of ParseSource share a field).                           *)
OrderFree ==
    parsing = "lines" /\ at + 1 < Len(text) =>
        LET a == text[at + 1]
            b == text[at + 2]
        IN  /\ WellFormed(a) /\ WellFormed(b)
            /\ a.word # b.word /\ {a.word, b.word} # {"gooo", "package"}
            => Declare(Declare(source, a), b) = Declare(Declare(source, b), a)
===============================================================================
