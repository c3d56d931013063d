-------------------------------- MODULE Contracts --------------------------------
(***************************************************************************)
(* What a parsed contract must be before anything is resolved with it      *)
(* (ValidateContract in resolve.go, ValidateV2Contract and                 *)
(* validateV2CellBindings in v2.go) and what the index of v2 cases must be *)
(* to it (validateV2CaseIndex in conformance_v2.go).  The fixed numbers of *)
(* the code are constants: 7 = 4 + 1 + 2 cases for v1, 12 = 3 * 4 for v2.  *)
(***************************************************************************)
EXTENDS SourceParser

CONSTANTS
    Shares,      \* v1 cases by status: 4 CLOSED, 1 UNKNOWN, 2 REFUTED
    Third,       \* v2 cases of each status, proof choice and class: 4
    Least,       \* for each version, the rows a contract has at least
    Preserved    \* the identity of the release v0.1.2 and the toolchain

ASSUME FixedNumbers == Third \in Nat \ {0}

Status == {"CLOSED", "UNKNOWN", "REFUTED"}
V2ProofChoices == {"FOUNDATION", "COHERENCE", "REGRESSION"}
V2IndicatorClasses == {"DRIVER", "OUTCOME", "GUARDRAIL"}

Denominator(version) ==
    IF version = "v1" THEN Shares["CLOSED"] + Shares["UNKNOWN"] + Shares["REFUTED"]
    ELSE 3 * Third

Identifies(contract, version) ==
    /\ contract.field["Kind"] = "contract"
    /\ contract.field["Name"] = "semantic_meta_package_resolver"
    /\ contract.field["LanguageVersion"] = version

Prevails(contract) ==
    /\ contract.field["Precedence"] = "REFUTED>UNKNOWN>CLOSED"
    /\ contract.field["UnknownFields"] =
           "stage,step,reason,unknown_class,next_operation,blocked_by"

Authoritative(contract, version) ==
    \A l \in DOMAIN Least[version] : Len(contract.rows[l]) >= Least[version][l]

ValidateContract(contract) ==
    /\ Identifies(contract, "v1") /\ Prevails(contract)
    /\ contract.field["FixedDenominator"] = Denominator("v1")
    /\ Authoritative(contract, "v1")

validateV2CellBindings(contract) ==
    LET cells == CellBindings(contract)
        times(key, value) == Cardinality({k \in DOMAIN cells : cells[k][key] = value})
    IN  /\ Cardinality(DOMAIN cells) = 3 * Third
        /\ \A j, k \in DOMAIN cells :
              j # k => cells[j].name # cells[k].name /\ cells[j].case_id # cells[k].case_id
        /\ \A k \in DOMAIN cells : /\ cells[k].proof_choice \in V2ProofChoices
                                   /\ cells[k].indicator_class \in V2IndicatorClasses
        /\ \A c \in V2ProofChoices : times("proof_choice", c) = Third
        /\ \A c \in V2IndicatorClasses : times("indicator_class", c) = Third

ValidateV2Contract(contract) ==
    /\ Identifies(contract, "v2") /\ Prevails(contract)
    /\ \A f \in {"FixedDenominator", "FixedCells", "FixedMetaActivities"} :
          contract.field[f] = Denominator("v2")
    /\ contract.field["ProofVector"] = "4/4/4" /\ contract.field["IndicatorVector"] = "4/4/4"
    /\ Len(contract.rows["cell"]) = Denominator("v2")
    /\ validateV2CellBindings(contract)
    /\ contract.field["MergeStrategy"] = "FIXED_POINT"
    /\ contract.field["CrossProjectRequiredGates"] = 0
    /\ \A f \in DOMAIN Preserved : contract.field[f] = Preserved[f]
    /\ Authoritative(contract, "v2")

Valid(contract, version) ==
    IF version = "v1" THEN ValidateContract(contract) ELSE ValidateV2Contract(contract)

(* The first binding with a value at a key, or None.                       *)
FirstBinding(contract, key, value) ==
    LET cells == CellBindings(contract)
        hits == {k \in DOMAIN cells : cells[k][key] = value}
    IN  IF hits = {} THEN None
        ELSE cells[CHOOSE k \in hits : \A j \in hits : k <= j]

v2CellForRoot(contract, rootName) == FirstBinding(contract, "name", rootName)

(* A case of an index: id, expected, diamond, and in v2 cell, proof and    *)
(* indicator; diamond says that the case asserts "diamond".                *)
Maps(spec, binding) ==
    /\ binding # None
    /\ binding.name = spec.cell
    /\ binding.proof_choice = spec.proof /\ binding.indicator_class = spec.indicator

validateV2CaseIndex(contract, cases) ==
    /\ \A k \in DOMAIN cases :
          /\ Missing \notin {cases[k].id, cases[k].cell, cases[k].proof, cases[k].indicator}
          /\ \A j \in 1 .. k - 1 : cases[j].id # cases[k].id
          /\ Maps(cases[k], FirstBinding(contract, "case_id", cases[k].id))
    /\ Len(cases) = Denominator("v2")
    /\ \A binding \in Range(CellBindings(contract)) :
          \E k \in DOMAIN cases : /\ cases[k].cell = binding.name
                                  /\ cases[k].id = binding.case_id

(* What the fixed numbers of the index and its list of cases must be.      *)
ValidIndex(contract, version, cases) ==
    /\ Len(cases) = Denominator(version)
    /\ version = "v2" => validateV2CaseIndex(contract, cases)
===============================================================================
