----------------------------- MODULE MCConformance -----------------------------
(***************************************************************************)
(* Small worlds for Conformance: three v2 cells and three v1 cases in      *)
(* place of twelve and seven.  The declaration worlds have a text of any   *)
(* two of many lines, the contract worlds a whole contract with one line   *)
(* missing or one too many, the index worlds a wrong index, the load       *)
(* worlds a catalog and a lock that others write.                          *)
(***************************************************************************)
EXTENDS Conformance

(* Lines, their fields as pairs; words without "=" have the key "".        *)
Line(word, pairs) ==
    [word |-> word,
     fields |-> [k \in DOMAIN pairs |-> [key |-> pairs[k][1], value |-> pairs[k][2]]]]
Header(kind, name, v) == Line("gooo", << <<"", kind>>, <<"", name>>, <<"", v>> >>)
Named(word, key, row) == Line(word, << <<"name", "n">>, <<key, row>> >>)
One(word, key, value) == Line(word, << <<key, value>> >>)
CellLine(name, id, proof, indicator) ==
    Line("cell", << <<"name", name>>, <<"activity", "act">>, <<"case_id", id>>,
                    <<"proof_choice", proof>>, <<"indicator_class", indicator>>,
                    <<"evidence_ref", "ref">> >>)
Denominators(index, cells) ==
    Line("fixed_denominator",
         << <<"cases", index>>, <<"cells", cells>>, <<"meta_activities", "3">>,
            <<"proof", "4/4/4">>, <<"indicator", "4/4/4">>, <<"closed", "1">> >>)

MCAtoi == [x \in {"0", "1", "3", "03"} |-> CASE x = "0" -> 0 [] x = "1" -> 1 [] OTHER -> 3]
MCListed == [x \in {"io", "net,io", "io,net"} |-> IF x = "io" THEN <<"io">> ELSE <<"io", "net">>]
MCPreserved == [RepositoryIdentity |-> "r", ImmutableReleaseID |-> "r1",
                AnnotatedTagObject |-> "o", AnnotatedTagTarget |-> "t", AssetID |-> "as1", AssetDigest |-> "sha",
                GoToolchainDigest |-> "go1.27"]
MCLeast == [v1 |-> [grammar |-> 1, rule |-> 1], v2 |-> [grammar |-> 1, rule |-> 1]]
MCShares == [s \in Status |-> 1]

-------------------------------------------------------------------------------
(* The contracts.                                                          *)

ContractName == "semantic_meta_package_resolver"
PrecedenceLine == One("precedence", "states", "REFUTED>UNKNOWN>CLOSED")
UnknownLine == One("unknown_fields", "fields",
                   "stage,step,reason,unknown_class,next_operation,blocked_by")
Common(v) == << Header("contract", ContractName, v), One("grammar", "g", "x"),
                Named("rule", "definition", "d"), PrecedenceLine, UnknownLine >>

V1Contract == Append(Common("v1"), One("fixed_denominator", "cases", "3"))
CellA == CellLine("a", "case-a", "FOUNDATION", "DRIVER")
CellB == CellLine("b", "case-b", "COHERENCE", "GUARDRAIL")
CellC(id) == CellLine("c", id, "REGRESSION", "OUTCOME")
Gate(name, value) == Line("gate", << <<"name", name>>, <<"value", value>> >>)
V2Contract(last) ==
    Common("v2") \o << Denominators("3", "3"), One("merge", "strategy", "FIXED_POINT"),
                       Gate("cross_project_required_gates", "0"),
                       One("repository", "identity", "r"), One("release", "id", "r1"),
                       Line("tag", << <<"object", "o">>, <<"target", "t">> >>),
                       Line("asset", << <<"id", "as1">>, <<"digest", "sha">> >>),
                       One("toolchain", "digest", "go1.27"), CellA, CellB, last >>
Good == V2Contract(CellC("case-c"))

(* Lines that are added to a whole contract; some change it, some repeat   *)
(* or undo what is there, some are refused.                                *)
Added ==
    { Denominators("3", ""), Denominators("1", "3"), One("fixed_denominator", "cases", "03"),
      One("merge", "strategy", "MAXIMUM"), One("asset", "id", "as1"),
      Gate("cross_project_required_gates", "1"), Gate("other", "1"),
      CellA, CellC("case-d"), Line("cell", << <<"name", "d">>, <<"activity", "act">> >>),
      Header("contract", ContractName, "v1"), One("package", "name", "other"),
      One("unknown_word", "x", "y"), One("precedence", "states", "CLOSED>UNKNOWN>REFUTED") }

Without(s, k) == SubSeq(s, 1, k - 1) \o SubSeq(s, k + 1, Len(s))
Contracts2 ==
    {Good} \cup {Without(Good, k) : k \in DOMAIN Good} \cup {Append(Good, l) : l \in Added}
    \cup {V2Contract(CellC("case-b")), V2Contract(CellLine("b", "case-c", "REGRESSION", "OUTCOME")),
          V2Contract(CellLine("c", "case-c", "FOUNDATION", "OUTCOME")),
          V2Contract(CellLine("c", "case-c", "REGRESSION", "DRIVER")),
          V2Contract(CellLine("c", "case-c", "REGRESSION", ""))}
    \cup {V2Contract(CellC(id)) : id \in {"x/case-c", "x/../case-a", "case-d"}}
Contracts1 == {V1Contract} \cup {Without(V1Contract, k) : k \in DOMAIN V1Contract}

-------------------------------------------------------------------------------
(* The declarations: a header and any two of these lines.                  *)

Plain ==
    { One(w, "value", "v1") : w \in {"version", "semantic_id", "stage"} }
    \cup { One(w, "digest", "d1") : w \in {"symbol_set", "contract", "toolchain", "immutable"} }
    \cup { One("package", "name", "p"), One("package", "name", ""), One("origin", "owner", "o"),
           One("repository", "identity", "r"), One("release", "id", "r1"),
           Line("tag", << <<"object", "o">>, <<"target", "t">> >>),
           Line("selection", << <<"strategy", "s">>, <<"no_latest", "true">> >>),
           One("selection", "no_latest", "yes"), Header("package", "q", "v2"),
           Line("lock", << <<"package", "p">>, <<"digest", "d">> >>),
           Line("lock", << <<"package", "p">>, <<"package", "q">>, <<"digest", "d">> >>),
           Line("version_contract", << <<"major", "1">>, <<"minor", "0">>, <<"patch", "03">> >>),
           Line("version_contract", << <<"major", "1">>, <<"minor", "x">>, <<"patch", "0">> >>),
           Line("cell", << <<"name", "a">>, <<"activity", "act">>, <<"case_id", "case-a">> >>),
           Header("package", "q", "v3"), Line("gooo", << <<"", "package">> >>),
           One("rule", "name", "n"), Named("type", "definition", "t"),
           Named("capability", "row", "r"), Named("effect", "row", "r"),
           Named("origin_rule", "definition", "d"), One("grammar", "g", "y"),
           One("grammar", "g", ""), Line("stage", << <<"", "value">> >>) }
Export(capability, optional) ==
    Line("export", << <<"id", "x">>, <<"semantic_id", "s">>, <<"type", "t">>,
                      <<"stage", "g">>, <<"capability", capability>>, <<"effect", "-">>,
                      <<"optional", optional>> >>)
ImportLine(constraint) ==
    Line("import", << <<"package", "p">>, <<"constraint", constraint>>,
                      <<"semantic_id", "s">>, <<"type", "t">>, <<"stage", "g">>,
                      <<"effect", "net,io">>, <<"release_id", "r1">> >>)
Lines ==
    Plain \cup {CellB, PrecedenceLine, UnknownLine, Export("io,net", "true"),
                           Export("net,io", "no"), ImportLine("^1"), ImportLine("")}
SmallTexts ==
    {<<Header("package", "p", "v2"), k, l>> : k, l \in Lines} \cup {<< k >> : k \in Lines}

EveryText == SmallTexts \cup Contracts1 \cup Contracts2

(* TLC evaluates a constant definition once, but what a constant is        *)
(* replaced by whenever it is used: the set gets a name of its own.        *)
MCTexts == EveryText
-------------------------------------------------------------------------------
(* The cases, the files and what comes of a case.                          *)

Case1(id, expected, diamond) == [id |-> id, expected |-> expected, diamond |-> diamond]
Case2(id, cell, proof, indicator, expected) ==
    [id |-> id, expected |-> expected, diamond |-> cell = "b",
     cell |-> cell, proof |-> proof, indicator |-> indicator]
IndexA(id, expected) == Case2(id, "a", "FOUNDATION", "DRIVER", expected)
IndexB == Case2("case-b", "b", "COHERENCE", "GUARDRAIL", "UNKNOWN")
IndexC(id) == Case2(id, "c", "REGRESSION", "OUTCOME", "REFUTED")

Index1 == << Case1("case-c", "REFUTED", FALSE), Case1("case-a", "CLOSED", TRUE),
             Case1("case-b", "UNKNOWN", FALSE) >>
WrongIndex1 ==
    { None, SubSeq(Index1, 1, 2), [Index1 EXCEPT ![1].id = "case-a"],
      [Index1 EXCEPT ![1].expected = "CLOSED"] }

Index2(id) == <<IndexC(id), IndexA("case-a", "CLOSED"), IndexB>>
WrongIndex2 ==
    { None, Tail(Index2("case-c")), Append(Index2("case-c"), IndexB),
      [Index2("case-c") EXCEPT ![2].expected = "REFUTED"],
      [Index2("case-c") EXCEPT ![2].cell = "b"], [Index2("case-c") EXCEPT ![2].id = "case-b"],
      [Index2("case-c") EXCEPT ![2] = IndexB], [Index2("case-c") EXCEPT ![2].proof = "COHERENCE"],
      [Index2("case-c") EXCEPT ![2].indicator = "OUTCOME"],
      [Index2("case-c") EXCEPT ![2].indicator = Missing], Index2("case-d") }

MCDirectory ==
    [id \in {"case-a", "case-b", "case-c", "case-d", "x/case-c", "x/../case-a"} |->
        CASE id = "x/case-c" -> <<"x", "case-c">> [] id = "x/../case-a" -> <<"case-a">>
          [] OTHER -> << id >>]
MCRank ==
    [id \in DOMAIN MCDirectory |->
        CASE id = "case-a" -> 1 [] id = "case-b" -> 2 [] id = "case-c" -> 3
          [] id = "case-d" -> 4 [] id = "x/../case-a" -> 5 [] OTHER -> 6]

MCArtifacts == [id \in DOMAIN MCDirectory |-> IF id = "case-c" THEN {"x", "y"} ELSE {"x"}]

World(v, t, c, l, i, written, starts) ==
    [version |-> v, text |-> t, catalogFile |-> c, lockFile |-> l, cases |-> i,
     others |-> written, commands |-> starts]
Calm(v, t, i, starts) == World(v, t, "cat1", "cat1", i, 0, starts)

DeclarationWorlds ==
    {World("v2", t, NoFile, NoFile, None, 0, 1) : t \in SmallTexts \cup {None}}
ContractWorlds ==
    {Calm("v2", t, Index2("case-c"), 1) : t \in Contracts2 \cup {V1Contract}}
    \cup {Calm("v1", t, Index1, 1) : t \in Contracts1 \cup {Good}}
    \cup {Calm("v2", V2Contract(CellC(id)), Index2(id), 1) :
              id \in {"x/case-c", "x/../case-a", "case-d"}}
IndexWorlds ==
    {Calm("v2", Good, i, 1) : i \in WrongIndex2}
    \cup {Calm("v1", V1Contract, i, 1) : i \in WrongIndex1}
LoadWorlds ==
    {World("v1", V1Contract, c, l, Index1, n, 2) :
        c \in {"cat1", "junk", NoFile}, l \in {"cat1", "cat2", NoFile}, n \in {0, 2}}
AgainWorlds == {Calm("v2", Good, Index2("case-c"), 2)}
MCWorlds == DeclarationWorlds \cup ContractWorlds \cup IndexWorlds \cup LoadWorlds \cup AgainWorlds
===============================================================================
