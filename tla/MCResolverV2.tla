----------------------------- MODULE MCResolverV2 -----------------------------
(***************************************************************************)
(* Small worlds for ResolverV2: three packages whose sources form chains,  *)
(* diamonds and cycles (the graph worlds), and one package whose candidate *)
(* lacks each piece of evidence in turn while its file is rewritten (the   *)
(* evidence worlds).                                                       *)
(***************************************************************************)
EXTENDS ResolverV2

MCPackage == {"a", "b", "c"}
MCVersions == 1 .. 2
MCAdmits == [any |-> MCVersions, first |-> {1}, second |-> {2}]

Export(id, p, capabilities, effects) ==
    [id |-> id, semantic |-> p, shape |-> "t",
     capabilities |-> capabilities, effects |-> effects]
X(p) == << Export("x", p, {"read"}, {}) >>
TwoX(p) == << Export("x", p, {"read"}, {}), Export("y", p, {"read"}, {}) >>
Clash(p) == << Export("x", "other", {"read"}, {}), Export("x", p, {"read"}, {}) >>
OtherAndX(p) == << Export("y", "other", {"read"}, {}), Export("x", p, {"read"}, {}) >>

MCContractId ==
    [provenance |-> "repo", release |-> "r1", asset |-> "as1", semantic |-> "resolver",
     symbols |-> None, contract |-> "k1", toolchain |-> "go1.27"]
Symbols(exports) == exportedSymbolSetDigest([exports |-> exports])
Id(p, exports) == [MCContractId EXCEPT !.semantic = p, !.symbols = Symbols(exports)]

(* The import of p declared at a line; v2ImportKey orders by package name, *)
(* then pinned before unpinned, then the rest of the fields.               *)
Imp(p, key) ==
    [pkg |-> p, line |-> 1, key |-> key, constraint |-> "any", digest |-> None,
     semantic |-> p, shape |-> "t", capabilities |-> {"read"}, effects |-> {},
     owner |-> None, identity |-> Id(p, X(p))]
ImpA == Imp("a", 10)
ImpB == Imp("b", 20)
ImpC == Imp("c", 30)
PinC(b) == [ImpC EXCEPT !.digest = b, !.key = 20 + b]
AmbiguousB == [ImpB EXCEPT !.identity = Id("b", TwoX("b"))]

Source(p, imports) ==
    [name |-> p, identity |-> Id(p, X(p)), semantic |-> p, symbolSet |-> Symbols(X(p)),
     owner |-> "team", exports |-> X(p), imports |-> imports]
Exporting(p, exports) ==
    [Source(p, {}) EXCEPT !.identity = Id(p, exports), !.symbolSet = Symbols(exports),
                          !.exports = exports]
Identified(field, value) == [Source("a", {}) EXCEPT !.identity[field] = value]

(* A dependency on b of another release, and that release of b.            *)
ForeignB == [ImpB EXCEPT !.identity.release = "r0"]

(* A dependency on b that leaves repository and tag out, as b itself does, *)
(* and one that agrees with b on an asset digest that is not a SHA-256.    *)
NamelessB == [ImpB EXCEPT !.identity.provenance = None]
UnhashedB == [ImpB EXCEPT !.identity.asset = "md5"]
MCSha256 == {"as1"}

MCBytes == 1 .. 34
SourceOfBytes ==
    << Source("a", {ImpB, ImpC}),                               \* 1
       Source("a", {PinC(8), ImpB}),                            \* 2
       Source("b", {}),                                         \* 3
       Source("b", {ImpC}),                                     \* 4
       Source("b", {ImpA}),                                     \* 5
       Exporting("b", TwoX("b")),                               \* 6
       Source("c", {}),                                         \* 7
       Source("c", {}),                                         \* 8
       Source("c", {ImpB}),                                     \* 9
       None,                                                    \* 10 not a source
       Source("a", {}),                                         \* 11 the evidence worlds
       Source("a", {}),                                         \* 12
       Identified("release", None),                             \* 13
       Identified("asset", None),                               \* 14
       Identified("toolchain", "go1.26"),                       \* 15
       Identified("contract", "k0"),                            \* 16
       Identified("release", "r0"),                             \* 17
       [Source("a", {}) EXCEPT !.name = "b"],                   \* 18 forged name
       [Source("a", {}) EXCEPT !.symbolSet = None],               \* 19
       [Source("a", {}) EXCEPT !.exports = TwoX("a")],          \* 20
       [Source("a", {}) EXCEPT !.owner = "others"],             \* 21
       [Source("a", {}) EXCEPT !.semantic = "b"],               \* 22
       Exporting("a", TwoX("a")),                               \* 23
       Exporting("a", << Export("x", "a", {}, {}) >>),          \* 24
       Exporting("a", << Export("x", "a", {"read"}, {"net"}) >>),\* 25
       Source("a", {ForeignB}),                                 \* 26 the reuse worlds
       [Source("b", {}) EXCEPT !.identity.release = "r0"],      \* 27
       Exporting("a", OtherAndX("a")),                          \* 28 evidence
       Identified("provenance", None),                          \* 29
       Source("a", {NamelessB}),                                \* 30 the verify worlds
       [Source("b", {}) EXCEPT !.identity.provenance = None],   \* 31
       Source("a", {UnhashedB}),                                \* 32
       [Source("b", {}) EXCEPT !.identity.asset = "md5"],       \* 33
       Exporting("a", Clash("a")) >>                            \* 34 evidence

(* TLC evaluates a constant definition once, but what a constant is        *)
(* replaced by whenever it is used: the table gets a name of its own.      *)
MCParsed == SourceOfBytes

MCPath == MCBytes \cup {0}
MCDisk == [p \in MCPath |-> IF p = 0 THEN None ELSE p]

(* The honest entry for contents b, at the path that holds them.           *)
EntryOf(b, version) ==
    [name |-> Parsed[b].name, version |-> version, digest |-> b, path |-> b,
     identity |-> Parsed[b].identity]

(* No entry of a package, or any n of them.                                *)
NoneOr(n, S) == {T \in SUBSET S : Cardinality(T) \in {0, n}}

GraphCatalogs ==
    {A \cup B \cup C :
        A \in NoneOr(1, {EntryOf(1, 1), EntryOf(2, 1)}),
        B \in NoneOr(2, {EntryOf(3, 2), EntryOf(4, 1), EntryOf(5, 1), EntryOf(6, 1)}),
        C \in NoneOr(2, {EntryOf(7, 1), EntryOf(8, 2), EntryOf(9, 1)})}

GraphRoots ==
    { {ImpA}, {ImpA, ImpB, ImpC}, {ImpB, [ImpC EXCEPT !.constraint = "second"]},
      {ImpA, PinC(7)}, {ImpC, [ImpC EXCEPT !.line = 2, !.capabilities = {"write"}]},
      {AmbiguousB, [ImpB EXCEPT !.line = 2]}, {ImpA, AmbiguousB},
      {[ImpA EXCEPT !.identity.release = None]} }

(* The entry of each defect, beside an honest one of a higher version.     *)
Defective ==
    {EntryOf(b, 1) : b \in (11 .. 25) \cup {28, 29, 34}}
    \cup { [EntryOf(11, 1) EXCEPT !.path = 0], [EntryOf(11, 1) EXCEPT !.path = 10],
           [EntryOf(11, 1) EXCEPT !.path = 12], [EntryOf(18, 1) EXCEPT !.name = "a"],
           [EntryOf(15, 1) EXCEPT !.identity.toolchain = "go1.27"],
           [EntryOf(19, 1) EXCEPT !.identity.symbols = None] }

(* Alone, below an honest one, below one that lacks evidence; an unknown   *)
(* below a refuted one, and two honest ones of one version.                *)
EvidenceCatalogs ==
    {{}} \cup {{d} : d \in Defective}
    \cup {{d, EntryOf(b, 2)} : d \in Defective, b \in {12, 13}}
    \cup {{EntryOf(13, 1), EntryOf(17, 2)}, {EntryOf(11, 1), EntryOf(12, 1)}}

EvidenceRoots ==
    { {ImpA}, {[ImpA EXCEPT !.owner = "team"]} }
    \cup {{[ImpA EXCEPT !.identity = Id("a", Parsed[b].exports)]} : b \in {20, 24, 25, 28, 34}}

(* A path is emptied, or another version or an invalid text replaces it,   *)
(* and the first contents may come back.                                   *)
EvidenceRewrites == {11, 12} \X {None, 10, 11, 12}

(* The root and its dependency a both import b, each with its identity.    *)
ReuseWorlds ==
    {[catalog |-> {EntryOf(26, 1)} \cup B, root |-> {ImpA, ImpB}] :
        B \in SUBSET {EntryOf(3, 1), EntryOf(27, 1), EntryOf(4, 2)}}

(* The only b that dependency a may be linked to lacks an identity field,  *)
(* or its asset digest is not a SHA-256.                                   *)
VerifyWorlds ==
    {[catalog |-> {EntryOf(a, 1)} \cup B, root |-> {ImpA}] :
        a \in {30, 32}, B \in SUBSET {EntryOf(3, 1), EntryOf(31, 2), EntryOf(33, 2)}}

WalkWorlds ==
    [catalog : GraphCatalogs, root : GraphRoots]
    \cup [catalog : EvidenceCatalogs, root : EvidenceRoots]
    \cup VerifyWorlds
===============================================================================
