----------------------------- MODULE MCResolverV1 -----------------------------
(***************************************************************************)
(* Small worlds for ResolverV1: three packages with two versions each,     *)
(* whose sources form chains, diamonds and cycles and ask for versions     *)
(* that agree or not, resolved with and without locks and then replayed;   *)
(* and one package whose candidate lacks each piece of evidence in turn    *)
(* while its file may be rewritten.                                        *)
(***************************************************************************)
EXTENDS ResolverV1, FiniteSets

MCPackage == {"a", "b", "c"}
MCAdmits == [any |-> 1 .. 2, first |-> {1}, second |-> {2}]

Export(capabilities, effects) ==
    [signature |-> "s", capabilities |-> capabilities, effects |-> effects]

Imp(p, key) ==
    [pkg |-> p, line |-> 1, key |-> key, constraint |-> "any", signature |-> "s",
     capabilities |-> {"read"}, effects |-> {}, owner |-> None]
ImpA == Imp("a", 10)
ImpB == Imp("b", 20)
ImpC == Imp("c", 30)
At(i, constraint, key) == [i EXCEPT !.constraint = constraint, !.key = key]
WriteC == [ImpC EXCEPT !.line = 2, !.capabilities = {"write"}]

Source(p, imports) ==
    [name |-> p, proof |-> "proof", digest |-> None, owner |-> "team",
     exports |-> << Export({"read"}, {}) >>, imports |-> imports]

MCBytes == 1 .. 21
SourceOfBytes ==
    << Source("a", {ImpB, ImpC}),                                \* 1
       Source("a", {At(ImpB, "second", 21)}),                    \* 2
       Source("b", {}),                                          \* 3
       Source("b", {ImpC}),                                      \* 4
       Source("b", {ImpA}),                                      \* 5
       Source("c", {}),                                          \* 6
       [Source("c", {}) EXCEPT !.exports =
            << Export({"read", "write"}, {}), Export({}, {}) >>],\* 7
       Source("c", {ImpB}),                                      \* 8
       None,                                                     \* 9 not a source
       Source("a", {}),                                          \* 10 the evidence worlds
       Source("a", {ImpC}),                                      \* 11
       [Source("a", {}) EXCEPT !.proof = None],                  \* 12
       [Source("a", {}) EXCEPT !.proof = "other"],               \* 13
       [Source("a", {}) EXCEPT !.digest = 10],                   \* 14
       [Source("a", {}) EXCEPT !.owner = "others"],              \* 15
       [Source("a", {}) EXCEPT !.exports = << >>],               \* 16
       [Source("a", {}) EXCEPT !.exports =
            << Export({}, {}), Export({"read"}, {}) >>],         \* 17
       [Source("a", {}) EXCEPT !.exports = << Export({"read"}, {"net"}) >>], \* 18
       [Source("b", {}) EXCEPT !.proof = None],                  \* 19
       Source("a", {ImpA}),                                      \* 20
       Source("c", {At(ImpB, "second", 21)}) >>                  \* 21

(* TLC evaluates a constant definition once, but what a constant is        *)
(* replaced by whenever it is used: the table gets a name of its own.      *)
MCParsed == SourceOfBytes

MCPath == MCBytes \cup {0}
MCDisk == [p \in MCPath |-> IF p = 0 THEN None ELSE p]

(* The honest entry for contents b, at the path that holds them.           *)
EntryOf(b, version) ==
    [name |-> Parsed[b].name, version |-> version, digest |-> b, path |-> b,
     proof |-> Parsed[b].proof, owner |-> Parsed[b].owner]

UpTo(n, S) == {T \in SUBSET S : Cardinality(T) <= n}

WalkCatalogs ==
    {A \cup B \cup C :
        A \in {{}, {EntryOf(1, 1)}, {EntryOf(2, 1)}},
        B \in UpTo(2, {EntryOf(3, 1), EntryOf(4, 2), EntryOf(5, 1), EntryOf(19, 1)}),
        C \in UpTo(2, {EntryOf(6, 1), EntryOf(7, 2), EntryOf(8, 1), EntryOf(21, 2)})}

Defective ==
    {EntryOf(b, 1) : b \in 12 .. 18 \cup {20}}
    \cup { [EntryOf(11, 1) EXCEPT !.digest = None], [EntryOf(11, 1) EXCEPT !.path = 0],
           [EntryOf(11, 1) EXCEPT !.path = 9], [EntryOf(11, 1) EXCEPT !.path = 10],
           [EntryOf(11, 1) EXCEPT !.owner = "others"], [EntryOf(11, 1) EXCEPT !.owner = None] }

EvidenceCatalogs ==
    {{d} \cup S : d \in Defective, S \in {{}, {EntryOf(10, 2)}, {EntryOf(11, 2)}}}
    \cup {{EntryOf(10, 1)}, {EntryOf(11, 1)}}

MCCatalogs == WalkCatalogs \cup EvidenceCatalogs

NoLocks == [p \in MCPackage |-> None]
Rooted(imports) == [imports |-> imports, locks |-> NoLocks]
MCRoots ==
    { Rooted({ImpA}), Rooted({[ImpA EXCEPT !.owner = "team"], ImpB}),
      Rooted({ImpA, At(ImpC, "second", 31), WriteC}),
      Rooted({At(ImpB, "first", 22), ImpC}),
      [Rooted({ImpA, ImpC}) EXCEPT !.locks["c"] = 6] }

MCLockfiles ==
    { [valid |-> TRUE, packages |-> {[name |-> "c", digest |-> 7], [name |-> "b", digest |-> 3]}],
      [valid |-> FALSE, packages |-> {}] }

(* The file of an honest entry is emptied or gets other contents.          *)
MCRewrites == {10, 11} \X {None, 9, 10, 11}
===============================================================================
