------------------------------ MODULE Candidates ------------------------------
(***************************************************************************)
(* How an import finds its candidates (candidates in resolve.go and v2.go, *)
(* with the lock filter of resolve.go): the catalog entries of its package *)
(* are taken through one by one, those its constraint admits and whose     *)
(* digest is the pinned one are kept, and the kept ones are sorted.  The   *)
(* resolvers try them in that order.                                       *)
(***************************************************************************)
EXTENDS Semver, Functions

CONSTANTS
    Catalogs,    \* the entries of the package: sequences of entries
    Constraints, \* the constraints of the import
    Pins,        \* digests the import or a lock may pin
    None         \* no pin

(* Digests are numbered in the order of their texts; text tells apart      *)
(* entries that agree on version and digest.                               *)
Entry == [version : Version, digest : Nat, text : Nat]

ASSUME CandidatesAssumption ==
    /\ Catalogs \subseteq Seq(Entry)
    /\ Constraints \subseteq Constraint
    /\ Pins \subseteq Nat
    /\ None \notin Nat

VARIABLES
    catalog,    \* the entries of the package, in catalog order
    constraint, \* the import's constraint
    pin,        \* the import's package digest, or its lock, or None
    next,       \* the entry the loop is at
    kept,       \* the candidates
    sorted      \* whether they have been sorted

vars == <<catalog, constraint, pin, next, kept, sorted>>

Init ==
    /\ catalog \in Catalogs /\ constraint \in Constraints /\ pin \in Pins \cup {None}
    /\ next = 1 /\ kept = << >> /\ sorted = FALSE

Keeps(e) == satisfies(e.version, constraint) /\ pin \in {None, e.digest}

(* One turn of the loop.                                                   *)
Consider ==
    /\ next <= Len(catalog)
    /\ kept' = IF Keeps(catalog[next]) THEN Append(kept, catalog[next]) ELSE kept
    /\ next' = next + 1
    /\ UNCHANGED <<catalog, constraint, pin, sorted>>

(* Slip: the digest comes before the version.                              *)
DigestFirst(e, f) ==
    LET order == compareSemver(SemverOf(e.version.parts), SemverOf(f.version.parts))
    IN  IF e.digest # f.digest THEN e.digest < f.digest ELSE order < 0

Less(e, f) ==
    LET order == compareSemver(SemverOf(e.version.parts), SemverOf(f.version.parts))
    IN  IF order # 0 THEN order < 0 ELSE e.digest < f.digest

(* The results sort.Slice may give: it is not stable.                      *)
Arrangements(s) ==
    {[k \in DOMAIN s |-> s[p[k]]] : p \in Bijection(DOMAIN s, DOMAIN s)}

Sort ==
    /\ next = Len(catalog) + 1 /\ ~ sorted
    /\ \E s \in Arrangements(kept) :
          /\ \A j, k \in DOMAIN s : j < k => ~ Less(s[k], s[j])
          /\ kept' = s
    /\ sorted' = TRUE
    /\ UNCHANGED <<catalog, constraint, pin, next>>

Next == Consider \/ Sort

Spec == Init /\ [][Next]_vars

-------------------------------------------------------------------------------
(* What the constraints mean.                                              *)

(* Semantic versions in order, as one comparison.                          *)
AtLeast(c, b) ==
    \/ c.major > b.major
    \/ c.major = b.major /\ c.minor > b.minor
    \/ c.major = b.major /\ c.minor = b.minor /\ c.patch >= b.patch

(* "^base" admits what is not below base and agrees with it up to its      *)
(* first number that is not zero (up to its last, if all are); nothing     *)
(* when that number is the greatest int.                                   *)
CaretMeans(c, b) ==
    /\ AtLeast(c, b)
    /\ c.major = b.major
    /\ b.major = 0 => c.minor = b.minor
    /\ b.major = 0 /\ b.minor = 0 => c.patch = b.patch
    /\ MaxInt # IF b.major # 0 THEN b.major ELSE IF b.minor # 0 THEN b.minor ELSE b.patch

(* The versions a constraint names: "~base" keeps major and minor, a       *)
(* missing part counting as zero, "n.x" keeps the major.                   *)
Means(con, c) ==
    LET b == SemverOf(con.parts)
    IN  CASE con.operator = "any"   -> con.vees <= 1
          [] con.operator = "caret" -> con.vees <= 1 /\ IsPartial(con.parts) /\ CaretMeans(c, b)
          [] con.operator = "tilde" -> /\ con.vees <= 1 /\ IsPartial(con.parts) /\ AtLeast(c, b)
                                       /\ c.major = b.major /\ c.minor = b.minor
          [] con.operator = "wild"  -> con.vees <= 1 /\ Len(con.parts) = 1 /\ c.major = b.major
          [] con.operator = "exact" -> con.vees <= 2 /\ Len(con.parts) = 3 /\ c = b

Wanted(e) ==
    /\ IsSemver(e.version) /\ Means(constraint, SemverOf(e.version.parts))
    /\ pin \in {None, e.digest}

(* The candidates are entries with well-formed versions, as the comparison *)
(* of sort.Slice, which falls back on digests otherwise, needs them.       *)
TypeOK ==
    /\ catalog \in Catalogs /\ constraint \in Constraints /\ pin \in Pins \cup {None}
    /\ next \in 1 .. Len(catalog) + 1
    /\ kept \in Seq({e \in Entry : IsSemver(e.version)})
    /\ sorted \in BOOLEAN

(* Of the entries taken through, exactly those that the meaning of the     *)
(* constraint admits are candidates: the caret's upper bound, computed in  *)
(* an int, is where the first nonzero number would change.                 *)
KeptAsMeant ==
    /\ \A k \in 1 .. next - 1 : Wanted(catalog[k]) => \E j \in DOMAIN kept : kept[j] = catalog[k]
    /\ \A j \in DOMAIN kept : \E k \in 1 .. next - 1 : kept[j] = catalog[k] /\ Wanted(catalog[k])

(* The candidates are tried from the lowest version up, and among equal    *)
(* versions in the order of their digests, wherever the catalog has them.  *)
Ascending ==
    sorted =>
        \A j, k \in DOMAIN kept : j < k =>
            LET low == SemverOf(kept[j].version.parts)
                high == SemverOf(kept[k].version.parts)
            IN  AtLeast(high, low) /\ (low = high => kept[j].digest <= kept[k].digest)

(* "Keep catalog order irrelevant: candidate sorting is the only selection *)
(* order": no two different candidates could stand in either order.        *)
CatalogOrderIrrelevant ==
    sorted =>
        \A j, k \in DOMAIN kept : kept[j] # kept[k] => Less(kept[j], kept[k]) \/ Less(kept[k], kept[j])
===============================================================================
