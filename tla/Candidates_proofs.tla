--------------------------- MODULE Candidates_proofs ---------------------------
(***************************************************************************)
(* Proofs about Candidates and Semver, for every catalog, constraint and   *)
(* pin and every width of an int.                                          *)
(***************************************************************************)
EXTENDS Candidates, TLAPS

(***************************************************************************)
(* compareSemver is the comparison of versions as triples of numbers, so   *)
(* the order sort.Slice is given is a total order of versions.             *)
(***************************************************************************)
Triple == [major : Int, minor : Int, patch : Int]

LEMMA CompareMeaning ==
    ASSUME NEW a \in Triple, NEW b \in Triple
    PROVE  /\ compareSemver(a, b) \in {-1, 0, 1}
           /\ compareSemver(a, b) >= 0 <=> AtLeast(a, b)
           /\ compareSemver(a, b) < 0 <=> ~ AtLeast(a, b)
           /\ compareSemver(a, b) = 0 <=> a = b
<1>1. compareSemver(a, b) = 0 <=> /\ a.major = b.major /\ a.minor = b.minor
                                  /\ a.patch = b.patch
  BY DEF compareSemver, Triple
<1>2. a.major = b.major /\ a.minor = b.minor /\ a.patch = b.patch => a = b
  BY DEF Triple
<1>3. /\ compareSemver(a, b) \in {-1, 0, 1}
      /\ compareSemver(a, b) >= 0 <=> AtLeast(a, b)
      /\ compareSemver(a, b) < 0 <=> ~ AtLeast(a, b)
  BY DEF compareSemver, Triple, AtLeast
<1> QED BY <1>1, <1>2, <1>3

(* Versions are totally ordered: of two one is at least the other, both    *)
(* ways only when they are equal, and the order composes.                  *)
THEOREM TotalOrder ==
    ASSUME NEW a \in Semver, NEW b \in Semver, NEW c \in Semver
    PROVE  /\ compareSemver(a, b) = -compareSemver(b, a)
           /\ compareSemver(a, b) = 0 <=> a = b
           /\ compareSemver(a, b) <= 0 /\ compareSemver(b, c) <= 0 => compareSemver(a, c) <= 0
<1>1. a \in Triple /\ b \in Triple /\ c \in Triple
  BY MaxIntAssumption DEF Semver, Number, Triple
<1>2. compareSemver(a, b) = -compareSemver(b, a)
  BY <1>1 DEF compareSemver, Triple
<1>3. compareSemver(a, b) <= 0 /\ compareSemver(b, c) <= 0 => compareSemver(a, c) <= 0
  BY <1>1 DEF compareSemver, Triple
<1> QED BY <1>1, <1>2, <1>3, CompareMeaning

(***************************************************************************)
(* What a constraint admits, as the code computes it and as it is meant.   *)
(***************************************************************************)
LEMMA SemverTyping ==
    ASSUME NEW parts \in Parts, Numeric(parts)
    PROVE  SemverOf(parts) \in Semver
<1>1. Len(parts) \in Nat /\ Len(parts) >= 1 /\ DOMAIN parts = 1 .. Len(parts)
  BY DEF Parts
<1>2. \A k \in 1 .. Len(parts) : parts[k] \in Number
  BY <1>1 DEF Parts, Numeric, Number, Bad
<1>3. 0 \in Number
  BY MaxIntAssumption DEF Number
<1>4. parts[1] \in Number
  BY <1>1, <1>2
<1>5. (IF Len(parts) >= 2 THEN parts[2] ELSE 0) \in Number
  BY <1>1, <1>2, <1>3
<1>6. (IF Len(parts) >= 3 THEN parts[3] ELSE 0) \in Number
  BY <1>1, <1>2, <1>3
<1> QED BY <1>4, <1>5, <1>6 DEF SemverOf, Semver

(* The range of a caret, whose bound is one more than the first nonzero    *)
(* number, is what agrees with the base up to that number; when the bound  *)
(* wraps around the range is empty.                                        *)
THEOREM CaretMeaning ==
    ASSUME NEW c \in Semver, NEW b \in Semver
    PROVE  InCaret(c, b) <=> CaretMeans(c, b)
<1>1. c \in Triple /\ b \in Triple /\ MaxInt \in Nat
  BY MaxIntAssumption DEF Semver, Number, Triple
<1>2. /\ c.major \in 0 .. MaxInt /\ c.minor \in 0 .. MaxInt /\ c.patch \in 0 .. MaxInt
      /\ b.major \in 0 .. MaxInt /\ b.minor \in 0 .. MaxInt /\ b.patch \in 0 .. MaxInt
  BY DEF Semver, Number
<1>3. CaretBound(b) \in Triple
  BY <1>1, <1>2 DEF CaretBound, Increment, Triple
<1>4. InCaret(c, b) <=> AtLeast(c, b) /\ ~ AtLeast(c, CaretBound(b))
  BY <1>1, <1>3, CompareMeaning DEF InCaret
<1>5. CASE b.major # 0
  <2>1. CaretBound(b) = [major |-> Increment(b.major), minor |-> 0, patch |-> 0]
    BY <1>5 DEF CaretBound
  <2> QED BY <1>2, <1>4, <1>5, <2>1, <1>1 DEF AtLeast, CaretMeans, Increment
<1>6. CASE b.major = 0 /\ b.minor # 0
  <2>1. CaretBound(b) = [major |-> 0, minor |-> Increment(b.minor), patch |-> 0]
    BY <1>6 DEF CaretBound
  <2> QED BY <1>2, <1>4, <1>6, <2>1, <1>1 DEF AtLeast, CaretMeans, Increment
<1>7. CASE b.major = 0 /\ b.minor = 0
  <2>1. CaretBound(b) = [major |-> 0, minor |-> 0, patch |-> Increment(b.patch)]
    BY <1>7 DEF CaretBound
  <2> QED BY <1>2, <1>4, <1>7, <2>1, <1>1 DEF AtLeast, CaretMeans, Increment
<1> QED BY <1>5, <1>6, <1>7

LEMMA AdmitsMeaning ==
    ASSUME NEW con \in Constraint, NEW c \in Semver
    PROVE  Admits(con, c) <=> Means(con, c)
<1> DEFINE b == SemverOf(con.parts)
<1>1. con.parts \in Parts /\ con.operator \in Operator
  BY DEF Constraint
<1>2. Len(con.parts) \in Nat /\ Len(con.parts) >= 1 /\ b.major = con.parts[1]
  BY <1>1 DEF Parts, SemverOf
<1>3. Numeric(con.parts) => b \in Semver
  BY <1>1, SemverTyping
<1>4. c \in Triple /\ (b \in Semver => b \in Triple)
  BY MaxIntAssumption DEF Semver, Number, Triple
<1>5. CASE con.operator = "any"
  BY <1>5 DEF Admits, Means
<1>6. CASE con.operator = "caret"
  <2>1. IsPartial(con.parts) => (InCaret(c, b) <=> CaretMeans(c, b))
    BY <1>3, CaretMeaning DEF IsPartial
  <2> QED BY <1>6, <2>1 DEF Admits, Means
<1>7. CASE con.operator = "tilde"
  <2>1. IsPartial(con.parts) =>
          (InTilde(c, b) <=> AtLeast(c, b) /\ c.major = b.major /\ c.minor = b.minor)
    BY <1>3, <1>4, CompareMeaning DEF IsPartial, InTilde
  <2> QED BY <1>7, <2>1 DEF Admits, Means
<1>8. CASE con.operator = "wild"
  BY <1>8, <1>2 DEF Admits, Means
<1>9. CASE con.operator = "exact"
  <2>1. Len(con.parts) = 3 /\ Numeric(con.parts) => (compareSemver(c, b) = 0 <=> c = b)
    BY <1>3, <1>4, CompareMeaning
  <2>2. Len(con.parts) = 3 /\ c = b => Numeric(con.parts)
    <3>1. ASSUME Len(con.parts) = 3, c = b
          PROVE  \A k \in DOMAIN con.parts : con.parts[k] # Bad
      <4>1. DOMAIN con.parts = 1 .. 3
        BY <1>1, <3>1 DEF Parts
      <4>2. b = [major |-> con.parts[1], minor |-> con.parts[2], patch |-> con.parts[3]]
        BY <3>1 DEF SemverOf
      <4>3. con.parts[1] \in Number /\ con.parts[2] \in Number /\ con.parts[3] \in Number
        BY <3>1, <4>2 DEF Semver
      <4> QED BY <4>1, <4>3, MaxIntAssumption DEF Number, Bad
    <3> QED BY <3>1 DEF Numeric
  <2> QED BY <1>9, <2>1, <2>2 DEF Admits, Means
<1> QED BY <1>1, <1>5, <1>6, <1>7, <1>8, <1>9 DEF Operator

(***************************************************************************)
(* The loop and the sort.                                                  *)
(***************************************************************************)
Candidate == {e \in Entry : IsSemver(e.version)}

(* The sort comes after the loop.                                          *)
SortedAtEnd == sorted => next = Len(catalog) + 1

IInv == TypeOK /\ KeptAsMeant /\ SortedAtEnd /\ Ascending

LEMMA CatalogTyping == ASSUME TypeOK PROVE catalog \in Seq(Entry)
BY CandidatesAssumption DEF TypeOK

LEMMA KeepsMeaning ==
    ASSUME TypeOK, NEW e \in Entry
    PROVE  Keeps(e) <=> Wanted(e)
<1>1. constraint \in Constraint
  BY CandidatesAssumption DEF TypeOK
<1>2. e.version.parts \in Parts
  BY DEF Entry, Version
<1>3. IsSemver(e.version) => SemverOf(e.version.parts) \in Semver
  BY <1>2, SemverTyping DEF IsSemver
<1>4. IsSemver(e.version) =>
        (Admits(constraint, SemverOf(e.version.parts)) <=> Means(constraint, SemverOf(e.version.parts)))
  BY <1>1, <1>3, AdmitsMeaning
<1> QED BY <1>4 DEF Keeps, satisfies, Wanted

(* A sorted arrangement holds the same candidates as what was sorted.      *)
LEMMA SameMembers ==
    ASSUME NEW S, NEW s \in Seq(S), NEW t \in Arrangements(s)
    PROVE  /\ t \in Seq(S)
           /\ DOMAIN t = DOMAIN s
           /\ \A j \in DOMAIN t : \E k \in DOMAIN s : t[j] = s[k]
           /\ \A k \in DOMAIN s : \E j \in DOMAIN t : t[j] = s[k]
<1>1. PICK p \in Bijection(DOMAIN s, DOMAIN s) : t = [k \in DOMAIN s |-> s[p[k]]]
  BY DEF Arrangements
<1>2. /\ p \in [DOMAIN s -> DOMAIN s]
      /\ \A k \in DOMAIN s : \E j \in DOMAIN s : p[j] = k
  BY <1>1 DEF Bijection, Surjection
<1>3. /\ DOMAIN s = 1 .. Len(s) /\ Len(s) \in Nat
      /\ \A k \in DOMAIN s : s[k] \in S
  OBVIOUS
<1>4. t \in [1 .. Len(s) -> S]
  BY <1>1, <1>2, <1>3
<1>5. t \in Seq(S)
  BY <1>3, <1>4
<1>6. DOMAIN t = DOMAIN s /\ \A j \in DOMAIN s : t[j] = s[p[j]]
  BY <1>1
<1>7. \A j \in DOMAIN t : \E k \in DOMAIN s : t[j] = s[k]
  BY <1>2, <1>6
<1>8. \A k \in DOMAIN s : \E j \in DOMAIN t : t[j] = s[k]
  BY <1>2, <1>6
<1> QED BY <1>5, <1>6, <1>7, <1>8

LEMMA ConsiderStep ==
    ASSUME IInv, Consider
    PROVE  IInv'
<1> USE DEF IInv
<1>1. catalog \in Seq(Entry) /\ catalog' = catalog /\ next \in 1 .. Len(catalog)
      /\ next' = next + 1 /\ constraint' = constraint /\ pin' = pin /\ sorted' = sorted
  BY CatalogTyping DEF Consider, TypeOK
<1>2. catalog[next] \in Entry
  BY <1>1
<1>3. Keeps(catalog[next]) <=> Wanted(catalog[next])
  BY <1>2, KeepsMeaning
<1>4. Wanted(catalog[next]) => catalog[next] \in Candidate
  BY <1>2 DEF Wanted, Candidate
<1>5. kept \in Seq(Candidate)
  BY DEF TypeOK, Candidate
<1>6. ~ sorted
  BY <1>1 DEF SortedAtEnd
<1>7. kept' = IF Wanted(catalog[next]) THEN Append(kept, catalog[next]) ELSE kept
  BY <1>3 DEF Consider
<1>8. kept' \in Seq(Candidate)
  BY <1>4, <1>5, <1>7
<1>9. TypeOK'
  BY <1>1, <1>8 DEF TypeOK, Candidate
<1>10. \A e : Wanted(e)' <=> Wanted(e)
  BY <1>1 DEF Wanted
<1>11. /\ \A k \in 1 .. next - 1 : Wanted(catalog[k]) => \E j \in DOMAIN kept : kept[j] = catalog[k]
       /\ \A j \in DOMAIN kept :
             \E k \in 1 .. next - 1 : kept[j] = catalog[k] /\ Wanted(catalog[k])
  BY DEF KeptAsMeant
<1>12. CASE Wanted(catalog[next])
  <2>1. /\ DOMAIN kept = 1 .. Len(kept) /\ Len(kept) \in Nat
        /\ DOMAIN kept' = 1 .. Len(kept) + 1
        /\ \A j \in DOMAIN kept : kept'[j] = kept[j]
        /\ kept'[Len(kept) + 1] = catalog[next]
    BY <1>4, <1>5, <1>7, <1>12
  <2>2. \A k \in 1 .. next : Wanted(catalog[k]) => \E j \in DOMAIN kept' : kept'[j] = catalog[k]
    <3>1. \A k \in 1 .. next - 1 : Wanted(catalog[k]) => \E j \in DOMAIN kept' : kept'[j] = catalog[k]
      BY <1>11, <2>1
    <3>2. \E j \in DOMAIN kept' : kept'[j] = catalog[next]
      BY <2>1
    <3> QED BY <1>1, <3>1, <3>2
  <2>3. \A j \in DOMAIN kept' : \E k \in 1 .. next : kept'[j] = catalog[k] /\ Wanted(catalog[k])
    <3>1. \A j \in DOMAIN kept : \E k \in 1 .. next : kept'[j] = catalog[k] /\ Wanted(catalog[k])
      <4>1. \A k \in 1 .. next - 1 : k \in 1 .. next
        BY <1>1
      <4>2. \A j \in DOMAIN kept :
               \E k \in 1 .. next - 1 : kept'[j] = catalog[k] /\ Wanted(catalog[k])
        BY <1>11, <2>1
      <4> QED BY <4>1, <4>2
    <3>2. \E k \in 1 .. next : kept'[Len(kept) + 1] = catalog[k] /\ Wanted(catalog[k])
      BY <1>1, <1>12, <2>1
    <3> QED BY <2>1, <3>1, <3>2
  <2>4. next' - 1 = next
    BY <1>1
  <2> QED BY <1>1, <1>6, <1>9, <1>10, <2>2, <2>3, <2>4 DEF KeptAsMeant, SortedAtEnd, Ascending
<1>13. CASE ~ Wanted(catalog[next])
  <2>1. kept' = kept /\ next' - 1 = next
    BY <1>1, <1>7, <1>13
  <2>2. \A k \in 1 .. next : Wanted(catalog[k]) => \E j \in DOMAIN kept : kept[j] = catalog[k]
    BY <1>1, <1>11, <1>13
  <2>3. \A j \in DOMAIN kept : \E k \in 1 .. next : kept[j] = catalog[k] /\ Wanted(catalog[k])
    BY <1>1, <1>11
  <2> QED BY <1>1, <1>6, <1>9, <1>10, <2>1, <2>2, <2>3 DEF KeptAsMeant, SortedAtEnd, Ascending
<1> QED BY <1>12, <1>13

LEMMA SortStep ==
    ASSUME IInv, Sort
    PROVE  IInv'
<1> USE DEF IInv
<1>1. /\ next = Len(catalog) + 1 /\ sorted' = TRUE
      /\ catalog' = catalog /\ constraint' = constraint /\ pin' = pin /\ next' = next
  BY DEF Sort
<1>2. /\ kept' \in Arrangements(kept)
      /\ \A j, k \in DOMAIN kept' : j < k => ~ Less(kept'[k], kept'[j])
  BY DEF Sort
<1>3. kept \in Seq(Candidate)
  BY DEF TypeOK, Candidate
<1>4. /\ kept' \in Seq(Candidate)
      /\ \A j \in DOMAIN kept' : \E k \in DOMAIN kept : kept'[j] = kept[k]
      /\ \A k \in DOMAIN kept : \E j \in DOMAIN kept' : kept'[j] = kept[k]
  BY <1>2, <1>3, SameMembers
<1>5. TypeOK' /\ SortedAtEnd'
  BY <1>1, <1>4 DEF TypeOK, Candidate, SortedAtEnd
<1>6. \A e : Wanted(e)' <=> Wanted(e)
  BY <1>1 DEF Wanted
<1>7. KeptAsMeant'
  <2>1. \A k \in 1 .. next - 1 : Wanted(catalog[k]) => \E j \in DOMAIN kept' : kept'[j] = catalog[k]
    <3>1. SUFFICES ASSUME NEW k \in 1 .. next - 1, Wanted(catalog[k])
                   PROVE  \E j \in DOMAIN kept' : kept'[j] = catalog[k]
      OBVIOUS
    <3>2. PICK i \in DOMAIN kept : kept[i] = catalog[k]
      BY <3>1 DEF KeptAsMeant
    <3>3. \E j \in DOMAIN kept' : kept'[j] = kept[i]
      BY <1>4
    <3> QED BY <3>2, <3>3
  <2>2. \A j \in DOMAIN kept' : \E k \in 1 .. next - 1 : kept'[j] = catalog[k] /\ Wanted(catalog[k])
    <3>1. \A i \in DOMAIN kept : \E k \in 1 .. next - 1 : kept[i] = catalog[k] /\ Wanted(catalog[k])
      BY DEF KeptAsMeant
    <3> QED BY <1>4, <3>1
  <2> QED BY <1>1, <1>6, <2>1, <2>2 DEF KeptAsMeant
<1>8. ASSUME NEW j \in DOMAIN kept', NEW k \in DOMAIN kept', j < k
      PROVE  LET low == SemverOf(kept'[j].version.parts)
                 high == SemverOf(kept'[k].version.parts)
             IN  AtLeast(high, low) /\ (low = high => kept'[j].digest <= kept'[k].digest)
  <2> DEFINE low == SemverOf(kept'[j].version.parts)
             high == SemverOf(kept'[k].version.parts)
  <2>1. kept'[j] \in Candidate /\ kept'[k] \in Candidate
    BY <1>4
  <2>2. low \in Semver /\ high \in Semver
    BY <2>1, SemverTyping DEF Candidate, Entry, Version, IsSemver
  <2>3. low \in Triple /\ high \in Triple
    BY <2>2, MaxIntAssumption DEF Semver, Number, Triple
  <2>4. /\ compareSemver(high, low) >= 0
        /\ compareSemver(high, low) = 0 => ~ (kept'[k].digest < kept'[j].digest)
    <3> DEFINE order == compareSemver(high, low)
    <3>1. ~ IF order # 0 THEN order < 0 ELSE kept'[k].digest < kept'[j].digest
      BY <1>2, <1>8 DEF Less
    <3>2. order \in {-1, 0, 1}
      BY <2>3, CompareMeaning
    <3> HIDE DEF order
    <3>3. order >= 0 /\ (order = 0 => ~ (kept'[k].digest < kept'[j].digest))
      BY <3>1, <3>2
    <3> QED BY <3>3 DEF order
  <2>5. kept'[j].digest \in Nat /\ kept'[k].digest \in Nat
    BY <2>1 DEF Candidate, Entry
  <2> HIDE DEF low, high
  <2>6. AtLeast(high, low)
    BY <2>3, <2>4, CompareMeaning
  <2>7. low = high => kept'[j].digest <= kept'[k].digest
    BY <2>3, <2>4, <2>5, CompareMeaning
  <2> QED BY <2>6, <2>7 DEF low, high
<1>9. Ascending'
  BY <1>8 DEF Ascending
<1> QED BY <1>5, <1>7, <1>9

(* The candidates are the entries the constraint means, in ascending       *)
(* order: the inductive invariant behind the three theorems below.         *)
THEOREM Invariance == Spec => []IInv
<1>1. Init => IInv
  <2> SUFFICES ASSUME Init PROVE IInv
    OBVIOUS
  <2>1. catalog \in Seq(Entry) /\ next = 1 /\ kept = << >> /\ ~ sorted /\ sorted = FALSE
    BY CandidatesAssumption DEF Init
  <2>2. Len(catalog) \in Nat /\ << >> \in Seq(Candidate)
    BY <2>1
  <2>3. TypeOK
    <3>1. next \in 1 .. Len(catalog) + 1
      BY <2>1, <2>2
    <3>2. kept \in Seq(Candidate)
      BY <2>1, <2>2
    <3>3. catalog \in Catalogs /\ constraint \in Constraints /\ pin \in Pins \cup {None}
      BY DEF Init
    <3> QED BY <2>1, <3>1, <3>2, <3>3 DEF TypeOK, Candidate
  <2>4. KeptAsMeant
    BY <2>1 DEF KeptAsMeant
  <2> QED BY <2>1, <2>3, <2>4 DEF IInv, SortedAtEnd, Ascending
<1>2. IInv /\ [Next]_vars => IInv'
  <2> SUFFICES ASSUME IInv, [Next]_vars PROVE IInv'
    OBVIOUS
  <2>1. CASE Consider
    BY <2>1, ConsiderStep
  <2>2. CASE Sort
    BY <2>2, SortStep
  <2>3. CASE UNCHANGED vars
    BY <2>3 DEF vars, IInv, TypeOK, KeptAsMeant, Wanted, SortedAtEnd, Ascending
  <2> QED BY <2>1, <2>2, <2>3 DEF Next
<1> QED BY <1>1, <1>2, PTL DEF Spec

(* Every candidate's version parses, so sort.Slice compares versions and   *)
(* never falls back on digests alone.                                      *)
THEOREM Typing == Spec => []TypeOK
<1>1. IInv => TypeOK
  BY DEF IInv
<1> QED BY <1>1, Invariance, PTL

(* The filter keeps what the constraints mean, at every width of an int.   *)
THEOREM Filtering == Spec => []KeptAsMeant
<1>1. IInv => KeptAsMeant
  BY DEF IInv
<1> QED BY <1>1, Invariance, PTL

(* The sorted candidates ascend by version, then digest.                   *)
THEOREM Ordering == Spec => []Ascending
<1>1. IInv => Ascending
  BY DEF IInv
<1> QED BY <1>1, Invariance, PTL
===============================================================================
