--------------------------- MODULE SourceParser_proofs ---------------------------
(***************************************************************************)
(* Of the parser: what is parsed is what the text declares (AsDeclared,    *)
(* with ScanOK as what every step of the scan keeps), and declarations of  *)
(* different words change places (OrderFree, which is a fact about Declare *)
(* whatever the state).                                                    *)
(***************************************************************************)
EXTENDS SourceParser, FiniteSetTheorems, TLAPS

(* A sequence, whatever its items are.                                     *)
IsSeq(s) == s \in Seq(Range(s))

(* A sequence with an item appended.                                       *)
LEMMA AppendOne ==
    ASSUME NEW s, IsSeq(s), NEW e
    PROVE  /\ IsSeq(Append(s, e))
           /\ Len(s) \in Nat /\ DOMAIN s = 1 .. Len(s)
           /\ Len(Append(s, e)) = Len(s) + 1
           /\ DOMAIN Append(s, e) = 1 .. Len(s) + 1
           /\ Append(s, e)[Len(s) + 1] = e
           /\ \A k \in 1 .. Len(s) : Append(s, e)[k] = s[k]
<1>1. s \in Seq(Range(s) \cup {e})
  BY DEF IsSeq
<1>2. /\ Len(s) \in Nat /\ DOMAIN s = 1 .. Len(s)
      /\ Len(Append(s, e)) = Len(s) + 1
      /\ DOMAIN Append(s, e) = 1 .. Len(s) + 1
      /\ Append(s, e)[Len(s) + 1] = e
      /\ \A k \in 1 .. Len(s) : Append(s, e)[k] = s[k]
  BY <1>1
<1> DEFINE t == Append(s, e)
<1>3. t \in Seq(Range(s) \cup {e})
  BY <1>1
<1> HIDE DEF t
<1>4. /\ Len(t) \in Nat /\ DOMAIN t = 1 .. Len(t)
      /\ t = [k \in 1 .. Len(t) |-> t[k]]
  BY <1>3
<1>5. \A k \in 1 .. Len(t) : t[k] \in Range(t)
  BY <1>4 DEF Range
<1>6. t \in [1 .. Len(t) -> Range(t)]
  BY <1>4, <1>5
<1>7. t \in Seq(Range(t))
  BY <1>4, <1>6
<1> QED
  BY <1>2, <1>7 DEF IsSeq, t

(* The empty sequence.                                                     *)
LEMMA EmptyIsSeq == IsSeq(<< >>) /\ Len(<< >>) = 0
  BY DEF IsSeq

(* Whatever is at a place of a sequence of Texts.                          *)
LEMMA TextIsSeq ==
    ASSUME NEW t \in Texts PROVE Len(t) \in Nat /\ DOMAIN t = 1 .. Len(t)
  BY ParserAssumption
-------------------------------------------------------------------------------
(* Which case of ParseSource assigns to a field; Name has two.             *)
Owner ==
    [ Kind |-> "gooo", LanguageVersion |-> "gooo",
      ProofVector |-> "fixed_denominator", IndicatorVector |-> "fixed_denominator",
      FixedDenominator |-> "fixed_denominator", FixedCells |-> "fixed_denominator",
      FixedMetaActivities |-> "fixed_denominator", FixedClosed |-> "fixed_denominator",
      FixedUnknown |-> "fixed_denominator", FixedRefuted |-> "fixed_denominator",
      Precedence |-> "precedence", UnknownFields |-> "unknown_fields",
      MergeStrategy |-> "merge", CrossProjectRequiredGates |-> "gate",
      RepositoryIdentity |-> "repository", ImmutableReleaseID |-> "release",
      AnnotatedTagObject |-> "tag", AnnotatedTagTarget |-> "tag",
      AssetID |-> "asset", AssetDigest |-> "asset",
      SymbolSetDigest |-> "symbol_set", ExportedSymbolSetDigest |-> "symbol_set",
      ContractDigest |-> "contract", GoToolchainDigest |-> "toolchain",
      Version |-> "version", SemanticID |-> "semantic_id",
      PackageSemanticID |-> "semantic_id", Stage |-> "stage",
      Owner |-> "origin", OriginKind |-> "origin",
      Compatibility |-> "version_contract", Major |-> "version_contract",
      Minor |-> "version_contract", Patch |-> "version_contract",
      Digest |-> "immutable", Proof |-> "immutable", Adapter |-> "immutable",
      Strategy |-> "selection", VersionOrder |-> "selection",
      Registry |-> "selection", NoLatest |-> "selection" ]

(* Every field a word sets is that word's own, but for the name, which the *)
(* header and package both set.                                            *)
Owned(word, f) ==
    IF f = "Name" THEN word \in {"gooo", "package"} ELSE Owner[f] = word

LEMMA CopiesOwned ==
    ASSUME NEW word \in DOMAIN Copies, NEW f \in DOMAIN Copies[word]
    PROVE  Owned(word, f)
<1>1. CASE word \in {"fixed_denominator", "precedence", "unknown_fields", "merge", "repository"}
  BY <1>1 DEF Copies, Owned, Owner
<1>2. CASE word \in {"release", "tag", "asset", "symbol_set", "contract"}
  BY <1>2 DEF Copies, Owned, Owner
<1>3. CASE word \in {"toolchain", "package", "version", "semantic_id", "stage"}
  BY <1>3 DEF Copies, Owned, Owner
<1>4. CASE word \in {"origin", "version_contract", "immutable", "selection"}
  BY <1>4 DEF Copies, Owned, Owner
<1> QED
  BY <1>1, <1>2, <1>3, <1>4 DEF Copies

LEMMA CountsOwned ==
    ASSUME NEW word \in DOMAIN Counts, NEW f \in DOMAIN Counts[word]
    PROVE  Owned(word, f)
  BY DEF Counts, Owned, Owner

LEMMA SetsOwned ==
    ASSUME NEW line, NEW f \in DOMAIN Sets(line)
    PROVE  Owned(line.word, f)
<1>1. CASE line.word = "gooo"
  <2>1. f \in {"Kind", "Name", "LanguageVersion"}
    BY <1>1 DEF Sets
  <2> QED
    BY <1>1, <2>1 DEF Owned, Owner
<1>2. CASE line.word # "gooo"
  <2>1. \/ line.word \in DOMAIN Copies /\ f \in DOMAIN Copies[line.word]
        \/ line.word \in DOMAIN Counts /\ f \in DOMAIN Counts[line.word]
    BY <1>2 DEF Sets, Counted
  <2> QED
    BY <2>1, CopiesOwned, CountsOwned
<1> QED
  BY <1>1, <1>2

(* Declarations of different words, the header and package apart, set      *)
(* different fields ...                                                    *)
LEMMA SetsApart ==
    ASSUME NEW a, NEW b, a.word # b.word, {a.word, b.word} # {"gooo", "package"}
    PROVE  DOMAIN Sets(a) \cap DOMAIN Sets(b) = {}
  BY SetsOwned DEF Owned

(* ... so that it does not matter which comes first (the cases of          *)
(* ParseSource assign to disjoint parts of the source).                    *)
LEMMA DeclareCommutes ==
    ASSUME NEW s, NEW a, NEW b, a.word # b.word, {a.word, b.word} # {"gooo", "package"}
    PROVE  Declare(Declare(s, a), b) = Declare(Declare(s, b), a)
<1> DEFINE x == Sets(a)
           y == Sets(b)
<1>1. DOMAIN x \cap DOMAIN y = {}
  BY SetsApart
<1> HIDE DEF x, y
<1>2. Declare(Declare(s, a), b).field = Declare(Declare(s, b), a).field
  BY <1>1 DEF Declare, x, y
<1>3. Declare(Declare(s, a), b).rows = Declare(Declare(s, b), a).rows
  BY DEF Declare
<1> QED
  BY <1>2, <1>3 DEF Declare
-------------------------------------------------------------------------------
(* The parts of AsDeclared, of the first n lines of a text t and what they *)
(* make of a source s.                                                     *)
SourceOK(s) ==
    /\ DOMAIN s.field = Field /\ DOMAIN s.rows = Lists
    /\ \A l \in Lists : IsSeq(s.rows[l])

Setters(t, n, f) == {k \in 1 .. n : f \in DOMAIN Sets(t[k])}
LinesOf(t, n, word) == {k \in 1 .. n : t[k].word = word}
Place(t, n, k) == Cardinality({j \in LinesOf(t, n, t[k].word) : j <= k})

FieldAsSet(t, n, s, f) ==
    IF Setters(t, n, f) = {} THEN s.field[f] = EmptySource.field[f]
    ELSE \E k \in Setters(t, n, f) : /\ \A j \in Setters(t, n, f) : j <= k
                                     /\ s.field[f] = Sets(t[k])[f]
RowsAsListed(t, n, s, l) ==
    /\ Len(s.rows[l]) = Cardinality(LinesOf(t, n, l))
    /\ \A k \in LinesOf(t, n, l) : s.rows[l][Place(t, n, k)] = RowOf(t[k])

Declares(t, n, s) ==
    /\ \A k \in 1 .. n : WellFormed(t[k])
    /\ \A f \in Field : FieldAsSet(t, n, s, f)
    /\ \A l \in Lists : RowsAsListed(t, n, s, l)

LEMMA AsDeclaredSplit == AsDeclared <=> (text # None => Declares(text, at, source))
<1> DEFINE sets == [k \in 1 .. at |-> Sets(text[k])]
           setters(f) == {k \in 1 .. at : f \in DOMAIN sets[k]}
<1>1. \A f : setters(f) = Setters(text, at, f)
  BY DEF Setters
<1>2. \A f : \A k \in setters(f) : sets[k][f] = Sets(text[k])[f]
  BY DEF Setters
<1> HIDE DEF sets
<1>3. \A f \in Field : (IF setters(f) = {} THEN source.field[f] = EmptySource.field[f]
                        ELSE \E k \in setters(f) : /\ \A j \in setters(f) : j <= k
                                                   /\ source.field[f] = sets[k][f])
                       <=> FieldAsSet(text, at, source, f)
  BY <1>1, <1>2 DEF FieldAsSet
<1>4. \A l \in Lists :
         (/\ Len(source.rows[l]) = Cardinality({k \in 1 .. at : text[k].word = l})
          /\ \A k \in {i \in 1 .. at : text[i].word = l} :
                source.rows[l][Cardinality({j \in {i \in 1 .. at : text[i].word = text[k].word} : j <= k})]
                    = RowOf(text[k]))
         <=> RowsAsListed(text, at, source, l)
  BY DEF RowsAsListed, LinesOf, Place
<1> QED
  BY <1>3, <1>4 DEF AsDeclared, Declares, sets

(* Nothing is declared by no line.                                         *)
LEMMA NothingDeclared ==
    ASSUME NEW t PROVE SourceOK(EmptySource) /\ Declares(t, 0, EmptySource)
<1>1. SourceOK(EmptySource)
  BY EmptyIsSeq DEF SourceOK, EmptySource
<1>2. \A l \in Lists : Len(EmptySource.rows[l]) = 0 
  BY EmptyIsSeq DEF EmptySource
<1>3. \A x : Setters(t, 0, x) = {} /\ LinesOf(t, 0, x) = {}
  BY DEF Setters, LinesOf
<1>4. Cardinality({}) = 0
  BY FS_EmptySet
<1>5. \A f \in Field : FieldAsSet(t, 0, EmptySource, f)
  BY <1>3 DEF FieldAsSet
<1>6. \A l \in Lists : RowsAsListed(t, 0, EmptySource, l)
  BY <1>2, <1>3, <1>4 DEF RowsAsListed
<1>7. 1 .. 0 = {}
  OBVIOUS
<1> QED
  BY <1>1, <1>5, <1>6, <1>7 DEF Declares

(* One more line: the field it sets has its value from it ...              *)
LEMMA DeclaredField ==
    ASSUME NEW t, NEW n \in Nat, NEW s, NEW f \in Field, FieldAsSet(t, n, s, f)
    PROVE  FieldAsSet(t, n + 1, Declare(s, t[n + 1]), f)
<1> DEFINE new == Declare(s, t[n + 1]).field[f]
<1>1. CASE f \in DOMAIN Sets(t[n + 1])
  <2>1. new = Sets(t[n + 1])[f]
    BY <1>1 DEF Declare
  <2>2. n + 1 \in Setters(t, n + 1, f) /\ \A j \in Setters(t, n + 1, f) : j <= n + 1
    BY <1>1 DEF Setters
  <2> QED
    BY <2>1, <2>2 DEF FieldAsSet
<1>2. CASE f \notin DOMAIN Sets(t[n + 1])
  <2>1. new = s.field[f]
    BY <1>2 DEF Declare
  <2>2. Setters(t, n + 1, f) = Setters(t, n, f)
    BY <1>2 DEF Setters
  <2> QED
    BY <2>1, <2>2 DEF FieldAsSet
<1> QED
  BY <1>1, <1>2

(* ... and its row is at the end of the list of its word.                  *)
LEMMA LinesFinite ==
    ASSUME NEW t, NEW n \in Nat, NEW word, NEW k
    PROVE  /\ IsFiniteSet(LinesOf(t, n, word))
           /\ IsFiniteSet({j \in LinesOf(t, n, word) : j <= k})
<1>1. IsFiniteSet(1 .. n)
  BY FS_Interval
<1> QED
  BY <1>1, FS_Subset DEF LinesOf

LEMMA PlaceInList ==
    ASSUME NEW t, NEW n \in Nat, NEW l, NEW k \in LinesOf(t, n, l)
    PROVE  Place(t, n, k) \in 1 .. Cardinality(LinesOf(t, n, l))
<1> DEFINE upto == {j \in LinesOf(t, n, l) : j <= k}
<1>1. k \in upto /\ upto \subseteq LinesOf(t, n, l) /\ t[k].word = l
  BY DEF LinesOf
<1>2. IsFiniteSet(LinesOf(t, n, l)) /\ IsFiniteSet(upto)
  BY LinesFinite
<1>3. Cardinality(upto) \in Nat /\ Cardinality(upto) <= Cardinality(LinesOf(t, n, l))
  BY <1>1, <1>2, FS_Subset, FS_CardinalityType
<1>4. Cardinality(LinesOf(t, n, l)) \in Nat /\ Cardinality(upto) # 0
  BY <1>1, <1>2, FS_EmptySet, FS_CardinalityType
<1> QED
  BY <1>1, <1>3, <1>4 DEF Place

LEMMA DeclaredRows ==
    ASSUME NEW t, NEW n \in Nat, NEW s, SourceOK(s),
           NEW l \in Lists, RowsAsListed(t, n, s, l)
    PROVE  /\ RowsAsListed(t, n + 1, Declare(s, t[n + 1]), l)
           /\ IsSeq(Declare(s, t[n + 1]).rows[l])
<1> DEFINE line == t[n + 1]
           new == Declare(s, line).rows[l]
           old == s.rows[l]
<1>0. IsSeq(old) /\ Len(old) = Cardinality(LinesOf(t, n, l)) /\ IsFiniteSet(LinesOf(t, n, l))
  BY LinesFinite DEF SourceOK, RowsAsListed
<1>1. \A k \in 1 .. n : Place(t, n + 1, k) = Place(t, n, k)
  <2> TAKE k \in 1 .. n
  <2>1. {j \in LinesOf(t, n + 1, t[k].word) : j <= k} = {j \in LinesOf(t, n, t[k].word) : j <= k}
    BY DEF LinesOf
  <2> QED
    BY <2>1 DEF Place
<1>2. \A k \in LinesOf(t, n, l) : Place(t, n, k) \in 1 .. Len(old)
  BY <1>0, PlaceInList
<1>3. CASE line.word = l
  <2>1. new = Append(old, RowOf(line))
    BY <1>3 DEF Declare
  <2>2. LinesOf(t, n + 1, l) = LinesOf(t, n, l) \cup {n + 1} /\ n + 1 \notin LinesOf(t, n, l)
    BY <1>3 DEF LinesOf
  <2>3. Cardinality(LinesOf(t, n + 1, l)) = Len(old) + 1
    BY <1>0, <2>2, FS_AddElement
  <2>4. {j \in LinesOf(t, n + 1, l) : j <= n + 1} = LinesOf(t, n + 1, l)
    BY DEF LinesOf
  <2>5. Place(t, n + 1, n + 1) = Len(old) + 1
    BY <1>3, <2>3, <2>4 DEF Place
  <2>6. Len(new) = Cardinality(LinesOf(t, n + 1, l)) /\ IsSeq(new)
    <3>1. /\ IsSeq(Append(old, RowOf(line)))
          /\ Len(Append(old, RowOf(line))) = Len(old) + 1
      BY <1>0, AppendOne
    <3> QED
      BY <2>1, <2>3, <3>1
  <2>7. ASSUME NEW k \in LinesOf(t, n + 1, l)
        PROVE  new[Place(t, n + 1, k)] = RowOf(t[k])
    <3>1. CASE k = n + 1
      BY <1>0, <2>1, <2>5, <3>1, AppendOne
    <3>2. CASE k # n + 1
      <4>1. k \in LinesOf(t, n, l) /\ k \in 1 .. n
        BY <2>2, <3>2 DEF LinesOf
      <4>2. old[Place(t, n, k)] = RowOf(t[k])
        BY <4>1 DEF RowsAsListed
      <4> QED
        BY <1>0, <1>1, <1>2, <2>1, <4>1, <4>2, AppendOne
    <3> QED
      BY <3>1, <3>2
  <2> QED
    BY <2>6, <2>7 DEF RowsAsListed
<1>4. CASE line.word # l
  <2>1. new = old
    BY <1>4 DEF Declare
  <2>2. LinesOf(t, n + 1, l) = LinesOf(t, n, l) /\ LinesOf(t, n, l) \subseteq 1 .. n
    BY <1>4 DEF LinesOf
  <2> QED
    BY <1>0, <1>1, <2>1, <2>2 DEF RowsAsListed
<1> QED
  BY <1>3, <1>4

LEMMA DeclaredOne ==
    ASSUME NEW t, NEW n \in Nat, NEW s, SourceOK(s), Declares(t, n, s), WellFormed(t[n + 1])
    PROVE  SourceOK(Declare(s, t[n + 1])) /\ Declares(t, n + 1, Declare(s, t[n + 1]))
<1>1. \A l \in Lists : /\ RowsAsListed(t, n + 1, Declare(s, t[n + 1]), l)
                       /\ IsSeq(Declare(s, t[n + 1]).rows[l])
  BY DeclaredRows DEF Declares
<1>2. \A f \in Field : FieldAsSet(t, n + 1, Declare(s, t[n + 1]), f)
  BY DeclaredField DEF Declares
<1>3. \A k \in 1 .. n + 1 : WellFormed(t[k])
  BY DEF Declares
<1>4. DOMAIN Declare(s, t[n + 1]).field = Field /\ DOMAIN Declare(s, t[n + 1]).rows = Lists
  BY DEF Declare
<1> QED
  BY <1>1, <1>2, <1>3, <1>4 DEF Declares, SourceOK
-------------------------------------------------------------------------------
(* What every step of the scan keeps.                                      *)
ScanOK ==
    /\ text \in Texts \cup {None}
    /\ at \in Nat /\ SourceOK(source)
    /\ text # None => at <= Len(text) /\ Declares(text, at, source)
    /\ parsing \in {"idle", "lines", "parsed", "refused"}
    /\ parsing \in {"lines", "parsed"} => text # None
    /\ parsing = "parsed" => at = Len(text)

LEMMA ScanInit ==
    ASSUME ParserIdle, text \in Texts \cup {None} PROVE ScanOK
  BY NothingDeclared, TextIsSeq DEF ParserIdle, ScanOK

LEMMA ScanOpen ==
    ASSUME ScanOK, OpenText PROVE ScanOK'
<1>1. text' = text /\ at' = 0 /\ source' = EmptySource
  BY DEF OpenText
<1>2. SourceOK(source)' /\ Declares(text, at, source)'
  BY <1>1, NothingDeclared
<1> QED
  BY <1>1, <1>2, TextIsSeq DEF OpenText, ScanOK

LEMMA ScanStep ==
    ASSUME ScanOK, ParseStep PROVE ScanOK'
<1>1. CASE TakeLine
  <2>1. /\ text' = text /\ at' = at + 1 /\ source' = Declare(source, text[at + 1])
        /\ parsing' = "lines" /\ parsing = "lines" /\ WellFormed(text[at + 1]) /\ at < Len(text)
    BY <1>1 DEF TakeLine
  <2>2. text # None /\ at \in Nat /\ SourceOK(source) /\ Declares(text, at, source)
    BY <2>1 DEF ScanOK
  <2>3. SourceOK(source)' /\ Declares(text, at, source)'
    BY <2>1, <2>2, DeclaredOne
  <2>4. Len(text) \in Nat
    BY <2>2, TextIsSeq DEF ScanOK
  <2> QED
    BY <2>1, <2>2, <2>3, <2>4 DEF ScanOK
<1>2. CASE RefuseLine \/ EndOfText
  <2>1. /\ text' = text /\ at' = at /\ source' = source
        /\ \/ parsing' = "refused"
           \/ parsing' = "parsed" /\ parsing = "lines" /\ at = Len(text)
    BY <1>2 DEF RefuseLine, EndOfText
  <2> QED
    BY <2>1 DEF ScanOK
<1> QED
  BY <1>1, <1>2 DEF ParseStep

LEMMA ScanKept ==
    ASSUME ScanOK, UNCHANGED parser PROVE ScanOK'
  BY DEF ScanOK, parser

LEMMA ScanDeclares == ScanOK => AsDeclared /\ OrderFree
  BY AsDeclaredSplit, DeclareCommutes DEF ScanOK, OrderFree
===============================================================================
