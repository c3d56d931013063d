-------------------------------- MODULE Semver --------------------------------
(***************************************************************************)
(* Versions and constraints (semver.go).  A text is read up to what the    *)
(* code tells apart: the number of leading "v" and the parts between dots, *)
(* each the number strconv.Atoi makes of it, or Bad when it is not one, is *)
(* too large or is negative.  Values in a source hold no blanks.           *)
(***************************************************************************)
EXTENDS Integers, Sequences

CONSTANT MaxInt \* the greatest int

ASSUME MaxIntAssumption == MaxInt \in Nat

Number == 0 .. MaxInt
Bad    == -1

(* strings.Split returns at least one part, if only an empty one.          *)
Parts  == Seq(Number \cup {Bad}) \ {<< >>}
Version == [vees : Nat, parts : Parts]

Operator == {"any", "caret", "tilde", "wild", "exact"} \* * ^ ~ .x and none
Constraint == [vees : Nat, operator : Operator, parts : Parts]

Semver == [major : Number, minor : Number, patch : Number]

(* n + 1 in an int, which wraps around.                                    *)
Increment(n) == IF n = MaxInt THEN -MaxInt - 1 ELSE n + 1

Numeric(parts) == \A k \in DOMAIN parts : parts[k] # Bad

(* parseSemver: exactly three numbers, after at most one "v".              *)
IsSemver(version) == version.vees <= 1 /\ Len(version.parts) = 3 /\ Numeric(version.parts)

(* parsePartialVersion: one to three numbers.                              *)
IsPartial(parts) == Len(parts) <= 3 /\ Numeric(parts)

(* What both make of the parts: missing ones are zero.                     *)
SemverOf(parts) ==
    [major |-> parts[1],
     minor |-> IF Len(parts) >= 2 THEN parts[2] ELSE 0,
     patch |-> IF Len(parts) >= 3 THEN parts[3] ELSE 0]

compareSemver(left, right) ==
    IF left.major # right.major THEN IF left.major < right.major THEN -1 ELSE 1
    ELSE IF left.minor # right.minor THEN IF left.minor < right.minor THEN -1 ELSE 1
    ELSE IF left.patch < right.patch THEN -1
    ELSE IF left.patch > right.patch THEN 1
    ELSE 0

(* Slip: a zero major is taken like any other.                             *)
NextMajor(base) == [major |-> Increment(base.major), minor |-> 0, patch |-> 0]

(* The version that "^base" stays below.                                   *)
CaretBound(base) ==
    IF base.major # 0 THEN [major |-> Increment(base.major), minor |-> 0, patch |-> 0]
    ELSE IF base.minor # 0 THEN [major |-> 0, minor |-> Increment(base.minor), patch |-> 0]
    ELSE [major |-> 0, minor |-> 0, patch |-> Increment(base.patch)]

InCaret(candidate, base) ==
    /\ compareSemver(candidate, base) >= 0
    /\ compareSemver(candidate, CaretBound(base)) < 0

InTilde(candidate, base) ==
    /\ candidate.major = base.major /\ candidate.minor = base.minor
    /\ compareSemver(candidate, base) >= 0

(* What constraint says of a version that parses.  One "v" is trimmed off  *)
(* every constraint, and parseSemver trims another off an exact one.       *)
Admits(constraint, candidate) ==
    LET parts == constraint.parts
    IN  \/ constraint.operator = "any" /\ constraint.vees <= 1
        \/ /\ constraint.operator = "caret" /\ constraint.vees <= 1
           /\ IsPartial(parts) /\ InCaret(candidate, SemverOf(parts))
        \/ /\ constraint.operator = "tilde" /\ constraint.vees <= 1
           /\ IsPartial(parts) /\ InTilde(candidate, SemverOf(parts))
        \/ /\ constraint.operator = "wild" /\ constraint.vees <= 1
           /\ Len(parts) = 1 /\ candidate.major = parts[1]
        \/ /\ constraint.operator = "exact" /\ constraint.vees <= 2
           /\ Len(parts) = 3 /\ Numeric(parts)
           /\ compareSemver(candidate, SemverOf(parts)) = 0

(* Slip: "*" is looked at before the version is parsed.                    *)
AnyFirst(version, constraint) ==
    \/ constraint.operator = "any"
    \/ IsSemver(version) /\ Admits(constraint, SemverOf(version.parts))

satisfies(version, constraint) ==
    IsSemver(version) /\ Admits(constraint, SemverOf(version.parts))
===============================================================================
