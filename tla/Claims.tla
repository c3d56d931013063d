-------------------------------- MODULE Claims --------------------------------
(***************************************************************************)
(* The claims both resolvers collect while they walk an import graph, and  *)
(* the one claim a resolution ends with (types.go, finalClaim of           *)
(* resolve.go).  A claim keeps its state, its reason and the package it    *)
(* names; the wording of stage, step, class and next operation is left     *)
(* out, except that "stage/step/reason" orders the claims of one state:    *)
(* the order is the table rank, from reasons to naturals, that a resolver  *)
(* passes in.                                                              *)
(***************************************************************************)
EXTENDS Naturals, Sequences

Refuted == "REFUTED"
Unknown == "UNKNOWN"
Closed  == "CLOSED"

refutedClaim(reason, pkg) == [state |-> Refuted, reason |-> reason, on |-> pkg]
unknownClaim(reason, pkg) == [state |-> Unknown, reason |-> reason, on |-> pkg]
closedClaim == [state |-> Closed, reason |-> "SEMANTIC_SIGNATURES_VERIFIED"]

(* Resolve returned an error instead of a resolution.                      *)
errorClaim == [state |-> "ERROR"]

(* The claims that can stand among the decisions of a resolution.          *)
ClaimSet(Reason, Package) == [state : {Refuted, Unknown}, reason : Reason, on : Package]

(* REFUTED comes before UNKNOWN; within a state, the order of the texts.   *)
StateRank(c) == IF c.state = Refuted THEN 0 ELSE IF c.state = Unknown THEN 1 ELSE 2

Precedes(rank, c, d) ==
    \/ StateRank(c) < StateRank(d)
    \/ StateRank(c) = StateRank(d) /\ rank[c.reason] < rank[d.reason]

(* claim is what finalClaim returns for decisions: a stable sort puts the  *)
(* earliest of the least claims first; no decision at all is CLOSED.       *)
finalClaim(rank, decisions, claim) ==
    IF decisions = << >>
    THEN claim = closedClaim
    ELSE \E k \in DOMAIN decisions :
            /\ claim = decisions[k]
            /\ \A j \in DOMAIN decisions :
                  /\ ~ Precedes(rank, decisions[j], decisions[k])
                  /\ j < k => Precedes(rank, decisions[k], decisions[j])
===============================================================================
