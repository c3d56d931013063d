------------------------------- MODULE LinkGraph -------------------------------
(***************************************************************************)
(* What a resolution promises, whichever resolver computes it: a graph of  *)
(* linked packages that grows from the consumer one link at a time and     *)
(* never closes a cycle, and one verdict in which REFUTED prevails over    *)
(* UNKNOWN and any flaw over CLOSED (docs/rfc-v1.md, "Resolution states";  *)
(* finalClaim).  Both resolvers are shown to implement it.                 *)
(***************************************************************************)
CONSTANTS Package, Root, None

VARIABLES
    linked,   \* packages in the graph
    links,    \* <<importer, package>> pairs
    flaws,    \* states of the claims found against the graph
    verdict   \* "CLOSED", "UNKNOWN", "REFUTED", "ERROR", or None so far

(* Every set of packages has a member without a link into the set.         *)
IsAcyclic(E) ==
    \A S \in SUBSET Package :
        S # {} => \E p \in S : \A q \in S : <<p, q>> \notin E

Init == linked = {} /\ links = {} /\ flaws = {} /\ verdict = None

Link(p, q) ==
    /\ verdict = None
    /\ p \in linked \cup {Root}
    /\ linked' = linked \cup {q}
    /\ links' = links \cup {<<p, q>>}
    /\ IsAcyclic(links')
    /\ UNCHANGED <<flaws, verdict>>

Flaw(state) ==
    /\ verdict = None
    /\ flaws' = flaws \cup {state}
    /\ UNCHANGED <<linked, links, verdict>>

Worst == IF "REFUTED" \in flaws THEN "REFUTED"
         ELSE IF "UNKNOWN" \in flaws THEN "UNKNOWN" ELSE "CLOSED"

Conclude ==
    /\ verdict = None
    /\ verdict' = Worst
    /\ UNCHANGED <<linked, links, flaws>>

(* The consumer itself was invalid: nothing was resolved.                  *)
Reject ==
    /\ verdict = None /\ linked = {} /\ flaws = {}
    /\ verdict' = "ERROR"
    /\ UNCHANGED <<linked, links, flaws>>

Next ==
    \/ \E p \in Package \cup {Root}, q \in Package : Link(p, q)
    \/ \E state \in {"REFUTED", "UNKNOWN"} : Flaw(state)
    \/ Conclude \/ Reject

Spec == Init /\ [][Next]_<<linked, links, flaws, verdict>>
===============================================================================
