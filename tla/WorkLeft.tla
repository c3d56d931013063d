------------------------------- MODULE WorkLeft -------------------------------
(***************************************************************************)
(* What a terminating program has still to do: a list of sets, weightiest  *)
(* first.  With n finite sets no list can grow less forever.               *)
(***************************************************************************)
EXTENDS Naturals

Due(condition) == IF condition THEN {"due"} ELSE {}

(* Something is done, and nothing is added but what weighs less.           *)
LessRemains(after, before) ==
    \E k \in DOMAIN before :
        /\ after[k] \subseteq before[k] /\ after[k] # before[k]
        /\ \A j \in 1 .. k - 1 : after[j] = before[j]
===============================================================================
