----------------------------- MODULE MCCandidates -----------------------------
(***************************************************************************)
(* Every version and constraint with numbers up to MaxInt = 2, where the   *)
(* increment wraps around, well-formed and not, against single entries;    *)
(* and catalogs of three entries in every order, with pins and with        *)
(* entries that agree on version and digest, for the sort.                 *)
(***************************************************************************)
EXTENDS Candidates

MCParts == UNION {[1 .. n -> 0 .. 2] : n \in 1 .. 3}

Ver(vees, parts) == [vees |-> vees, parts |-> parts]
Ent(version, digest, text) == [version |-> version, digest |-> digest, text |-> text]
Con(vees, operator, parts) == [vees |-> vees, operator |-> operator, parts |-> parts]

Versions ==
    {Ver(0, parts) : parts \in MCParts}
    \cup {Ver(vees, <<1, 0, 2>>) : vees \in 1 .. 2}
    \cup {Ver(0, <<1, Bad, 0>>), Ver(0, <<0, 0, 1, 0>>)}

Pool == {Ent(Ver(0, <<1, 0, 0>>), 2, 1), Ent(Ver(1, <<1, 0, 0>>), 2, 2),
         Ent(Ver(0, <<1, 2, 0>>), 1, 1), Ent(Ver(0, <<1, 1, 1>>), 2, 1),
         Ent(Ver(0, <<1, 1, 1>>), 1, 1), Ent(Ver(0, <<0, 1, 1>>), 2, 1)}

MCCatalogs == {<<Ent(v, 1, 1)>> : v \in Versions} \cup Injection(1 .. 3, Pool)

Star(vees) == Con(vees, "any", <<Bad>>)
Operators == Operator \ {"any"}

MCConstraints ==
    {Con(0, operator, parts) : operator \in Operators, parts \in MCParts}
    \cup {Con(vees, operator, <<1>>) : operator \in Operators, vees \in 1 .. 2}
    \cup {Con(vees, "exact", <<1, 0, 2>>) : vees \in 1 .. 3}
    \cup {Con(0, operator, parts) :
            operator \in Operators, parts \in {<<Bad>>, <<1, Bad>>, <<1, 0, 0, 0>>}}
    \cup {Star(vees) : vees \in 0 .. 2}

MCPins == {1}
===============================================================================
