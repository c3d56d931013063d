--------------------------- MODULE MCOutputDirectory ---------------------------
(***************************************************************************)
(* Two commands, over what an earlier v1 command with --execute left and   *)
(* of which the Go artifact was removed, with artifacts of both versions   *)
(* that are CLOSED or not.                                                 *)
(***************************************************************************)
EXTENDS OutputDirectory

Made(id, version, status) == [id |-> id, version |-> version, status |-> status]

Old == Made(0, "v1", "CLOSED")
MCArtifacts == {Old, Made(1, "v1", "REFUTED"), Made(2, "v2", "CLOSED")}

Left == [f \in File |-> IF f = Execution
                        THEN [artifact |-> Old, output |-> Old, status |-> Closed]
                        ELSE IF f \in Range(V1Files) \ {GoArtifact} THEN Old ELSE None]
MCDisks == {Left}
===============================================================================
