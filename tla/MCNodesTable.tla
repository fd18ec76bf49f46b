----------------------------- MODULE MCNodesTable -----------------------------
(* Small instances of NodesTable for TLC.  A page holds one repeater; one   *)
(* search finds three pages of them and the other one.                      *)
EXTENDS NodesTable

CONSTANTS t0, t1

BothTexts == {t0, t1}
Found == [t \in BothTexts |-> IF t = t0 THEN 3 ELSE 1]
=============================================================================
