--------------------------- MODULE MCSyncManager ---------------------------
(* Two peers of which one is behind, for SyncManager.                       *)
EXTENDS SyncManager

CONSTANTS n1, n2

OneBehind == [n \in {n1, n2} |-> IF n = n1 THEN 3 ELSE 2]
=============================================================================
