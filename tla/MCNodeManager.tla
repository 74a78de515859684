---------------------------- MODULE MCNodeManager ----------------------------
(* A seed and an address heard of later, for NodeManager.                   *)
EXTENDS NodeManager

CONSTANTS a1, a2, a3, guest

TwoSeeds == <<a1, a2>>
=============================================================================
