-------------------------- MODULE MCSnapshotCache --------------------------
(* A small instance of SnapshotCache: an account, a storage item and a      *)
(* contract.                                                                *)
EXTENDS SnapshotCache

CONSTANTS account, storage, contract, empty, v1

\* Three columns.
Copied == [k \in {account, storage, contract} |->
    CASE k = account -> "ignored" [] k = storage -> "copies" [] k = contract -> "missing"]
EmptyAccount == [k \in {account, storage, contract} |-> IF k = account THEN {empty} ELSE {}]
Columns == [k \in {account, storage, contract} |->
    CASE k = account -> 1 [] k = storage -> 3 [] k = contract -> 2]
=============================================================================
