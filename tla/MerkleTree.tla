----------------------------- MODULE MerkleTree -----------------------------
(***************************************************************************)
(* The Merkle tree over the hashes of a block's transactions               *)
(* (neo/Core/Cryptography/MerkleTree.py) and the hash it is built with.    *)
(*                                                                         *)
(* A node is a record: its hash, and its children as a sequence of two     *)
(* nodes, <<>> at a leaf.  When a level has an odd number of nodes the     *)
(* last parent has its left child as its right child too.  Only the root   *)
(* is ever asked for; the trimming of a tree is not used.                  *)
(***************************************************************************)
EXTENDS Naturals, Sequences, SequencesExt

(* The double SHA-256, outside this code: any function to 32 bytes does    *)
(* that has no collision among the inputs of an instance.  This one mixes  *)
(* the bytes from lo to hi, half by half, into a number below 65521.       *)
RECURSIVE Mixed(_, _, _)
Mixed(b, lo, hi) ==
    IF lo = hi THEN b[lo] + 1
    ELSE LET mid == (lo + hi) \div 2
         IN (251 * Mixed(b, lo, mid) + 8191 * Mixed(b, mid + 1, hi) + hi - lo) % 65521

Hash256(b) ==
    LET h == IF b = <<>> THEN 7 ELSE Mixed(b, 1, Len(b))
    IN [i \in 1..32 |-> IF i = 1 THEN h % 256
                        ELSE IF i = 2 THEN h \div 256 ELSE 200 + i]

MerkleTreeNode(hash) == [Hash |-> hash, Children |-> <<>>]

(* One level of the tree from the level below it. *)
Parents(nodes) ==
    [i \in 1..((Len(nodes) + 1) \div 2) |->
        LET left  == nodes[2 * i - 1]
            right == IF 2 * i > Len(nodes) THEN left ELSE nodes[2 * i]
        IN [Hash |-> Hash256(left.Hash \o right.Hash), Children |-> <<left, right>>]]

RECURSIVE Build(_)
Build(nodes) == IF Len(nodes) = 1 THEN nodes[1] ELSE Build(Parents(nodes))

MerkleTreeOf(hashes) == Build([i \in 1..Len(hashes) |-> MerkleTreeNode(hashes[i])])

ComputeRoot(hashes) ==
    IF Len(hashes) = 1 THEN hashes[1] ELSE MerkleTreeOf(hashes).Hash
=============================================================================
