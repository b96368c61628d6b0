------------------------------- MODULE Merkle -------------------------------
(***************************************************************************)
(* The Merkle tree of ulpf/integrity/merkle.py as pure operators, over a   *)
(* free hash: a parent hash is the pair of its children's hashes, so two   *)
(* hashes are equal only if they were built the same way.  Indices are     *)
(* 0-based as in the code, sequences 1-based.                              *)
(*                                                                         *)
(* The state is a batch of leaves growing as IntegrityStage collects it;   *)
(* the invariants compare root, proof and verification with a reference    *)
(* definition of the tree on every batch that can arise.                   *)
(***************************************************************************)
EXTENDS Integers, Sequences

CONSTANTS
    Digests,    \* the raw_hash values that occur; two identical log lines share one
    MaxLeaves   \* bound: leaves in a batch

ASSUME MerkleAssumption == MaxLeaves \in Nat

VARIABLE leaves

merkleVars == <<leaves>>

leaf_hash(d)        == <<"leaf", d>>
_hash_pair(l, r)    == <<"node", l, r>>
EmptyRoot           == <<"empty">>

-----------------------------------------------------------------------------
(* merkle_root.                                                            *)

\* Mutant: a lone last node is promoted instead of paired with itself.
PairPromoted(level, i) ==
    IF 2 * i > Len(level) THEN level[2 * i - 1]
    ELSE _hash_pair(level[2 * i - 1], level[2 * i])

\* The i-th pair of a level; a lone last node is paired with itself.
Pair(level, i) ==
    _hash_pair(level[2 * i - 1], IF 2 * i > Len(level) THEN level[Len(level)] ELSE level[2 * i])

_hash_level(level) == [i \in 1..((Len(level) + 1) \div 2) |-> Pair(level, i)]

RECURSIVE TopOf(_)
TopOf(level) == IF Len(level) = 1 THEN level[1] ELSE TopOf(_hash_level(level))

merkle_root(ls) == IF ls = <<>> THEN EmptyRoot ELSE TopOf(ls)

-----------------------------------------------------------------------------
(* merkle_proof and verify_proof.                                          *)

Side(idx) == IF idx % 2 = 0 THEN "right" ELSE "left"

\* level[idx ^ 1] after an odd level has been completed with its last node.
Sibling(level, idx) ==
    LET s == IF idx % 2 = 0 THEN idx + 1 ELSE idx - 1
    IN  IF s >= Len(level) THEN level[Len(level)] ELSE level[s + 1]

RECURSIVE PathFrom(_, _)
PathFrom(level, idx) ==
    IF Len(level) = 1 THEN <<>>
    ELSE <<[hash |-> Sibling(level, idx), side |-> Side(idx)]>>
            \o PathFrom(_hash_level(level), idx \div 2)

merkle_proof(ls, index) == PathFrom(ls, index)

RECURSIVE Climb(_, _)
Climb(h, proof) ==
    IF proof = <<>> THEN h
    ELSE LET step == Head(proof)
             up   == IF step.side = "left" THEN _hash_pair(step.hash, h)
                                           ELSE _hash_pair(h, step.hash)
         IN  Climb(up, Tail(proof))

verify_proof(leaf, proof, root) == Climb(leaf, proof) = root

-----------------------------------------------------------------------------
(* A batch growing.                                                        *)

MerkleInit == leaves = <<>>

Add(d) ==
    /\ Len(leaves) < MaxLeaves
    /\ leaves' = Append(leaves, leaf_hash(d))

MerkleNext == \E d \in Digests : Add(d)

-----------------------------------------------------------------------------
(* The reference: node j of height h, from the top down.                   *)

RECURSIVE Width(_, _)
Width(n, h) == IF h = 0 THEN n ELSE (Width(n, h - 1) + 1) \div 2

RECURSIVE Node(_, _, _)
Node(ls, h, j) ==
    IF h = 0 THEN ls[j + 1]
    ELSE LET last  == Width(Len(ls), h - 1) - 1
             right == IF 2 * j + 1 > last THEN last ELSE 2 * j + 1
         IN  _hash_pair(Node(ls, h - 1, 2 * j), Node(ls, h - 1, right))

Height(ls) == CHOOSE h \in 0..Len(ls) :
    Width(Len(ls), h) = 1 /\ \A k \in 0..(h - 1) : Width(Len(ls), k) > 1

Indices == 0..(Len(leaves) - 1)

\* merkle_root's loop over levels computes the root of the tree its docstring
\* describes, for every batch length, the odd levels included.
RootIsTreeRoot ==
    leaves # <<>> => merkle_root(leaves) = Node(leaves, Height(leaves), 0)

\* Every leaf's path verifies against the batch root and is as long as the tree
\* is high: the O(log n) promise and the completeness of proofs.
EveryLeafProves ==
    \A i \in Indices :
        LET proof == merkle_proof(leaves, i) IN
        /\ verify_proof(leaves[i + 1], proof, merkle_root(leaves))
        /\ Len(proof) = Height(leaves)

\* A leaf that is not the batch's i-th does not verify with the i-th path.
ForeignLeafRejected ==
    \A i \in Indices, d \in Digests :
        leaf_hash(d) # leaves[i + 1] =>
            ~verify_proof(leaf_hash(d), merkle_proof(leaves, i), merkle_root(leaves))

\* Altering one leaf, wherever it is, changes the root.
AlteredLeafChangesRoot ==
    \A i \in Indices, d \in Digests :
        leaf_hash(d) # leaves[i + 1] =>
            merkle_root([leaves EXCEPT ![i + 1] = leaf_hash(d)]) # merkle_root(leaves)

\* ledger.py: "altering, inserting, or dropping a single event changes its batch's Merkle
\* root".  So it does, but for one case: a lone last node is paired with itself, and a
\* batch that ends in a repeated leaf may be short of one of them.
DroppedLeafChangesRoot ==
    \A i \in Indices :
        LET rest == SubSeq(leaves, 1, i) \o SubSeq(leaves, i + 2, Len(leaves))
        IN merkle_root(rest) = merkle_root(leaves) =>
               Len(leaves) > 1 /\ leaves[Len(leaves)] = leaves[Len(leaves) - 1]

\* The root commits to the batch and the paths prove it: the loop is the tree, every leaf
\* proves, no other does, and altering or dropping a leaf shows.
RootCommits == RootIsTreeRoot /\ EveryLeafProves /\ ForeignLeafRejected /\ AlteredLeafChangesRoot /\ DroppedLeafChangesRoot
=============================================================================
