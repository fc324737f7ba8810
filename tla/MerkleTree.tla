------------------------------ MODULE MerkleTree ------------------------------
(***************************************************************************)
(* The backend's Merkle tree (apps/backend/src/modules/merkle/             *)
(* merkle.tree.ts).  It keeps only the nodes over the leaves there are and *)
(* reads a constant of the level for every node to the right of them.      *)
(*                                                                         *)
(* The hash is a free constructor: two nodes are equal only when their     *)
(* children are.  A leaf is <<commitment>> and the zero leaf <<>>.         *)
(***************************************************************************)
EXTENDS Integers, Sequences

MerkleZero == <<>>

Leaf(commitment) == <<commitment>>

Hash(left, right) == <<left, right>>

Capacity(height) ==
    LET size[level \in 0 .. height] ==
          IF level = 0 THEN 1 ELSE 2 * size[level - 1]
    IN  size[height]

Zeros(height) ==
    LET zero[level \in 0 .. height] ==
          IF level = 0 THEN MerkleZero
          ELSE Hash(zero[level - 1], zero[level - 1])
    IN  zero

NodeAt(layer, index, zero) ==
    IF index < Len(layer) THEN layer[index + 1] ELSE zero

(* The layers of the tree, the leaves at level 0 (rebuild). *)
Layers(height, leaves) ==
    LET zeros == Zeros(height)
        layer[level \in 0 .. height] ==
          IF level = 0 THEN leaves
          ELSE LET below == layer[level - 1]
               IN  [parent \in 1 .. ((Len(below) + 1) \div 2) |->
                      Hash(below[2 * parent - 1],
                           NodeAt(below, 2 * parent - 1, zeros[level - 1]))]
    IN  layer

Root(height, leaves) ==
    NodeAt(Layers(height, leaves)[height], 0, Zeros(height)[height])

SiblingRight(index) == index + 1

(* currentIndex ^ 1 *)
Sibling(index) == IF index % 2 = 0 THEN index + 1 ELSE index - 1

(* currentIndex at each level, halved from one to the next. *)
Indexes(height, index) ==
    LET current[level \in 0 .. height] ==
          IF level = 0 THEN index ELSE current[level - 1] \div 2
    IN  current

PathToTheRoot(height, leaves, index) ==
    LET layers  == Layers(height, leaves)
        zeros   == Zeros(height)
        current == Indexes(height, index)
    IN  [level \in 1 .. height + 1 |->
           NodeAt(layers[level - 1], Sibling(current[level - 1]),
                  zeros[level - 1])]

(* The siblings from the leaf at index up to the root, index counting from *)
(* zero as it does on the chain.                                           *)
Path(height, leaves, index) ==
    LET layers  == Layers(height, leaves)
        zeros   == Zeros(height)
        current == Indexes(height, index)
    IN  [level \in 1 .. height |->
           NodeAt(layers[level - 1], Sibling(current[level - 1]),
                  zeros[level - 1])]

(* getProofByCommitments: of several leaves with one commitment the last.  *)
ProofOf(height, leaves, commitment) ==
    LET index == CHOOSE i \in 0 .. Len(leaves) - 1 :
                   /\ leaves[i + 1] = Leaf(commitment)
                   /\ \A j \in i + 1 .. Len(leaves) - 1 :
                        leaves[j + 1] # Leaf(commitment)
    IN  [index |-> index, path |-> Path(height, leaves, index)]

(* The root a leaf and its path lead to, as the circuit computes it. *)
Fold(leaf, index, path) ==
    LET current == Indexes(Len(path), index)
        node[level \in 0 .. Len(path)] ==
          IF level = 0 THEN leaf
          ELSE IF current[level - 1] % 2 = 0
               THEN Hash(node[level - 1], path[level])
               ELSE Hash(path[level], node[level - 1])
    IN  node[Len(path)]

(* The root as the program keeps it: over every leaf of a full tree. *)
FullRoot(height, leaves) ==
    LET node[level \in 0 .. height] ==
          [index \in 0 .. Capacity(height - level) - 1 |->
             IF level = 0 THEN NodeAt(leaves, index, MerkleZero)
             ELSE Hash(node[level - 1][2 * index], node[level - 1][2 * index + 1])]
    IN  node[height][0]

===============================================================================
