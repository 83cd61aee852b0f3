-------------------------------- MODULE Merkle --------------------------------
(***************************************************************************)
(* Merkle trees over a sequence of leaves, as the roll-up attestations and *)
(* the spine of the grid both build them: a level is paired up two by two, *)
(* an odd last node is paired with itself, and the root is the only node   *)
(* of the last level.  The two differ in how a pair is hashed, which is    *)
(* the parameter.  A hash is the value that was hashed.                    *)
(***************************************************************************)
EXTENDS Integers, Sequences

CONSTANT Pair(_, _)   \* the hash of a node over its two children

HalfUp(n) == (n + 1) \div 2

\* The node paired with node i of a level of n nodes: the other of its pair, or
\* the node itself when it dangles at the end.
Sibling(i, n) == IF i % 2 = 0 THEN i - 1 ELSE IF i < n THEN i + 1 ELSE i

Up(level) ==
  [i \in 1..HalfUp(Len(level)) |->
     Pair(level[2*i - 1], level[Sibling(2*i - 1, Len(level))])]

\* All levels, from the leaves (level 0) up; they stop changing in length at one
\* node, which is the root.
Levels(leaves) ==
  LET level[k \in 0..Len(leaves)] == IF k = 0 THEN leaves ELSE Up(level[k-1])
  IN  level

Height(leaves) ==
  LET level == Levels(leaves)
  IN  CHOOSE h \in DOMAIN level :
        Len(level[h]) = 1 /\ \A k \in 0..h-1 : Len(level[k]) > 1

Root(leaves) == Levels(leaves)[Height(leaves)][1]

\* Where the path of leaf i passes at every level.
Places(leaves, i) ==
  LET place[k \in 0..Height(leaves)] == IF k = 0 THEN i ELSE HalfUp(place[k-1])
  IN  place

\* The siblings on the path of leaf i to the root.
Path(leaves, i) ==
  LET level == Levels(leaves)
      place == Places(leaves, i)
  IN  [k \in 1..Height(leaves) |->
         level[k-1][Sibling(place[k-1], Len(level[k-1]))]]

=============================================================================
