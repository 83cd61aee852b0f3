---------------------------- MODULE MerkleProofs ----------------------------
(***************************************************************************)
(* What holds of every Merkle tree, whatever its leaves are and however a  *)
(* pair is hashed: the levels halve until one node is left, every node     *)
(* above the leaves is the hash of two nodes below it, and the path of a   *)
(* leaf, hashed from the leaf up, ends in the root.                        *)
(***************************************************************************)
EXTENDS Merkle, InductionProofs

\* A finite sequence, of whatever values.
IsSeq(s) == Len(s) \in Nat /\ DOMAIN s = 1..Len(s)

LEMMA FunctionIsSeq ==
  ASSUME NEW s, NEW n \in Nat, s = [i \in 1..n |-> s[i]]
  PROVE  IsSeq(s) /\ Len(s) = n
<1> DEFINE S == {s[i] : i \in 1..n}
<1>1. s \in [1..n -> S]
  OBVIOUS
<1>2. s \in Seq(S)
  BY <1>1
<1> QED BY <1>1, <1>2 DEF IsSeq

LEMMA HalfUpIs ==
  ASSUME NEW m \in Nat
  PROVE  HalfUp(m) \in Nat /\ (2 * HalfUp(m) = m \/ 2 * HalfUp(m) = m + 1)
BY DEF HalfUp

LEMMA UpIsSeq ==
  ASSUME NEW level, IsSeq(level)
  PROVE  /\ IsSeq(Up(level)) /\ Len(Up(level)) = HalfUp(Len(level))
         /\ \A i \in 1..HalfUp(Len(level)) :
              Up(level)[i] = Pair(level[2*i - 1], level[Sibling(2*i - 1, Len(level))])
<1>1. HalfUp(Len(level)) \in Nat
  BY DEF IsSeq, HalfUp
<1> QED BY <1>1, FunctionIsSeq DEF Up

\* The levels up to the n-th.
LevelsOn(g, leaves, n) == g = [k \in 0..n |-> IF k = 0 THEN leaves ELSE Up(g[k-1])]

LEMMA LevelsExist ==
  ASSUME NEW leaves
  PROVE  \A n \in Nat : \E g : LevelsOn(g, leaves, n)
<1> DEFINE P == {n \in Nat : \E g : LevelsOn(g, leaves, n)}
<1>1. 0 \in P
  <2>1. LevelsOn([k \in 0..0 |-> leaves], leaves, 0)
    BY DEF LevelsOn
  <2> QED BY <2>1
<1>2. ASSUME NEW n \in Nat, n \in P PROVE n + 1 \in P
  <2>1. PICK g : LevelsOn(g, leaves, n)
    BY <1>2
  <2> DEFINE h == [k \in 0..n + 1 |-> IF k = 0 THEN leaves ELSE Up(g[k-1])]
  <2>2. \A k \in 0..n : h[k] = g[k]
    BY <2>1 DEF LevelsOn
  <2>3. ASSUME NEW k \in 0..n + 1, k # 0 PROVE h[k-1] = g[k-1]
    <3>1. k - 1 \in 0..n
      BY <2>3
    <3> HIDE DEF h
    <3> QED BY <2>2, <3>1
  <2>4. LevelsOn(h, leaves, n + 1)
    <3> HIDE DEF h
    <3>1. \A k \in 0..n + 1 : h[k] = IF k = 0 THEN leaves ELSE Up(h[k-1])
      BY <2>3 DEF h
    <3>2. h = [k \in 0..n + 1 |-> h[k]]
      BY DEF h
    <3> QED BY <3>1, <3>2 DEF LevelsOn
  <2> HIDE DEF h
  <2> QED BY <2>4
<1> HIDE DEF P
<1>3. Nat \subseteq P
  BY <1>1, <1>2, NatSetInduction
<1> QED BY <1>3 DEF P

LEMMA LevelsAre ==
  ASSUME NEW leaves, IsSeq(leaves)
  PROVE  /\ DOMAIN Levels(leaves) = 0..Len(leaves) /\ Levels(leaves)[0] = leaves
         /\ \A k \in 1..Len(leaves) : Levels(leaves)[k] = Up(Levels(leaves)[k-1])
<1>1. PICK g : LevelsOn(g, leaves, Len(leaves))
  BY LevelsExist DEF IsSeq
<1>2. LevelsOn(CHOOSE h : LevelsOn(h, leaves, Len(leaves)), leaves, Len(leaves))
  BY <1>1
<1>3. Levels(leaves) = CHOOSE h : LevelsOn(h, leaves, Len(leaves))
  BY Zenon DEF Levels, LevelsOn
<1>4. LevelsOn(Levels(leaves), leaves, Len(leaves))
  BY <1>2, <1>3
<1> QED BY <1>4 DEF LevelsOn, IsSeq

\* Every level has a node; the next one has half of them, rounded up.
LEMMA LevelLengths ==
  ASSUME NEW leaves, IsSeq(leaves), Len(leaves) >= 1
  PROVE  /\ \A k \in 0..Len(leaves) : /\ IsSeq(Levels(leaves)[k])
                                      /\ Len(Levels(leaves)[k]) >= 1
                                      /\ \/ Len(Levels(leaves)[k]) = 1
                                         \/ Len(Levels(leaves)[k]) <= Len(leaves) - k
         /\ \A k \in 1..Len(leaves) :
              Len(Levels(leaves)[k]) = HalfUp(Len(Levels(leaves)[k-1]))
<1> DEFINE n     == Len(leaves)
           level == Levels(leaves)
           Good(k) == /\ IsSeq(level[k]) /\ Len(level[k]) >= 1
                      /\ Len(level[k]) = 1 \/ Len(level[k]) <= n - k
           P     == {k \in Nat : k <= n => Good(k)}
<1>1. n \in Nat
  BY DEF IsSeq
<1>2. level[0] = leaves /\ \A k \in 1..n : level[k] = Up(level[k-1])
  BY LevelsAre
<1> HIDE DEF level
<1>3. 0 \in P
  BY <1>1, <1>2 DEF IsSeq
<1>4. ASSUME NEW k \in Nat, k \in P PROVE k + 1 \in P
  <2> SUFFICES ASSUME k + 1 <= n PROVE Good(k + 1)
    OBVIOUS
  <2>1. Good(k)
    BY <1>1, <1>4
  <2>2. level[k + 1] = Up(level[k])
    <3>1. k + 1 \in 1..n /\ (k + 1) - 1 = k
      BY <1>1
    <3> QED BY <1>2, <3>1
  <2>3. IsSeq(level[k + 1]) /\ Len(level[k + 1]) = HalfUp(Len(level[k]))
    BY <2>1, <2>2, UpIsSeq
  <2>4. PICK m \in Nat : m = Len(level[k]) /\ m >= 1 /\ (m = 1 \/ m <= n - k)
    BY <2>1 DEF IsSeq
  <2>5. HalfUp(m) >= 1 /\ (HalfUp(m) = 1 \/ HalfUp(m) <= n - (k + 1))
    <3> HIDE DEF n
    <3>1. PICK h \in Nat : h = HalfUp(m) /\ (2 * h = m \/ 2 * h = m + 1)
      BY HalfUpIs
    <3>2. m \in Nat /\ m >= 1 /\ (m = 1 \/ m <= n - k)
      BY <2>4
    <3>3. 2 * h = m \/ 2 * h = m + 1
      BY <3>1
    <3>4. h >= 1 /\ (h = 1 \/ h <= n - (k + 1))
      BY <1>1, <3>2, <3>3
    <3> QED BY <3>1, <3>4, Zenon
  <2> QED BY <2>3, <2>4, <2>5
<1>5. Nat \subseteq P
  <2> HIDE DEF P
  <2> QED BY <1>3, <1>4, NatSetInduction
<1>6. \A k \in 0..n : Good(k)
  BY <1>1, <1>5
<1>7. ASSUME NEW k \in 1..n PROVE Len(level[k]) = HalfUp(Len(level[k-1]))
  <2>1. k - 1 \in 0..n
    BY <1>1
  <2> QED BY <1>2, <1>6, <2>1, UpIsSeq
<1> QED BY <1>6, <1>7 DEF level

\* The levels shrink to a single node, so there is a root.
LEMMA HeightIs ==
  ASSUME NEW leaves, IsSeq(leaves), Len(leaves) >= 1
  PROVE  /\ Height(leaves) \in 0..Len(leaves)
         /\ Len(Levels(leaves)[Height(leaves)]) = 1
         /\ \A k \in 0..Height(leaves)-1 : Len(Levels(leaves)[k]) > 1
<1> DEFINE n     == Len(leaves)
           level == Levels(leaves)
           T     == {k \in 0..n : Len(level[k]) = 1}
           Root1(h) == Len(level[h]) = 1 /\ \A k \in 0..h-1 : Len(level[k]) > 1
<1>1. n \in Nat /\ DOMAIN level = 0..n
  BY LevelsAre DEF IsSeq
<1>2. \A k \in 0..n : Len(level[k]) \in Nat /\ Len(level[k]) >= 1
  BY LevelLengths DEF IsSeq
<1>3. n \in T
  <2>1. n \in 0..n /\ (Len(level[n]) = 1 \/ Len(level[n]) <= n - n)
    BY <1>1, LevelLengths
  <2> HIDE DEF n, level
  <2>2. Len(level[n]) \in Nat /\ Len(level[n]) >= 1
    BY <1>2, <2>1
  <2> QED BY <1>1, <2>1, <2>2
<1> HIDE DEF level, n
<1>4. PICK h \in T : \A k \in T : h <= k
  <2>1. T \subseteq Nat /\ T # {}
    BY <1>1, <1>3
  <2> HIDE DEF T
  <2> QED BY <2>1, LeastElement
<1>5. Root1(h)
  <2>1. ASSUME NEW k \in 0..h-1 PROVE Len(level[k]) > 1
    <3>1. k \in 0..n /\ ~(h <= k)
      BY <1>1, <1>4
    <3>2. Len(level[k]) # 1
      BY <1>4, <3>1
    <3>3. PICK m \in Nat : m = Len(level[k]) /\ m >= 1
      BY <1>2, <3>1
    <3>4. m # 1 /\ m >= 1
      BY <3>2, <3>3, Zenon
    <3>5. m > 1
      BY <3>4
    <3> QED BY <3>3, <3>5
  <2> QED BY <1>4, <2>1
<1>6. h \in DOMAIN level
  BY <1>1, <1>4
<1>7. Height(leaves) = CHOOSE x \in DOMAIN level : Root1(x)
  BY Zenon DEF Height, level
<1>8. Height(leaves) \in DOMAIN level /\ Root1(Height(leaves))
  <2> HIDE DEF Root1
  <2> QED BY <1>5, <1>6, <1>7, Zenon
<1> QED BY <1>1, <1>8 DEF level, n

\* A node above the leaves is the hash of two nodes of the level below.
LEMMA NodesArePairs ==
  ASSUME NEW leaves, IsSeq(leaves), Len(leaves) >= 1, NEW k \in 1..Len(leaves),
         NEW j \in 1..Len(Levels(leaves)[k])
  PROVE  /\ 2*j - 1 \in 1..Len(Levels(leaves)[k-1])
         /\ Sibling(2*j - 1, Len(Levels(leaves)[k-1])) \in 1..Len(Levels(leaves)[k-1])
         /\ Levels(leaves)[k][j] =
              Pair(Levels(leaves)[k-1][2*j - 1],
                   Levels(leaves)[k-1][Sibling(2*j - 1, Len(Levels(leaves)[k-1]))])
<1> DEFINE low == Levels(leaves)[k-1]
           m   == Len(low)
<1>1. k - 1 \in 0..Len(leaves)
  BY DEF IsSeq
<1>2. IsSeq(low) /\ Levels(leaves)[k] = Up(low)
  BY <1>1, LevelLengths, LevelsAre
<1> HIDE DEF low
<1>3. /\ Len(Levels(leaves)[k]) = HalfUp(m)
      /\ \A i \in 1..HalfUp(m) : Levels(leaves)[k][i] = Pair(low[2*i - 1], low[Sibling(2*i - 1, m)])
  BY <1>2, UpIsSeq
<1>4. m \in Nat
  BY <1>2 DEF IsSeq
<1> HIDE DEF m
<1>5. j \in 1..HalfUp(m)
  BY <1>3
<1>6. 2*j - 1 \in 1..m /\ Sibling(2*j - 1, m) \in 1..m
  <2>1. PICK h \in Nat : h = HalfUp(m) /\ (2 * h = m \/ 2 * h = m + 1)
    BY <1>4, HalfUpIs
  <2>2. j \in 1..h /\ (2 * h = m \/ 2 * h = m + 1)
    BY <1>5, <2>1
  <2>3. 2*j - 1 \in 1..m
    BY <1>4, <2>2
  <2>4. (2*j - 1) % 2 = 1
    BY <2>2
  <2> QED BY <1>4, <2>3, <2>4 DEF Sibling
<1> QED BY <1>3, <1>5, <1>6 DEF m, low

\* The node on the path of a leaf, hashed with its sibling on the side its place
\* tells, is the next node on the path.
LEMMA PathStep ==
  ASSUME NEW leaves, IsSeq(leaves), Len(leaves) >= 1, NEW k \in 0..Len(leaves)-1,
         NEW i \in 1..Len(Levels(leaves)[k])
  PROVE  LET low  == Levels(leaves)[k]
             node == low[i]
             side == low[Sibling(i, Len(low))]
         IN  /\ HalfUp(i) \in 1..Len(Levels(leaves)[k+1])
             /\ Levels(leaves)[k+1][HalfUp(i)] = IF i % 2 = 1 THEN Pair(node, side)
                                                            ELSE Pair(side, node)
<1> DEFINE low == Levels(leaves)[k]
           up  == Levels(leaves)[k+1]
           m   == Len(low)
           j   == HalfUp(i)
<1>1. k + 1 \in 1..Len(leaves) /\ k \in 0..Len(leaves) /\ (k + 1) - 1 = k
  BY DEF IsSeq
<1>2. m \in Nat /\ Len(up) = HalfUp(m)
  <2>1. IsSeq(low)
    BY <1>1, LevelLengths
  <2>2. Len(up) = HalfUp(Len(Levels(leaves)[(k + 1) - 1]))
    BY <1>1, LevelLengths
  <2> QED BY <1>1, <2>1, <2>2 DEF IsSeq
<1> HIDE DEF low, up, m
<1>3. i \in 1..m /\ i \in Nat
  BY <1>2 DEF m, low
<1>4. j \in Nat /\ (2 * j = i \/ 2 * j = i + 1)
  BY <1>3, HalfUpIs
<1> HIDE DEF j
<1>5. j \in 1..HalfUp(m)
  <2>1. PICK h \in Nat : h = HalfUp(m) /\ (2 * h = m \/ 2 * h = m + 1)
    BY <1>2, HalfUpIs
  <2>2. 2 * h = m \/ 2 * h = m + 1
    BY <2>1
  <2>3. j \in 1..h
    BY <1>2, <1>3, <1>4, <2>2
  <2> QED BY <2>1, <2>3
<1>6. up[j] = Pair(low[2*j - 1], low[Sibling(2*j - 1, m)])
  <2>1. j \in 1..Len(Levels(leaves)[k + 1])
    BY <1>2, <1>5 DEF up
  <2>2. Levels(leaves)[k + 1][j] =
          Pair(Levels(leaves)[(k + 1) - 1][2*j - 1],
               Levels(leaves)[(k + 1) - 1]
                 [Sibling(2*j - 1, Len(Levels(leaves)[(k + 1) - 1]))])
    BY <1>1, <2>1, NodesArePairs
  <2> QED BY <1>1, <2>2 DEF low, up, m
<1>7. CASE 2 * j = i + 1
  <2>1. i % 2 = 1 /\ 2*j - 1 = i
    BY <1>3, <1>4, <1>7
  <2> QED BY <1>2, <1>5, <1>6, <2>1 DEF low, up, m, j
<1>8. CASE 2 * j = i
  <2>1. i % 2 = 0 /\ 2*j - 1 = i - 1 /\ (i - 1) % 2 = 1 /\ i - 1 < m
    BY <1>2, <1>3, <1>4, <1>8
  <2>2. Sibling(i - 1, m) = i /\ Sibling(i, m) = i - 1
    BY <1>3, <2>1 DEF Sibling
  <2> QED BY <1>2, <1>5, <1>6, <2>1, <2>2 DEF low, up, m, j
<1> QED BY <1>4, <1>7, <1>8

-----------------------------------------------------------------------------
(* The path of a leaf.                                                     *)

PlacesOn(g, i, n) == g = [k \in 0..n |-> IF k = 0 THEN i ELSE HalfUp(g[k-1])]

LEMMA PlacesExist ==
  ASSUME NEW i
  PROVE  \A n \in Nat : \E g : PlacesOn(g, i, n)
<1> DEFINE P == {n \in Nat : \E g : PlacesOn(g, i, n)}
<1>1. 0 \in P
  <2>1. PlacesOn([k \in 0..0 |-> i], i, 0)
    BY DEF PlacesOn
  <2> QED BY <2>1
<1>2. ASSUME NEW n \in Nat, n \in P PROVE n + 1 \in P
  <2>1. PICK g : PlacesOn(g, i, n)
    BY <1>2
  <2> DEFINE h == [k \in 0..n + 1 |-> IF k = 0 THEN i ELSE HalfUp(g[k-1])]
  <2>2. \A k \in 0..n : h[k] = g[k]
    BY <2>1 DEF PlacesOn
  <2>3. ASSUME NEW k \in 0..n + 1, k # 0 PROVE h[k-1] = g[k-1]
    <3>1. k - 1 \in 0..n
      BY <2>3
    <3> HIDE DEF h
    <3> QED BY <2>2, <3>1
  <2>4. PlacesOn(h, i, n + 1)
    <3> HIDE DEF h
    <3>1. \A k \in 0..n + 1 : h[k] = IF k = 0 THEN i ELSE HalfUp(h[k-1])
      BY <2>3 DEF h
    <3>2. h = [k \in 0..n + 1 |-> h[k]]
      BY DEF h
    <3> QED BY <3>1, <3>2 DEF PlacesOn
  <2> HIDE DEF h
  <2> QED BY <2>4
<1> HIDE DEF P
<1>3. Nat \subseteq P
  BY <1>1, <1>2, NatSetInduction
<1> QED BY <1>3 DEF P

\* The path of a leaf runs through the tree and ends at the root.
LEMMA PlacesAre ==
  ASSUME NEW leaves, IsSeq(leaves), Len(leaves) >= 1, NEW i \in 1..Len(leaves)
  PROVE  /\ Places(leaves, i)[0] = i
         /\ \A k \in 1..Height(leaves) : Places(leaves, i)[k] = HalfUp(Places(leaves, i)[k-1])
         /\ \A k \in 0..Height(leaves) :
              Places(leaves, i)[k] \in 1..Len(Levels(leaves)[k])
         /\ Places(leaves, i)[Height(leaves)] = 1
<1> DEFINE H     == Height(leaves)
           place == Places(leaves, i)
           P     == {k \in Nat : k <= H => place[k] \in 1..Len(Levels(leaves)[k])}
<1>1. H \in 0..Len(leaves) /\ Len(Levels(leaves)[H]) = 1 /\ H \in Nat
  BY HeightIs DEF IsSeq
<1> HIDE DEF H
<1>2. place[0] = i /\ \A k \in 1..H : place[k] = HalfUp(place[k-1])
  <2>1. PICK g : PlacesOn(g, i, H)
    BY <1>1, PlacesExist
  <2>2. PlacesOn(CHOOSE h : PlacesOn(h, i, H), i, H)
    BY <2>1
  <2>3. place = CHOOSE h : PlacesOn(h, i, H)
    BY Zenon DEF Places, PlacesOn, H
  <2>4. PlacesOn(place, i, H)
    BY <2>2, <2>3
  <2> HIDE DEF place
  <2> QED BY <1>1, <2>4 DEF PlacesOn
<1> HIDE DEF place
<1>3. 0 \in P
  BY <1>2, LevelsAre
<1>4. ASSUME NEW k \in Nat, k \in P PROVE k + 1 \in P
  <2> SUFFICES ASSUME k + 1 <= H PROVE place[k + 1] \in 1..Len(Levels(leaves)[k + 1])
    OBVIOUS
  <2>1. k \in 0..Len(leaves)-1 /\ (k + 1) - 1 = k /\ k + 1 \in 1..H
    BY <1>1 DEF IsSeq
  <2>2. place[k] \in 1..Len(Levels(leaves)[k])
    BY <1>1, <1>4
  <2>3. HalfUp(place[k]) \in 1..Len(Levels(leaves)[k + 1])
    BY <2>1, <2>2, PathStep
  <2> QED BY <1>2, <2>1, <2>3
<1>5. Nat \subseteq P
  <2> HIDE DEF P
  <2> QED BY <1>3, <1>4, NatSetInduction
<1>6. \A k \in 0..H : place[k] \in 1..Len(Levels(leaves)[k])
  BY <1>1, <1>5
<1>7. place[H] = 1
  <2>1. H \in 0..H
    BY <1>1
  <2>2. place[H] \in 1..1
    BY <1>1, <1>6, <2>1, Zenon
  <2> QED BY <2>2
<1> QED BY <1>2, <1>6, <1>7 DEF H, place

LEMMA PathIs ==
  ASSUME NEW leaves, IsSeq(leaves), Len(leaves) >= 1, NEW i \in 1..Len(leaves)
  PROVE  /\ IsSeq(Path(leaves, i)) /\ Len(Path(leaves, i)) = Height(leaves)
         /\ \A k \in 1..Height(leaves) :
              Path(leaves, i)[k] =
                Levels(leaves)[k-1][Sibling(Places(leaves, i)[k-1], Len(Levels(leaves)[k-1]))]
<1>1. Height(leaves) \in Nat
  BY HeightIs DEF IsSeq
<1> QED BY <1>1, FunctionIsSeq DEF Path
=============================================================================
