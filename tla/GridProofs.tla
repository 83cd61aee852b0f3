------------------------------ MODULE GridProofs ------------------------------
(***************************************************************************)
(* What rests on the segments of a subject and the spine over them, for    *)
(* every number of segments, policies, versions, readers and answers:      *)
(* inclusion proofs, the seam between custodians and verifiers, the record *)
(* that is erased and archived, and the questions asked of it: labels,     *)
(* linksets, decisions, amounts and clocks.  GridSeam and SubjectRecord    *)
(* share the grid and no variable; their theorems are of one specification *)
(* each.                                                                   *)
(***************************************************************************)
EXTENDS GridSeam, SubjectRecord, InductionProofs

TreeFacts == INSTANCE MerkleProofs WITH Pair <- NodeHash

\* The facts are about the trees of the spine.
LEMMA SameTrees ==
  ASSUME NEW leaves
  PROVE  /\ Tree!Levels(leaves) = TreeFacts!Levels(leaves)
         /\ Tree!Height(leaves) = TreeFacts!Height(leaves)
         /\ Tree!Root(leaves) = TreeFacts!Levels(leaves)[TreeFacts!Height(leaves)][1]
         /\ \A i : Tree!Path(leaves, i) = TreeFacts!Path(leaves, i)
<1>1. Tree!Levels(leaves) = TreeFacts!Levels(leaves)
  BY Zenon DEF Tree!Levels, TreeFacts!Levels, Tree!Up, TreeFacts!Up, Tree!HalfUp,
               TreeFacts!HalfUp, Tree!Sibling, TreeFacts!Sibling
<1>2. Tree!Height(leaves) = TreeFacts!Height(leaves)
  BY <1>1, Zenon DEF Tree!Height, TreeFacts!Height
<1>3. ASSUME NEW i PROVE Tree!Path(leaves, i) = TreeFacts!Path(leaves, i)
  <2>1. Tree!Places(leaves, i) = TreeFacts!Places(leaves, i)
    BY <1>2, Zenon DEF Tree!Places, TreeFacts!Places, Tree!HalfUp, TreeFacts!HalfUp
  <2> QED BY <1>1, <1>2, <2>1, Zenon DEF Tree!Path, TreeFacts!Path, Tree!Sibling,
                                         TreeFacts!Sibling
<1> QED BY <1>1, <1>2, <1>3, Zenon DEF Tree!Root

-----------------------------------------------------------------------------
(* The leaves of a spine.                                                  *)

\* The commitments of a spine: finitely many segments, numbered.
IsCommitments(commitments) ==
  IsFiniteSet(DOMAIN commitments) /\ DOMAIN commitments \subseteq Nat

\* The ids in their order are the ids, each at one place.
LEMMA SortedIdsAre ==
  ASSUME NEW commitments, IsCommitments(commitments)
  PROVE  /\ Cardinality(DOMAIN commitments) \in Nat
         /\ SortedIds(commitments) \in [1..Cardinality(DOMAIN commitments) -> DOMAIN commitments]
         /\ \A id \in DOMAIN commitments :
              \E i \in 1..Cardinality(DOMAIN commitments) : SortedIds(commitments)[i] = id
<1> DEFINE ids  == DOMAIN commitments
           n    == Cardinality(ids)
           key  == [x \in ids |-> x]
           rank(x) == Cardinality({y \in ids : y < x})
           s    == SortedIds(commitments)
<1>1. n \in Nat /\ ids \subseteq Nat /\ IsFiniteSet(ids)
  BY FS_CardinalityType DEF IsCommitments
<1>2. s = [i \in 1..n |-> CHOOSE x \in ids : rank(x) = i - 1]
  BY Zenon DEF SortedIds
<1>3. ASSUME NEW i \in 1..n PROVE s[i] \in ids /\ rank(s[i]) = i - 1
  <2>1. PICK x \in ids : Cardinality(Preceding(ids, key, x)) = i - 1
    <3>1. /\ \A x \in ids : key[x] \in Int
          /\ \A x, y \in ids : key[x] = key[y] => x = y
      BY <1>1
    <3> HIDE DEF ids, key
    <3> QED BY <1>1, <3>1, EveryRankTaken DEF n
  <2>2. Preceding(ids, key, x) = {y \in ids : y < x}
    BY DEF Preceding
  <2>3. rank(x) = i - 1
    BY <2>1, <2>2
  <2>4. s[i] = CHOOSE y \in ids : rank(y) = i - 1
    BY <1>2
  <2> HIDE DEF ids, rank, s
  <2> QED BY <2>1, <2>3, <2>4, Zenon
<1> HIDE DEF s, rank
<1>4. s \in [1..n -> ids]
  <2>1. s = [i \in 1..n |-> s[i]]
    BY <1>2
  <2> HIDE DEF n, ids
  <2> QED BY <1>3, <2>1
<1>5. s \in Surjection(1..n, ids)
  <2>1. \A i, j \in 1..n : s[i] = s[j] => i = j
    <3> TAKE i, j \in 1..n
    <3> HAVE s[i] = s[j]
    <3>1. i - 1 = j - 1 /\ i \in Int /\ j \in Int
      BY <1>1, <1>3
    <3> QED BY <3>1
  <2> HIDE DEF n, ids
  <2>2. s \in Injection(1..n, ids)
    BY <1>4, <2>1, Zenon DEF Injection, IsInjective
  <2>3. Cardinality(1..n) = n
    <3>1. 1 \in Int /\ n \in Int
      BY <1>1
    <3>2. Cardinality(1..n) = IF 1 > n THEN 0 ELSE n - 1 + 1
      BY <3>1, FS_Interval
    <3> QED BY <1>1, <3>2
  <2> QED BY <1>1, <2>2, <2>3, FS_Injection, Zenon DEF n
<1>6. \A id \in ids : \E i \in 1..n : s[i] = id
  <2> HIDE DEF n, ids
  <2> QED BY <1>5, Zenon DEF Surjection
<1> QED BY <1>1, <1>4, <1>6 DEF s

\* The leaves: one for every commitment, and nothing else.
LEMMA LeavesAre ==
  ASSUME NEW commitments, IsCommitments(commitments), DOMAIN commitments # {}
  PROVE  /\ TreeFacts!IsSeq(LeavesOf(commitments)) /\ Len(LeavesOf(commitments)) >= 1
         /\ Len(LeavesOf(commitments)) = Len(SortedIds(commitments))
         /\ DOMAIN SortedIds(commitments) = 1..Len(LeavesOf(commitments))
         /\ \A i \in 1..Len(LeavesOf(commitments)) :
              /\ SortedIds(commitments)[i] \in DOMAIN commitments
              /\ LeavesOf(commitments)[i] =
                   LeafHash(SortedIds(commitments)[i], commitments[SortedIds(commitments)[i]])
<1> DEFINE n == Cardinality(DOMAIN commitments)
           s == SortedIds(commitments)
<1>1. n \in Nat /\ s \in [1..n -> DOMAIN commitments]
  BY SortedIdsAre
<1>2. n >= 1
  BY <1>1, FS_EmptySet DEF IsCommitments
<1> HIDE DEF n, s
<1>3. Len(s) = n
  <2>1. s \in Seq(DOMAIN commitments)
    BY <1>1
  <2> QED BY <1>1, <2>1
<1>4. LeavesOf(commitments) = [i \in 1..n |-> LeafHash(s[i], commitments[s[i]])]
  BY <1>3 DEF LeavesOf, s
<1>5. /\ TreeFacts!IsSeq(LeavesOf(commitments)) /\ Len(LeavesOf(commitments)) = n
      /\ \A i \in 1..n : LeavesOf(commitments)[i] = LeafHash(s[i], commitments[s[i]])
  <2>1. LeavesOf(commitments) = [i \in 1..n |-> LeavesOf(commitments)[i]]
    BY <1>4
  <2> QED BY <1>1, <1>4, <2>1, TreeFacts!FunctionIsSeq
<1> QED BY <1>1, <1>2, <1>3, <1>5 DEF s

-----------------------------------------------------------------------------
(* Verifying a path.                                                       *)

NodesOn(g, p, n) ==
  g = [k \in 0..n |-> IF k = 0 THEN LeafHash(p.segment_id, p.commitment)
                              ELSE NodeHash(g[k-1], p.siblings[k])]

LEMMA NodesExist ==
  ASSUME NEW p
  PROVE  \A n \in Nat : \E g : NodesOn(g, p, n)
<1> DEFINE P == {n \in Nat : \E g : NodesOn(g, p, n)}
<1>1. 0 \in P
  <2>1. NodesOn([k \in 0..0 |-> LeafHash(p.segment_id, p.commitment)], p, 0)
    BY DEF NodesOn
  <2> QED BY <2>1
<1>2. ASSUME NEW n \in Nat, n \in P PROVE n + 1 \in P
  <2>1. PICK g : NodesOn(g, p, n)
    BY <1>2
  <2> DEFINE h == [k \in 0..n + 1 |-> IF k = 0 THEN LeafHash(p.segment_id, p.commitment)
                                               ELSE NodeHash(g[k-1], p.siblings[k])]
  <2>2. \A k \in 0..n : h[k] = g[k]
    BY <2>1 DEF NodesOn
  <2>3. ASSUME NEW k \in 0..n + 1, k # 0 PROVE h[k-1] = g[k-1]
    <3>1. k - 1 \in 0..n
      BY <2>3
    <3> HIDE DEF h
    <3> QED BY <2>2, <3>1
  <2>4. NodesOn(h, p, n + 1)
    <3> HIDE DEF h
    <3>1. \A k \in 0..n + 1 : h[k] = IF k = 0 THEN LeafHash(p.segment_id, p.commitment)
                                              ELSE NodeHash(h[k-1], p.siblings[k])
      BY <2>3 DEF h
    <3>2. h = [k \in 0..n + 1 |-> h[k]]
      BY DEF h
    <3> QED BY <3>1, <3>2 DEF NodesOn
  <2> HIDE DEF h
  <2> QED BY <2>4
<1> HIDE DEF P
<1>3. Nat \subseteq P
  BY <1>1, <1>2, NatSetInduction
<1> QED BY <1>3 DEF P

\* The nodes that are hashed along a path of n siblings.
Climbs(node, p, n) ==
  /\ node[0] = LeafHash(p.segment_id, p.commitment)
  /\ \A k \in 1..n : node[k] = NodeHash(node[k-1], p.siblings[k])

\* A proof verifies if the nodes hashed along its path end in the root.
LEMMA VerifiesMeans ==
  ASSUME NEW p, NEW root, NEW n \in Nat, n = Len(p.siblings)
  PROVE  \E node : /\ Climbs(node, p, n)
                   /\ verifies_against(p, root) <=> node[n] = root /\ p.root = root
<1> DEFINE node == CHOOSE g : NodesOn(g, p, n)
<1>1. PICK g : NodesOn(g, p, n)
  BY NodesExist
<1>2. NodesOn(node, p, n)
  BY <1>1
<1>3. verifies_against(p, root) <=> node[n] = root /\ p.root = root
  BY Zenon DEF verifies_against, NodesOn
<1> HIDE DEF node
<1>4. node[0] = LeafHash(p.segment_id, p.commitment)
  BY <1>2 DEF NodesOn
<1>5. \A k \in 1..n : node[k] = NodeHash(node[k-1], p.siblings[k])
  BY <1>2 DEF NodesOn
<1> QED BY <1>3, <1>4, <1>5 DEF Climbs

\* Every segment of a spine has a proof that verifies.
LEMMA ProofVerifies ==
  ASSUME NEW commitments, IsCommitments(commitments), NEW version,
         NEW id \in DOMAIN commitments
  PROVE  LET given == SpineOver(version, commitments)
         IN  verifies_against(proof(given, id), given.root)
<1> DEFINE given  == SpineOver(version, commitments)
           ids    == SortedIds(commitments)
           leaves == LeavesOf(commitments)
           pos    == CHOOSE i \in DOMAIN ids : ids[i] = id
           H      == TreeFacts!Height(leaves)
           level  == TreeFacts!Levels(leaves)
           place  == TreeFacts!Places(leaves, pos)
           p      == proof(given, id)
<1>1. /\ TreeFacts!IsSeq(leaves) /\ Len(leaves) >= 1 /\ DOMAIN ids = 1..Len(leaves)
      /\ \A i \in 1..Len(leaves) : leaves[i] = LeafHash(ids[i], commitments[ids[i]])
  BY LeavesAre
<1>2. pos \in 1..Len(leaves) /\ ids[pos] = id
  <2>1. \E i \in DOMAIN ids : ids[i] = id
    BY SortedIdsAre
  <2> HIDE DEF ids, leaves
  <2> QED BY <1>1, <2>1
<1>3. /\ given.root = level[H][1] /\ given.commitments = commitments
  BY SameTrees DEF SpineOver
<1>4. /\ p.segment_id = id /\ p.commitment = commitments[id] /\ p.root = given.root
      /\ p.siblings = TreeFacts!Path(leaves, pos)
  BY <1>3, SameTrees DEF proof
<1> HIDE DEF given, ids, leaves, pos, H, level, place, p
<1>5. /\ Len(p.siblings) = H /\ H \in Nat /\ H \in 0..Len(leaves)
      /\ \A k \in 1..H : p.siblings[k] = level[k-1][TreeFacts!Sibling(place[k-1], Len(level[k-1]))]
  BY <1>1, <1>2, <1>4, TreeFacts!PathIs, TreeFacts!HeightIs DEF H, level, place, TreeFacts!IsSeq
<1>6. /\ place[0] = pos /\ place[H] = 1 /\ level[0] = leaves
      /\ \A k \in 1..H : place[k] = TreeFacts!HalfUp(place[k-1])
      /\ \A k \in 0..H : place[k] \in 1..Len(level[k])
  <2>1. level[0] = leaves
    BY <1>1, TreeFacts!LevelsAre DEF level
  <2>2. /\ place[0] = pos /\ place[H] = 1
        /\ \A k \in 1..H : place[k] = TreeFacts!HalfUp(place[k-1])
        /\ \A k \in 0..H : place[k] \in 1..Len(level[k])
    BY <1>1, <1>2, TreeFacts!PlacesAre DEF H, level, place
  <2> QED BY <2>1, <2>2
<1>7. PICK node :
        /\ Climbs(node, p, H)
        /\ verifies_against(p, given.root) <=> node[H] = given.root /\ p.root = given.root
  <2>1. H \in Nat /\ H = Len(p.siblings)
    BY <1>5
  <2> QED BY <2>1, VerifiesMeans, Zenon
<1> DEFINE P == {k \in Nat : k <= H => node[k] = level[k][place[k]]}
<1>8. 0 \in P
  BY <1>1, <1>2, <1>4, <1>6, <1>7 DEF Climbs
<1>9. ASSUME NEW k \in Nat, k \in P PROVE k + 1 \in P
  <2> SUFFICES ASSUME k + 1 <= H PROVE node[k + 1] = level[k + 1][place[k + 1]]
    OBVIOUS
  <2>1. k + 1 \in 1..H /\ (k + 1) - 1 = k /\ k \in 0..H /\ k \in 0..Len(leaves)-1
    BY <1>1, <1>5 DEF TreeFacts!IsSeq
  <2>2. node[k] = level[k][place[k]]
    BY <1>9, <2>1
  <2> DEFINE side == level[k][TreeFacts!Sibling(place[k], Len(level[k]))]
  <2>3. node[k + 1] = NodeHash(level[k][place[k]], side)
    BY <1>5, <1>7, <2>1, <2>2 DEF Climbs
  <2>4. place[k] \in 1..Len(level[k]) /\ place[k + 1] = TreeFacts!HalfUp(place[k])
    BY <1>6, <2>1
  <2>5. level[k + 1][place[k + 1]] = IF place[k] % 2 = 1 THEN NodeHash(level[k][place[k]], side)
                                                         ELSE NodeHash(side, level[k][place[k]])
    <3>1. place[k] \in 1..Len(TreeFacts!Levels(leaves)[k])
      BY <2>4 DEF level
    <3>2. TreeFacts!Levels(leaves)[k + 1][TreeFacts!HalfUp(place[k])]
            = IF place[k] % 2 = 1
                THEN NodeHash(TreeFacts!Levels(leaves)[k][place[k]],
                              TreeFacts!Levels(leaves)[k]
                                [TreeFacts!Sibling(place[k], Len(TreeFacts!Levels(leaves)[k]))])
                ELSE NodeHash(TreeFacts!Levels(leaves)[k]
                                [TreeFacts!Sibling(place[k], Len(TreeFacts!Levels(leaves)[k]))],
                              TreeFacts!Levels(leaves)[k][place[k]])
      BY <1>1, <2>1, <3>1, TreeFacts!PathStep, Zenon
    <3> QED BY <2>4, <3>2 DEF level
  <2>6. NodeHash(level[k][place[k]], side) = NodeHash(side, level[k][place[k]])
    BY DEF NodeHash
  <2> QED BY <2>3, <2>5, <2>6, Zenon
<1>10. Nat \subseteq P
  <2> HIDE DEF P
  <2> QED BY <1>8, <1>9, NatSetInduction
<1>11. node[H] = level[H][place[H]]
  BY <1>5, <1>10
<1> QED BY <1>3, <1>4, <1>6, <1>7, <1>11 DEF p, given

\* A path of a spine is a sequence.
LEMMA PathIsFinite ==
  ASSUME NEW given, IsCommitments(given.commitments), NEW id \in DOMAIN given.commitments
  PROVE  Len(proof(given, id).siblings) \in Nat
<1> DEFINE ids    == SortedIds(given.commitments)
           leaves == LeavesOf(given.commitments)
           pos    == CHOOSE i \in DOMAIN ids : ids[i] = id
<1>1. /\ TreeFacts!IsSeq(leaves) /\ Len(leaves) >= 1 /\ DOMAIN ids = 1..Len(leaves)
  BY LeavesAre
<1>2. pos \in 1..Len(leaves)
  <2>1. \E i \in DOMAIN ids : ids[i] = id
    BY SortedIdsAre
  <2> HIDE DEF ids, leaves
  <2> QED BY <1>1, <2>1
<1>3. proof(given, id).siblings = TreeFacts!Path(leaves, pos)
  BY SameTrees DEF proof
<1> HIDE DEF leaves, pos
<1>4. TreeFacts!IsSeq(TreeFacts!Path(leaves, pos))
  BY <1>1, <1>2, TreeFacts!PathIs
<1> QED BY <1>3, <1>4 DEF TreeFacts!IsSeq

\* A hash tells what was hashed, and of what kind it is.
LEMMA LeafIsNoNode ==
  ASSUME NEW a, NEW b, NEW c, NEW d
  PROVE  LeafHash(a, b) # NodeHash(c, d)
<1>1. "leaf" \in DOMAIN LeafHash(a, b) /\ "leaf" \notin DOMAIN NodeHash(c, d)
  BY DEF LeafHash, NodeHash
<1> QED BY <1>1, Zenon

LEMMA ZeroIsNoHash ==
  ASSUME NEW a, NEW b
  PROVE  LeafHash(a, b) # ZeroHash /\ NodeHash(a, b) # ZeroHash
<1>1. /\ "zero" \in DOMAIN ZeroHash
      /\ "zero" \notin DOMAIN LeafHash(a, b) /\ "zero" \notin DOMAIN NodeHash(a, b)
  BY DEF LeafHash, NodeHash, ZeroHash
<1> QED BY <1>1, Zenon

LEMMA LeafTells ==
  ASSUME NEW a, NEW b, NEW c, NEW d, LeafHash(a, b) = LeafHash(c, d)
  PROVE  a = c /\ b = d
BY DEF LeafHash

LEMMA NodeTells ==
  ASSUME NEW a, NEW b, NEW c, NEW d, NodeHash(a, b) = NodeHash(c, d)
  PROVE  a \in {c, d}
<1>1. {a, b} = {c, d}
  BY DEF NodeHash
<1> QED BY <1>1

\* A proof that verifies against the root of a spine is of a segment the spine
\* holds and tells its commitment, wherever the path of the proof comes from.
LEMMA ProofBinds ==
  ASSUME NEW commitments, IsCommitments(commitments), NEW version,
         NEW p, NEW n \in Nat, n = Len(p.siblings),
         verifies_against(p, SpineOver(version, commitments).root)
  PROVE  p.segment_id \in DOMAIN commitments /\ commitments[p.segment_id] = p.commitment
<1> DEFINE root   == SpineOver(version, commitments).root
           ids    == SortedIds(commitments)
           leaves == LeavesOf(commitments)
           H      == TreeFacts!Height(leaves)
           level  == TreeFacts!Levels(leaves)
<1>1. PICK node : Climbs(node, p, n) /\ node[n] = root
  BY VerifiesMeans
<1>2. node[0] = LeafHash(p.segment_id, p.commitment)
  BY <1>1 DEF Climbs
<1>3. ASSUME NEW k \in 1..n PROVE node[k] = NodeHash(node[k-1], p.siblings[k])
  BY <1>1 DEF Climbs
<1>4. DOMAIN commitments # {}
  <2> SUFFICES ASSUME DOMAIN commitments = {} PROVE FALSE
    OBVIOUS
  <2>1. node[n] = ZeroHash
    BY <1>1 DEF SpineOver
  <2>2. CASE n = 0
    BY <1>2, <2>1, <2>2, ZeroIsNoHash
  <2>3. CASE n # 0
    <3>1. n \in 1..n
      BY <2>3
    <3>2. node[n] = NodeHash(node[n-1], p.siblings[n])
      BY <1>3, <3>1
    <3> QED BY <2>1, <3>2, ZeroIsNoHash
  <2> QED BY <2>2, <2>3
<1>5. /\ TreeFacts!IsSeq(leaves) /\ Len(leaves) >= 1
      /\ \A i \in 1..Len(leaves) : /\ ids[i] \in DOMAIN commitments
                                   /\ leaves[i] = LeafHash(ids[i], commitments[ids[i]])
  BY <1>4, LeavesAre
<1>6. root = level[H][1]
  BY <1>4, SameTrees DEF SpineOver
<1> HIDE DEF root, ids, leaves, H, level
<1>7. H \in 0..Len(leaves) /\ H \in Nat /\ Len(level[H]) = 1 /\ level[0] = leaves
  BY <1>5, TreeFacts!HeightIs, TreeFacts!LevelsAre DEF H, level, TreeFacts!IsSeq
<1>8. ASSUME NEW k \in 1..H, NEW i \in 1..Len(level[k])
      PROVE  \E a, b \in 1..Len(level[k-1]) :
               level[k][i] = NodeHash(level[k-1][a], level[k-1][b])
  <2>1. k \in 1..Len(leaves)
    BY <1>5, <1>7 DEF TreeFacts!IsSeq
  <2> QED BY <1>5, <1>8, <2>1, TreeFacts!NodesArePairs, Zenon DEF level
<1> DEFINE Below(j) == \E i \in 1..Len(level[H - j]) : node[n - j] = level[H - j][i]
           P        == {j \in Nat : j <= n /\ j <= H => Below(j)}
<1>9. 0 \in P
  <2>1. 1 \in 1..Len(level[H])
    BY <1>7
  <2>2. node[n] = level[H][1] /\ n - 0 = n /\ H - 0 = H
    BY <1>1, <1>6, <1>7
  <2> QED BY <2>1, <2>2
<1>10. ASSUME NEW j \in Nat, j \in P PROVE j + 1 \in P
  <2> SUFFICES ASSUME j + 1 <= n, j + 1 <= H PROVE Below(j + 1)
    OBVIOUS
  <2>1. /\ n - j \in 1..n /\ (n - j) - 1 = n - (j + 1)
        /\ H - j \in 1..H /\ (H - j) - 1 = H - (j + 1)
    BY <1>7
  <2>2. PICK i \in 1..Len(level[H - j]) : node[n - j] = level[H - j][i]
    BY <1>7, <1>10
  <2>3. PICK a, b \in 1..Len(level[H - (j + 1)]) :
          level[H - j][i] = NodeHash(level[H - (j + 1)][a], level[H - (j + 1)][b])
    <3>1. \E a, b \in 1..Len(level[(H - j) - 1]) :
            level[H - j][i] = NodeHash(level[(H - j) - 1][a], level[(H - j) - 1][b])
      BY <1>8, <2>1
    <3> QED BY <2>1, <3>1
  <2>4. node[n - j] = NodeHash(node[n - (j + 1)], p.siblings[n - j])
    <3>1. node[n - j] = NodeHash(node[(n - j) - 1], p.siblings[n - j])
      BY <1>3, <2>1
    <3> QED BY <2>1, <3>1
  <2>5. node[n - (j + 1)] \in {level[H - (j + 1)][a], level[H - (j + 1)][b]}
    <3>1. NodeHash(node[n - (j + 1)], p.siblings[n - j])
            = NodeHash(level[H - (j + 1)][a], level[H - (j + 1)][b])
      BY <2>2, <2>3, <2>4
    <3> QED BY <3>1, NodeTells
  <2> QED BY <2>3, <2>5
<1> HIDE DEF Below
<1>11. Nat \subseteq P
  <2> HIDE DEF P
  <2> QED BY <1>9, <1>10, NatSetInduction
<1>12. ~(n < H)
  <2> SUFFICES ASSUME n < H PROVE FALSE
    OBVIOUS
  <2>1. Below(n) /\ n - n = 0 /\ H - n \in 1..H
    BY <1>7, <1>11
  <2>2. PICK i \in 1..Len(level[H - n]) : node[0] = level[H - n][i]
    BY <2>1 DEF Below
  <2>3. PICK x, y : node[0] = NodeHash(x, y)
    BY <1>8, <2>1, <2>2
  <2> QED BY <1>2, <2>3, LeafIsNoNode
<1>13. ~(H < n)
  <2> SUFFICES ASSUME H < n PROVE FALSE
    OBVIOUS
  <2>1. Below(H) /\ H - H = 0 /\ n - H \in 1..n
    BY <1>7, <1>11
  <2>2. PICK i \in 1..Len(leaves) : node[n - H] = leaves[i]
    BY <1>7, <2>1 DEF Below
  <2>3. node[n - H] = LeafHash(ids[i], commitments[ids[i]])
    BY <1>5, <2>2
  <2>4. node[n - H] = NodeHash(node[(n - H) - 1], p.siblings[n - H])
    BY <1>3, <2>1
  <2> QED BY <2>3, <2>4, LeafIsNoNode
<1>14. Below(n) /\ n - n = 0 /\ H - n = 0
  BY <1>7, <1>11, <1>12, <1>13
<1>15. PICK i \in 1..Len(leaves) : node[0] = leaves[i]
  BY <1>7, <1>14 DEF Below
<1>16. LeafHash(p.segment_id, p.commitment) = LeafHash(ids[i], commitments[ids[i]])
  BY <1>2, <1>5, <1>15
<1>17. p.segment_id = ids[i] /\ p.commitment = commitments[ids[i]]
  BY <1>16, LeafTells
<1> QED BY <1>5, <1>17

-----------------------------------------------------------------------------
(* Replaying a route.                                                      *)

SeenNext(g, steps, k) ==
  IF k = 0 THEN << >>
  ELSE IF IsClassify(steps[k]) THEN Append(g[k-1], steps[k].entry) ELSE g[k-1]
SeenOn(g, steps, n) == g = [k \in 0..n |-> SeenNext(g, steps, k)]

LEMMA SeenExists ==
  ASSUME NEW steps
  PROVE  \A n \in Nat : \E g : SeenOn(g, steps, n)
<1> DEFINE P == {n \in Nat : \E g : SeenOn(g, steps, n)}
<1>1. 0 \in P
  <2>1. SeenNext([k \in 0..0 |-> << >>], steps, 0) = << >>
    BY DEF SeenNext
  <2>2. SeenOn([k \in 0..0 |-> << >>], steps, 0)
    <3>1. \A k \in 0..0 : SeenNext([j \in 0..0 |-> << >>], steps, k) = << >>
      BY <2>1
    <3> QED BY <3>1 DEF SeenOn
  <2> QED BY <2>2
<1>2. ASSUME NEW n \in Nat, n \in P PROVE n + 1 \in P
  <2>1. PICK g : SeenOn(g, steps, n)
    BY <1>2
  <2> DEFINE h == [k \in 0..n + 1 |-> SeenNext(g, steps, k)]
  <2>2. \A k \in 0..n : h[k] = g[k]
    BY <2>1 DEF SeenOn
  <2>3. ASSUME NEW k \in 0..n + 1 PROVE SeenNext(h, steps, k) = SeenNext(g, steps, k)
    <3> HIDE DEF h
    <3>1. CASE k = 0
      BY <3>1 DEF SeenNext
    <3>2. CASE k # 0
      <4>1. k - 1 \in 0..n
        BY <3>2
      <4>2. h[k-1] = g[k-1]
        BY <2>2, <4>1
      <4> QED BY <3>2, <4>2, Zenon DEF SeenNext
    <3> QED BY <3>1, <3>2
  <2>4. SeenOn(h, steps, n + 1)
    BY <2>3 DEF SeenOn
  <2> HIDE DEF h
  <2> QED BY <2>4
<1> HIDE DEF P
<1>3. Nat \subseteq P
  BY <1>1, <1>2, NatSetInduction
<1> QED BY <1>3 DEF P

\* The entries of a replay are those of the classifying steps, and no others.
LEMMA ClassifiedAre ==
  ASSUME NEW steps, Len(steps) \in Nat, NEW E,
         \A i \in 1..Len(steps) : IsClassify(steps[i]) => steps[i].entry \in E
  PROVE  Classified(steps) \in Seq(E)
<1> DEFINE n    == Len(steps)
           seen == CHOOSE g : SeenOn(g, steps, n)
           P    == {k \in Nat : k <= n => seen[k] \in Seq(E)}
<1>1. PICK g : SeenOn(g, steps, n)
  BY SeenExists
<1>2. SeenOn(seen, steps, n)
  BY <1>1
<1>3. Classified(steps) = seen[n]
  BY Zenon DEF Classified, SeenOn, SeenNext
<1> HIDE DEF seen
<1>4. \A k \in 0..n : seen[k] = SeenNext(seen, steps, k)
  BY <1>2 DEF SeenOn
<1>5. 0 \in P
  <2>1. seen[0] = SeenNext(seen, steps, 0)
    BY <1>4
  <2>2. seen[0] = << >>
    BY <2>1, Zenon DEF SeenNext
  <2>3. << >> \in Seq(E)
    OBVIOUS
  <2>4. seen[0] \in Seq(E)
    BY <2>2, <2>3, Zenon
  <2> QED BY <2>4
<1>6. ASSUME NEW k \in Nat, k \in P PROVE k + 1 \in P
  <2> SUFFICES ASSUME k + 1 <= n PROVE seen[k + 1] \in Seq(E)
    OBVIOUS
  <2>1. k + 1 \in 1..n /\ (k + 1) - 1 = k /\ seen[k] \in Seq(E) /\ k + 1 # 0
    BY <1>6
  <2>2. seen[k + 1] = SeenNext(seen, steps, k + 1)
    BY <1>4, <2>1
  <2>3. CASE IsClassify(steps[k + 1])
    <3>1. seen[k + 1] = Append(seen[k], steps[k + 1].entry)
      BY <2>1, <2>2, <2>3, Zenon DEF SeenNext
    <3>2. steps[k + 1].entry \in E
      BY <2>1, <2>3
    <3> QED BY <2>1, <3>1, <3>2
  <2>4. CASE ~IsClassify(steps[k + 1])
    <3>1. seen[k + 1] = seen[k]
      BY <2>1, <2>2, <2>4, Zenon DEF SeenNext
    <3> QED BY <2>1, <3>1
  <2> QED BY <2>3, <2>4
<1>7. Nat \subseteq P
  <2> HIDE DEF P
  <2> QED BY <1>5, <1>6, NatSetInduction
<1> QED BY <1>3, <1>7

-----------------------------------------------------------------------------
(* Policies, pins and answers: what becomes of a reference to a policy.     *)

PolicyObjects ==
  [policy_id : Policies, version : Nat, authority : Policies,
   verifiers : SUBSET (Verifiers \cup {AnyVerifier}), reveal : RevealClass,
   superseded_by : Nat \cup {None}]

\* All an answer is computed from: a policy object but for its mark.
SameTerms(x, y) ==
  /\ x.policy_id = y.policy_id /\ x.version = y.version /\ x.authority = y.authority
  /\ x.verifiers = y.verifiers /\ x.reveal = y.reveal

\* The versions of a policy are numbered in the order they were published.
PoliciesOK ==
  /\ DOMAIN policies = Policies
  /\ \A id \in Policies :
       /\ policies[id] \in Seq(PolicyObjects) /\ Len(policies[id]) >= 1
       /\ \A v \in 1..Len(policies[id]) :
            policies[id][v].policy_id = id /\ policies[id][v].version = v

\* A fetched object is a published version, marked as it was when fetched.
HeldObject(h) ==
  /\ h.policy \in PolicyObjects /\ h.newest \in Nat
  /\ h.newest <= Len(policies[h.policy.policy_id])
  /\ h.policy.version \in 1..h.newest
  /\ SameTerms(h.policy, policies[h.policy.policy_id][h.policy.version])
  /\ h.policy.superseded_by = IF h.policy.version = h.newest THEN None
                                                             ELSE h.policy.version + 1

HeldOK ==
  /\ DOMAIN held = Readers
  /\ \A r \in Readers : held[r] # None => HeldObject(held[r])

\* An answer cites a published version, and is what that version says.
CitedVersion(a) ==
  /\ a.governing_policy \in Policies
  /\ a.governing_policy_version \in 1..Len(policies[a.governing_policy])
  /\ evaluate(a.request_digest,
              policies[a.governing_policy][a.governing_policy_version], a.custodian) = a

AnswersOK == \A a \in answers : CitedVersion(a)

GInv == PoliciesOK /\ MarksChain /\ HeldOK /\ AnswersOK

-----------------------------------------------------------------------------
(* The functions.                                                          *)

LEMMA PolicyObjectTyped ==
  ASSUME NEW id \in Policies, NEW n \in Nat, NEW terms \in Terms
  PROVE  /\ PolicyObject(id, n, terms) \in PolicyObjects
         /\ PolicyObject(id, n, terms).superseded_by = None
BY GridConstantsOK DEF PolicyObject, PolicyObjects

\* What is answered does not depend on the mark.
LEMMA EvaluateSameTerms ==
  ASSUME NEW x, NEW y, SameTerms(x, y), NEW request, NEW c
  PROVE  evaluate(request, x, c) = evaluate(request, y, c)
<1>1. Allowed(x, request.verifier) = Allowed(y, request.verifier)
  BY DEF SameTerms, Allowed
<1>2. OutcomeFor(x, request.verifier) = OutcomeFor(y, request.verifier)
  BY <1>1 DEF SameTerms, OutcomeFor
<1> QED BY <1>2 DEF SameTerms, evaluate

\* Only an object without a mark finds a reference current, and only its own.
LEMMA CurrentMeans ==
  ASSUME NEW policy, NEW ref
  PROVE  status_for(policy, ref) = "current"
           <=> /\ ref.policy_id = policy.policy_id /\ ref.version = policy.version
               /\ policy.superseded_by = None
BY DEF status_for

-----------------------------------------------------------------------------
(* The invariant.                                                          *)

LEMMA GInvInit == GInit => GInv
<1> SUFFICES ASSUME GInit PROVE GInv
  OBVIOUS
<1>1. PICK first \in [Policies -> Terms] :
        policies = [id \in Policies |-> <<PolicyObject(id, 1, first[id])>>]
  BY DEF GInit
<1>2. ASSUME NEW id \in Policies
      PROVE  /\ policies[id] \in Seq(PolicyObjects) /\ Len(policies[id]) = 1
             /\ policies[id][1] = PolicyObject(id, 1, first[id])
             /\ policies[id][1].superseded_by = None
  <2>1. /\ PolicyObject(id, 1, first[id]) \in PolicyObjects
        /\ PolicyObject(id, 1, first[id]).superseded_by = None
    BY PolicyObjectTyped
  <2>2. policies[id] = <<PolicyObject(id, 1, first[id])>>
    BY <1>1
  <2> QED BY <2>1, <2>2
<1>3. PoliciesOK
  BY <1>1, <1>2 DEF PoliciesOK, PolicyObject
<1>4. MarksChain
  <2>1. ASSUME NEW id \in Policies, NEW v \in DOMAIN policies[id]
        PROVE  policies[id][v].superseded_by = IF v = Len(policies[id]) THEN None ELSE v + 1
    <3>1. v = 1 /\ Len(policies[id]) = 1
      BY <1>2, <2>1
    <3> QED BY <1>2, <3>1
  <2> QED BY <2>1 DEF MarksChain
<1> QED BY <1>3, <1>4 DEF GInv, GInit, HeldOK, AnswersOK

\* Superseding a policy leaves its versions and those of the others as they
\* were, but for the mark of the one it replaces.
LEMMA SupersedeStep ==
  ASSUME PoliciesOK, MarksChain, NEW id \in Policies, NEW terms \in Terms,
         Supersede(id, terms)
  PROVE  /\ PoliciesOK' /\ MarksChain'
         /\ \A x \in Policies : /\ Len(policies'[x]) >= Len(policies[x])
                                /\ \A v \in 1..Len(policies[x]) :
                                     SameTerms(policies'[x][v], policies[x][v])
<1> DEFINE n      == Len(policies[id])
           marked == [policies[id] EXCEPT ![n].superseded_by = n + 1]
           new    == PolicyObject(id, n + 1, terms)
<1>1. /\ policies[id] \in Seq(PolicyObjects) /\ n \in Nat \ {0}
      /\ \A v \in 1..n : policies[id][v] \in PolicyObjects
  BY DEF PoliciesOK
<1>2. policies' = [policies EXCEPT ![id] = Append(marked, new)]
  BY DEF Supersede
<1>3. new \in PolicyObjects
  BY <1>1, PolicyObjectTyped
<1>4. [policies[id][n] EXCEPT !.superseded_by = n + 1] \in PolicyObjects
  <2>1. policies[id][n] \in PolicyObjects /\ n + 1 \in Nat
    BY <1>1
  <2> HIDE DEF n
  <2> QED BY <2>1 DEF PolicyObjects
<1>5. marked \in Seq(PolicyObjects) /\ Len(marked) = n
  BY <1>1, <1>4
<1>6. /\ marked[n] = [policies[id][n] EXCEPT !.superseded_by = n + 1]
      /\ \A v \in 1..n : v # n => marked[v] = policies[id][v]
  BY <1>1
<1>7. \A v \in 1..n : /\ SameTerms(marked[v], policies[id][v])
                      /\ marked[v].superseded_by = v + 1
  <2>1. SameTerms(marked[n], policies[id][n]) /\ marked[n].superseded_by = n + 1
    BY <1>1, <1>6 DEF SameTerms, PolicyObjects
  <2>2. ASSUME NEW v \in 1..n, v # n
        PROVE  SameTerms(marked[v], policies[id][v]) /\ marked[v].superseded_by = v + 1
    BY <1>1, <1>6, <2>2 DEF SameTerms, MarksChain
  <2> QED BY <2>1, <2>2
<1> HIDE DEF n, marked, new
<1>8. /\ policies'[id] = Append(marked, new)
      /\ \A x \in Policies : x # id => policies'[x] = policies[x]
      /\ DOMAIN policies' = Policies
  BY <1>2 DEF PoliciesOK
<1>9. /\ policies'[id] \in Seq(PolicyObjects) /\ Len(policies'[id]) = n + 1
      /\ policies'[id][n + 1] = new
      /\ \A v \in 1..n : policies'[id][v] = marked[v]
  BY <1>1, <1>3, <1>5, <1>8
<1>10. new.policy_id = id /\ new.version = n + 1 /\ new.superseded_by = None
  BY DEF new, PolicyObject
<1>11. PoliciesOK'
  <2>1. ASSUME NEW v \in 1..n + 1
        PROVE  policies'[id][v].policy_id = id /\ policies'[id][v].version = v
    <3>1. v = n + 1 \/ v \in 1..n
      BY <1>1
    <3> QED BY <1>7, <1>9, <1>10, <3>1 DEF SameTerms, PoliciesOK, n
  <2>2. ASSUME NEW x \in Policies, x # id
        PROVE  policies'[x] = policies[x]
    BY <1>8, <2>2
  <2>3. Len(policies'[id]) >= 1
    BY <1>1, <1>9
  <2> QED BY <1>8, <1>9, <2>1, <2>2, <2>3 DEF PoliciesOK
<1>12. MarksChain'
  <2>1. ASSUME NEW v \in 1..n + 1
        PROVE  policies'[id][v].superseded_by = IF v = n + 1 THEN None ELSE v + 1
    <3>1. v = n + 1 \/ (v \in 1..n /\ v # n + 1)
      BY <1>1
    <3> QED BY <1>7, <1>9, <1>10, <3>1
  <2>2. DOMAIN policies'[id] = 1..n + 1
    BY <1>1, <1>9
  <2>3. ASSUME NEW x \in Policies, NEW v \in DOMAIN policies'[x]
        PROVE  policies'[x][v].superseded_by = IF v = Len(policies'[x]) THEN None ELSE v + 1
    <3>1. CASE x = id
      BY <1>9, <2>1, <2>2, <3>1
    <3>2. CASE x # id
      BY <1>8, <3>2 DEF MarksChain
    <3> QED BY <3>1, <3>2
  <2> QED BY <2>3 DEF MarksChain
<1>13. \A v \in 1..n : SameTerms(policies'[id][v], policies[id][v])
  BY <1>7, <1>9
<1> QED BY <1>1, <1>8, <1>9, <1>11, <1>12, <1>13 DEF SameTerms, PoliciesOK, n

\* In every step what is published stays, but for marks.
Grown ==
  /\ PoliciesOK /\ PoliciesOK'
  /\ \A x \in Policies : /\ Len(policies'[x]) >= Len(policies[x])
                         /\ \A v \in 1..Len(policies[x]) :
                              SameTerms(policies'[x][v], policies[x][v])

LEMMA HeldObjectGrown ==
  ASSUME Grown, NEW h, HeldObject(h)
  PROVE  HeldObject(h)'
<1> DEFINE id == h.policy.policy_id
           v  == h.policy.version
<1>1. id \in Policies /\ v \in 1..h.newest /\ h.newest \in Nat /\ h.newest <= Len(policies[id])
  BY DEF HeldObject, PolicyObjects
<1>2. Len(policies[id]) \in Nat /\ Len(policies'[id]) \in Nat
  BY <1>1 DEF Grown, PoliciesOK
<1>3. h.newest <= Len(policies'[id]) /\ SameTerms(policies'[id][v], policies[id][v])
  BY <1>1, <1>2 DEF Grown
<1>4. SameTerms(h.policy, policies'[id][v])
  BY <1>3 DEF HeldObject, SameTerms
<1> QED BY <1>3, <1>4 DEF HeldObject

LEMMA CitedVersionGrown ==
  ASSUME Grown, NEW a, CitedVersion(a)
  PROVE  CitedVersion(a)'
<1> DEFINE id == a.governing_policy
           v  == a.governing_policy_version
<1>1. id \in Policies /\ v \in 1..Len(policies[id])
  BY DEF CitedVersion
<1>2. Len(policies[id]) \in Nat /\ Len(policies'[id]) \in Nat
  BY <1>1 DEF Grown, PoliciesOK
<1>3. v \in 1..Len(policies'[id]) /\ SameTerms(policies'[id][v], policies[id][v])
  BY <1>1, <1>2 DEF Grown
<1>4. evaluate(a.request_digest, policies'[id][v], a.custodian) = a
  BY <1>3, EvaluateSameTerms DEF CitedVersion
<1> QED BY <1>1, <1>3, <1>4 DEF CitedVersion

\* A fetched object is one of the published ones.
LEMMA FetchStep ==
  ASSUME PoliciesOK, MarksChain, HeldOK, NEW reader \in Readers, NEW id \in Policies,
         NEW version \in DOMAIN policies[id], Fetch(reader, id, version)
  PROVE  HeldOK'
<1> PICK h : h = [policy |-> policies[id][version], newest |-> Len(policies[id])]
  OBVIOUS
<1>1. /\ policies[id] \in Seq(PolicyObjects) /\ Len(policies[id]) \in Nat
      /\ version \in 1..Len(policies[id])
  BY DEF PoliciesOK
<1>2. /\ h.policy \in PolicyObjects
      /\ h.policy.policy_id = id /\ h.policy.version = version
  BY <1>1 DEF PoliciesOK
<1>3. HeldObject(h)
  BY <1>1, <1>2 DEF HeldObject, SameTerms, MarksChain
<1>4. held' = [held EXCEPT ![reader] = h] /\ policies' = policies
  BY DEF Fetch
<1>5. HeldObject(h)'
  BY <1>3, <1>4 DEF HeldObject
<1>6. ASSUME NEW r \in Readers, held'[r] # None
      PROVE  HeldObject(held[r])'
  <2>1. CASE r = reader
    BY <1>4, <1>5, <2>1 DEF HeldOK
  <2>2. CASE r # reader
    <3>1. held'[r] = held[r] /\ HeldObject(held[r])
      BY <1>4, <1>6, <2>2 DEF HeldOK
    <3> QED BY <1>4, <3>1 DEF HeldObject
  <2> QED BY <2>1, <2>2
<1> QED BY <1>4, <1>6 DEF HeldOK

\* An answer is computed from the object the custodian holds.
LEMMA AnswerStep ==
  ASSUME PoliciesOK, HeldOK, AnswersOK, NEW request \in Requests, Answer(request)
  PROVE  AnswersOK'
<1> DEFINE h  == held[Custodian]
           a  == evaluate(request, h.policy, Custodian)
           id == h.policy.policy_id
           v  == h.policy.version
<1>1. HeldObject(h)
  BY GridConstantsOK DEF HeldOK, Answer
<1>2. id \in Policies /\ v \in 1..Len(policies[id]) /\ SameTerms(h.policy, policies[id][v])
  <2>1. id \in Policies /\ v \in 1..h.newest /\ h.newest \in Nat /\ h.newest <= Len(policies[id])
    BY <1>1 DEF HeldObject, PolicyObjects
  <2>2. Len(policies[id]) \in Nat
    BY <2>1 DEF PoliciesOK
  <2> QED BY <1>1, <2>1, <2>2 DEF HeldObject
<1>3. /\ a.governing_policy = id /\ a.governing_policy_version = v
      /\ a.request_digest = request /\ a.custodian = Custodian
  BY DEF evaluate
<1>4. evaluate(request, policies[id][v], Custodian) = a
  BY <1>2, EvaluateSameTerms
<1>5. CitedVersion(a)
  BY <1>2, <1>3, <1>4 DEF CitedVersion
<1> HIDE DEF a
<1>6. answers' = answers \cup {a} /\ policies' = policies
  BY DEF Answer, a
<1> QED BY <1>5, <1>6 DEF AnswersOK, CitedVersion

LEMMA GInvStep == GInv /\ [GNext]_gvars => GInv'
<1> SUFFICES ASSUME GInv, [GNext]_gvars PROVE GInv'
  OBVIOUS
<1> USE DEF GInv
<1>1. CASE policies' = policies /\ held' = held /\ answers' = answers
  BY <1>1 DEF PoliciesOK, MarksChain, HeldOK, HeldObject, AnswersOK, CitedVersion
<1>2. ASSUME NEW id \in Policies, NEW terms \in Terms, Supersede(id, terms)
      PROVE  GInv'
  <2>1. PoliciesOK' /\ MarksChain' /\ Grown
    BY <1>2, SupersedeStep DEF Grown
  <2>2. held' = held /\ answers' = answers
    BY <1>2 DEF Supersede
  <2>3. HeldOK'
    BY <2>1, <2>2, HeldObjectGrown DEF HeldOK
  <2>4. AnswersOK'
    BY <2>1, <2>2, CitedVersionGrown DEF AnswersOK
  <2> QED BY <2>1, <2>3, <2>4
<1>3. ASSUME NEW reader \in Readers, NEW id \in Policies,
             NEW version \in DOMAIN policies[id], Fetch(reader, id, version)
      PROVE  GInv'
  <2>1. policies' = policies /\ answers' = answers
    BY <1>3 DEF Fetch
  <2>2. HeldOK'
    BY <1>3, FetchStep
  <2> QED BY <2>1, <2>2 DEF PoliciesOK, MarksChain, AnswersOK, CitedVersion
<1>4. ASSUME NEW request \in Requests, Answer(request)
      PROVE  GInv'
  <2>1. policies' = policies /\ held' = held
    BY <1>4 DEF Answer
  <2>2. AnswersOK'
    BY <1>4, AnswerStep
  <2> QED BY <2>1, <2>2 DEF PoliciesOK, MarksChain, HeldOK, HeldObject
<1> QED BY <1>1, <1>2, <1>3, <1>4
        DEF GNext, gvars, OpenSegment, Extend, Repin, Publish, Record, Gap, Classify, Report

\* The invariant holds in every reachable state.
THEOREM ReferencesKept == GSpec => []GInv
BY GInvInit, GInvStep, PTL DEF GSpec

-----------------------------------------------------------------------------
(* Results.                                                                *)

LEMMA StalePinsFromInv == GInv => StalePinsDetected
<1> SUFFICES ASSUME GInv, NEW reader \in Readers, NEW s \in DOMAIN segments,
                    held[reader] # None,
                    status_for(held[reader].policy, segments[s].policy) = "current"
             PROVE  segments[s].policy.version = held[reader].newest
  BY DEF StalePinsDetected
<1>1. HeldObject(held[reader])
  BY DEF GInv, HeldOK
<1>2. /\ segments[s].policy.version = held[reader].policy.version
      /\ held[reader].policy.superseded_by = None
  BY CurrentMeans
<1>3. held[reader].policy.version + 1 \in Nat
  BY <1>1 DEF HeldObject, PolicyObjects
<1>4. held[reader].policy.version = held[reader].newest
  BY <1>1, <1>2, <1>3, GridConstantsOK DEF HeldObject
<1> QED BY <1>2, <1>4

LEMMA StaleAnswersFromInv == GInv => StaleAnswersShow
<1> SUFFICES ASSUME GInv, NEW a \in answers, NEW v \in DOMAIN policies[a.governing_policy]
             PROVE  LET id  == a.governing_policy
                        ref == [policy_id |-> id, version |-> a.governing_policy_version]
                    IN  status_for(policies[id][v], ref) = "current"
                          <=> v = ref.version /\ v = Len(policies[id])
  BY DEF StaleAnswersShow
<1> DEFINE id  == a.governing_policy
           ref == [policy_id |-> id, version |-> a.governing_policy_version]
<1>1. id \in Policies
  BY DEF GInv, AnswersOK, CitedVersion
<1>2. v \in 1..Len(policies[id]) /\ Len(policies[id]) \in Nat
  BY <1>1 DEF GInv, PoliciesOK
<1>3. /\ policies[id][v].policy_id = id /\ policies[id][v].version = v
      /\ policies[id][v].superseded_by = IF v = Len(policies[id]) THEN None ELSE v + 1
  BY <1>1, <1>2 DEF GInv, PoliciesOK, MarksChain
<1>4. v + 1 # None
  BY <1>2, GridConstantsOK
<1>5. ref.policy_id = id /\ ref.version = a.governing_policy_version
  OBVIOUS
<1> HIDE DEF ref
<1> QED BY <1>3, <1>4, <1>5, CurrentMeans DEF ref

\* Whatever was pinned or cited stays checkable against what is published and
\* is never taken for the current version unless it is (policy.rs:127,
\* s13/lib.rs:166), for every number of policies, versions and parties.
THEOREM VersionsAlwaysPinned == GSpec => []VersionsPinned
<1>1. GInv => VersionsPinned
  <2>1. GInv => AnswersReproducible
    BY DEF GInv, AnswersOK, CitedVersion, AnswersReproducible
  <2> QED BY <2>1, StalePinsFromInv, StaleAnswersFromInv DEF GInv, VersionsPinned
<1> QED BY <1>1, ReferencesKept, PTL

LEMMA SeamsAgreeOn ==
  ASSUME NEW policy, policy.reveal \in RevealClass,
         NEW verifier \in Verifiers, Allowed(policy, verifier)
  PROVE  LET answer  == serve_class([authorization |-> verifier], policy)
             outcome == OutcomeFor(policy, verifier)
         IN  /\ answer.served <=> outcome.outcome \in {"permit", "permit-paired"}
             /\ ~answer.served => answer.offer = outcome.party
<1> DEFINE request == [authorization |-> verifier]
<1>1. request.authorization = verifier /\ verifier # None
  BY GridConstantsOK
<1> HIDE DEF request
<1>2. CASE policy.reveal \in {"open", "pairing-gated"}
  <2>1. serve_class(request, policy) = Served
    BY <1>1, <1>2 DEF serve_class
  <2>2. OutcomeFor(policy, verifier).outcome \in {"permit", "permit-paired"}
    BY <1>2 DEF OutcomeFor, Outcome
  <2> QED BY <2>1, <2>2 DEF Served, request
<1>3. CASE policy.reveal = "origin-sealed"
  <2>1. serve_class(request, policy) = WithheldBy(policy, <<policy.authority, "attestation">>)
    BY <1>3 DEF serve_class
  <2>2. OutcomeFor(policy, verifier)
          = Outcome("attestation-offer", <<policy.authority, "attestation">>)
    BY <1>3 DEF OutcomeFor
  <2>3. \A offer : /\ ~WithheldBy(policy, offer).served /\ WithheldBy(policy, offer).offer = offer
                   /\ Outcome("attestation-offer", offer).party = offer
                   /\ Outcome("attestation-offer", offer).outcome = "attestation-offer"
    BY DEF WithheldBy, Outcome
  <2> QED BY <2>1, <2>2, <2>3 DEF request
<1>4. CASE policy.reveal = "escrowed"
  <2>1. serve_class(request, policy) = WithheldBy(policy, <<policy.authority, "escrow">>)
    BY <1>4 DEF serve_class
  <2>2. OutcomeFor(policy, verifier) = Outcome("escalation", <<policy.authority, "escrow">>)
    BY <1>4 DEF OutcomeFor
  <2>3. \A offer : /\ ~WithheldBy(policy, offer).served /\ WithheldBy(policy, offer).offer = offer
                   /\ Outcome("escalation", offer).party = offer
                   /\ Outcome("escalation", offer).outcome = "escalation"
    BY DEF WithheldBy, Outcome
  <2> QED BY <2>1, <2>2, <2>3 DEF request
<1> QED BY <1>2, <1>3, <1>4 DEF RevealClass

\* The seam and the retrieval interface agree on every published policy
\* (s13/lib.rs:166, dppr/lib.rs:172).
THEOREM SeamsAlwaysAgree == GSpec => []SeamsAgree
<1>1. GInv => SeamsAgree
  <2> SUFFICES ASSUME GInv, NEW id \in Policies, NEW v \in DOMAIN policies[id],
                      NEW verifier \in Verifiers, NEW reveal \in RevealClass
               PROVE  LET policy == [policies[id][v] EXCEPT !.reveal = reveal]
                          answer == serve_class([authorization |-> verifier], policy)
                          outcome == OutcomeFor(policy, verifier)
                      IN  Allowed(policy, verifier) =>
                            /\ answer.served <=> outcome.outcome \in {"permit", "permit-paired"}
                            /\ ~answer.served => answer.offer = outcome.party
    BY DEF SeamsAgree
  <2>1. policies[id][v] \in PolicyObjects
    BY DEF GInv, PoliciesOK
  <2>2. [policies[id][v] EXCEPT !.reveal = reveal].reveal \in RevealClass
    BY <2>1 DEF PolicyObjects
  <2> QED BY <2>2, SeamsAgreeOn
<1> QED BY <1>1, ReferencesKept, PTL

-----------------------------------------------------------------------------
(* Spines and reports.                                                     *)

\* What the segments, the spines and the reports are made of.
States    == {commit_state(n) : n \in Nat}
Spines    == {SpineOver(v, c) : v \in Nat, c \in UNION {[D -> States] : D \in SUBSET SegmentIds}}
Responses == {evaluate(request, policy, reader) :
                request \in Requests, policy \in PolicyObjects, reader \in Readers}
Claims    == {"verified-direct", "attested-by-authority", "explicitly-unavailable"}
Classes   == {[step |-> "classify", entry |-> EntryFor(a, evidence)] :
                a \in Responses, evidence \in Claims}
Gaps      == {[step |-> "gap", data_class |-> a.request_digest.segment] : a \in Responses}
Steps     == Classes \cup Gaps

SegmentOK(x) ==
  /\ x = [policy |-> x.policy, state_commitment |-> x.state_commitment, sequence |-> x.sequence]
  /\ x.sequence \in Nat /\ x.state_commitment \in States

SegmentsOK ==
  /\ segments = [s \in DOMAIN segments |-> segments[s]]
  /\ DOMAIN segments \subseteq SegmentIds
  /\ \A s \in DOMAIN segments : SegmentOK(segments[s])

\* The entries that claim what some answer lets a verifier claim.
BackedEntries == {e \in {EntryFor(a, evidence) : a \in answers, evidence \in Claims} :
                    \E a \in answers : \E evidence \in Evidence(a.outcome) :
                      e = EntryFor(a, evidence)}
BackedRoute(r) ==
  r \in Seq(Steps) /\ \A i \in 1..Len(r) : IsClassify(r[i]) => r[i].entry \in BackedEntries

\* A report is the replay of a route that was backed.
ReportOK ==
  report # None => report = replay(report.route, "subject") /\ BackedRoute(report.route)

OInv ==
  /\ SegmentsOK /\ spines \in Seq(Spines) /\ answers \subseteq Responses
  /\ BackedRoute(route) /\ ReportOK

LEMMA OInvInit == GInit => OInv
BY DEF GInit, OInv, SegmentsOK, BackedRoute, ReportOK

LEMMA OpenStep ==
  ASSUME OInv, NEW s \in SegmentIds, NEW id \in Policies, OpenSegment(s, id)
  PROVE  SegmentsOK'
<1> PICK new : new = [policy |-> PolicyRefOf(Newest(id)),
                      state_commitment |-> commit_state(0), sequence |-> 0]
  OBVIOUS
<1>1. segments' = [x \in DOMAIN segments \cup {s} |-> IF x = s THEN new ELSE segments[x]]
  BY DEF OpenSegment
<1>2. SegmentOK(new)
  BY DEF SegmentOK, States
<1> QED BY <1>1, <1>2 DEF OInv, SegmentsOK

LEMMA ExtendStep ==
  ASSUME OInv, NEW s \in DOMAIN segments, Extend(s)
  PROVE  SegmentsOK'
<1> PICK n : n = segments[s].sequence + 1
  OBVIOUS
<1> PICK new : new = [segments[s] EXCEPT !.sequence = n, !.state_commitment = commit_state(n)]
  OBVIOUS
<1>1. SegmentOK(segments[s])
  BY DEF OInv, SegmentsOK
<1>2. n \in Nat
  BY <1>1 DEF SegmentOK
<1>3. segments' = [segments EXCEPT ![s] = new]
  BY DEF Extend
<1>4. new = [policy |-> segments[s].policy, state_commitment |-> commit_state(n), sequence |-> n]
  BY <1>1 DEF SegmentOK
<1>5. SegmentOK(new)
  BY <1>2, <1>4 DEF SegmentOK, States
<1> QED BY <1>3, <1>5 DEF OInv, SegmentsOK

LEMMA RepinStep ==
  ASSUME OInv, NEW s \in DOMAIN segments, Repin(s)
  PROVE  SegmentsOK'
<1> PICK ref : ref = PolicyRefOf(held[Custodian].policy)
  OBVIOUS
<1> PICK new : new = [segments[s] EXCEPT !.policy = ref]
  OBVIOUS
<1>1. SegmentOK(segments[s])
  BY DEF OInv, SegmentsOK
<1>2. segments' = [segments EXCEPT ![s] = new]
  BY DEF Repin
<1>3. new = [policy |-> ref, state_commitment |-> segments[s].state_commitment,
             sequence |-> segments[s].sequence]
  BY <1>1 DEF SegmentOK
<1>4. SegmentOK(new)
  BY <1>1, <1>3 DEF SegmentOK
<1> QED BY <1>2, <1>4 DEF OInv, SegmentsOK

LEMMA PublishStep ==
  ASSUME OInv, Publish
  PROVE  spines' \in Seq(Spines)
<1> PICK c : c = [s \in DOMAIN segments |-> segments[s].state_commitment]
  OBVIOUS
<1>1. c \in [DOMAIN segments -> States] /\ DOMAIN segments \in SUBSET SegmentIds
  BY DEF OInv, SegmentsOK, SegmentOK
<1>2. SpineOver(Len(spines) + 1, c) \in Spines
  <2>1. Len(spines) + 1 \in Nat
    BY DEF OInv
  <2> QED BY <1>1, <2>1 DEF Spines
<1>3. spines' = Append(spines, SpineOver(Len(spines) + 1, c))
  BY DEF Publish
<1> QED BY <1>2, <1>3 DEF OInv

\* A recorded step is backed by the answer it was recorded for.
LEMMA RecordStep ==
  ASSUME OInv, NEW step \in Steps, IsClassify(step) => step.entry \in BackedEntries, Record(step)
  PROVE  BackedRoute(route)'
<1>1. route' = Append(route, step) /\ answers' = answers
  BY DEF Record
<1>2. /\ route \in Seq(Steps)
      /\ \A i \in 1..Len(route) : IsClassify(route[i]) => route[i].entry \in BackedEntries
  BY DEF OInv, BackedRoute
<1>3. /\ Append(route, step) \in Seq(Steps)
      /\ Len(Append(route, step)) = Len(route) + 1 /\ Len(route) \in Nat
      /\ \A i \in 1..Len(route) : Append(route, step)[i] = route[i]
      /\ Append(route, step)[Len(route) + 1] = step
  BY <1>2
<1>4. ASSUME NEW i \in 1..Len(route'), IsClassify(route'[i])
      PROVE  route'[i].entry \in BackedEntries
  <2>1. i \in 1..Len(route) \/ i = Len(route) + 1
    BY <1>1, <1>3
  <2> QED BY <1>1, <1>2, <1>3, <1>4, <2>1
<1> QED BY <1>1, <1>3, <1>4 DEF BackedRoute, BackedEntries

LEMMA GapStep ==
  ASSUME OInv, NEW a \in answers, Gap(a)
  PROVE  BackedRoute(route)'
<1> PICK step : step = [step |-> "gap", data_class |-> a.request_digest.segment]
  OBVIOUS
<1>1. step \in Steps /\ ~IsClassify(step)
  BY DEF OInv, Steps, Gaps, IsClassify
<1>2. Record(step)
  BY DEF Gap
<1> QED BY <1>1, <1>2, RecordStep

LEMMA ClassifyStep ==
  ASSUME OInv, NEW a \in answers, NEW evidence \in Evidence(a.outcome), Classify(a, evidence)
  PROVE  BackedRoute(route)'
<1> PICK step : step = [step |-> "classify", entry |-> EntryFor(a, evidence)]
  OBVIOUS
<1>1. evidence \in Claims
  BY DEF Evidence, Claims
<1>2. step \in Steps
  BY <1>1 DEF OInv, Steps, Classes
<1>3. step.entry \in BackedEntries
  BY <1>1 DEF BackedEntries
<1>4. Record(step)
  BY DEF Classify
<1> QED BY <1>2, <1>3, <1>4, RecordStep

\* Answers are never taken back, so what was backed stays backed.
LEMMA BackedGrows ==
  ASSUME answers \subseteq answers', NEW r, BackedRoute(r)
  PROVE  BackedRoute(r)'
<1>1. BackedEntries \subseteq BackedEntries'
  BY DEF BackedEntries
<1> QED BY <1>1 DEF BackedRoute

LEMMA OInvStep == GInv /\ OInv /\ [GNext]_gvars => OInv'
<1> SUFFICES ASSUME GInv, OInv, [GNext]_gvars PROVE OInv'
  OBVIOUS
<1>1. ASSUME UNCHANGED <<spines, answers, route, report>>, SegmentsOK' PROVE OInv'
  BY <1>1 DEF OInv, BackedRoute, BackedEntries, ReportOK
<1>2. CASE UNCHANGED <<segments, spines, answers, route, report>>
  <2>1. SegmentsOK'
    BY <1>2 DEF OInv, SegmentsOK
  <2> QED BY <1>1, <1>2, <2>1
<1>3. ASSUME NEW s \in SegmentIds, NEW id \in Policies, OpenSegment(s, id) PROVE OInv'
  BY <1>1, <1>3, OpenStep DEF OpenSegment
<1>4. ASSUME NEW s \in DOMAIN segments, Extend(s) \/ Repin(s) PROVE OInv'
  BY <1>1, <1>4, ExtendStep, RepinStep DEF Extend, Repin
<1>5. CASE Publish
  <2>1. UNCHANGED <<segments, answers, route, report>>
    BY <1>5 DEF Publish
  <2> QED BY <1>5, <2>1, PublishStep
          DEF OInv, SegmentsOK, BackedRoute, BackedEntries, ReportOK
<1>6. ASSUME NEW request \in Requests, Answer(request) PROVE OInv'
  <2>1. /\ answers' = answers \cup {evaluate(request, held[Custodian].policy, Custodian)}
        /\ UNCHANGED <<segments, spines, route, report>> /\ held[Custodian] # None
    BY <1>6 DEF Answer
  <2>2. held[Custodian].policy \in PolicyObjects /\ Custodian \in Readers
    BY <2>1, GridConstantsOK DEF GInv, HeldOK, HeldObject
  <2>3. evaluate(request, held[Custodian].policy, Custodian) \in Responses
    BY <2>2 DEF Responses
  <2>4. answers' \subseteq Responses /\ answers \subseteq answers'
    BY <2>1, <2>3 DEF OInv
  <2>5. BackedRoute(route)'
    <3>1. BackedRoute(route)
      BY DEF OInv
    <3>2. PICK r : r = route
      OBVIOUS
    <3>3. BackedRoute(r)'
      BY <2>4, <3>1, <3>2, BackedGrows
    <3> QED BY <2>1, <3>2, <3>3
  <2>6. ReportOK'
    <3>1. PICK r : r = report.route
      OBVIOUS
    <3>2. report # None => BackedRoute(r)'
      BY <2>4, <3>1, BackedGrows DEF OInv, ReportOK
    <3> QED BY <2>1, <3>1, <3>2 DEF OInv, ReportOK
  <2> QED BY <2>1, <2>4, <2>5, <2>6 DEF OInv, SegmentsOK
<1>7. ASSUME NEW a \in answers,
             Gap(a) \/ \E evidence \in Evidence(a.outcome) : Classify(a, evidence)
      PROVE  OInv'
  <2>1. UNCHANGED <<segments, spines, answers, report>>
    BY <1>7 DEF Gap, Classify, Record
  <2>2. BackedRoute(route)'
    BY <1>7, GapStep, ClassifyStep
  <2> QED BY <2>1, <2>2 DEF OInv, SegmentsOK, BackedRoute, BackedEntries, ReportOK
<1>8. CASE Report
  <2>1. report' = replay(route, "subject") /\ UNCHANGED <<segments, spines, answers, route>>
    BY <1>8 DEF Report
  <2>2. report'.route = route
    BY <2>1 DEF replay
  <2> QED BY <2>1, <2>2 DEF OInv, SegmentsOK, BackedRoute, BackedEntries, ReportOK
<1> QED BY <1>2, <1>3, <1>4, <1>5, <1>6, <1>7, <1>8 DEF GNext, gvars, Supersede, Fetch

THEOREM ObjectsKept == GSpec => []OInv
<1>1. GInv /\ OInv /\ [GNext]_gvars => OInv'
  BY OInvStep
<1> QED BY <1>1, OInvInit, ReferencesKept, PTL DEF GSpec

-----------------------------------------------------------------------------

LEMMA SpineIs ==
  ASSUME OInv, NEW i \in DOMAIN spines
  PROVE  /\ IsCommitments(spines[i].commitments)
         /\ spines[i] = SpineOver(spines[i].version, spines[i].commitments)
<1>1. spines[i] \in Spines
  BY DEF OInv
<1>2. PICK v \in Nat, c \in UNION {[D -> States] : D \in SUBSET SegmentIds} :
        spines[i] = SpineOver(v, c)
  BY <1>1 DEF Spines
<1>3. spines[i].version = v /\ spines[i].commitments = c
  BY <1>2 DEF SpineOver
<1>4. IsFiniteSet(SegmentIds) /\ SegmentIds \subseteq Nat
  BY GridConstantsOK, FS_Interval DEF SegmentIds
<1>5. DOMAIN c \in SUBSET SegmentIds
  BY <1>2
<1> QED BY <1>2, <1>3, <1>4, <1>5, FS_Subset DEF IsCommitments

\* Every segment of every published spine has a proof that verifies, and no
\* proof verifies that tells another commitment, or a segment the spine does not
\* hold, wherever its path was taken from (spine.rs:47, :166); for any
\* number of segments, however often they were extended.
THEOREM ProofsAlwaysExact == GSpec => []ProofsExact
<1>1. OInv => ProofsExact
  <2> SUFFICES ASSUME OInv PROVE ProofsExact
    OBVIOUS
  <2>1. ASSUME NEW i \in DOMAIN spines, NEW s \in DOMAIN spines[i].commitments
        PROVE  verifies_against(proof(spines[i], s), spines[i].root)
    <3>1. /\ IsCommitments(spines[i].commitments)
          /\ spines[i] = SpineOver(spines[i].version, spines[i].commitments)
      BY SpineIs
    <3>2. verifies_against(
            proof(SpineOver(spines[i].version, spines[i].commitments), s),
            SpineOver(spines[i].version, spines[i].commitments).root)
      BY <3>1, ProofVerifies
    <3> QED BY <3>1, <3>2
  <2>2. ASSUME NEW i \in DOMAIN spines, NEW s \in DOMAIN spines[i].commitments
        PROVE  Len(proof(spines[i], s).siblings) \in Nat
    BY <2>2, SpineIs, PathIsFinite
  <2>3. ASSUME NEW i \in DOMAIN spines, NEW s, NEW c, NEW path, Len(path) \in Nat,
               verifies_against([segment_id |-> s, commitment |-> c,
                                 root |-> spines[i].root, siblings |-> path], spines[i].root)
        PROVE  s \in DOMAIN spines[i].commitments /\ spines[i].commitments[s] = c
    <3>1. PICK p : p = [segment_id |-> s, commitment |-> c, root |-> spines[i].root,
                        siblings |-> path]
      OBVIOUS
    <3>2. p.segment_id = s /\ p.commitment = c /\ p.siblings = path
      BY <3>1
    <3>3. PICK n \in Nat : n = Len(p.siblings)
      BY <2>3, <3>2
    <3>4. /\ IsCommitments(spines[i].commitments)
          /\ verifies_against(p, SpineOver(spines[i].version, spines[i].commitments).root)
      BY <2>3, <3>1, SpineIs
    <3> QED BY <3>2, <3>3, <3>4, ProofBinds
  <2>4. ProofsVerify
    BY <2>1 DEF ProofsVerify
  <2>5. ProofsBind
    BY <2>2, <2>3 DEF ProofsBind
  <2> QED BY <2>4, <2>5 DEF ProofsExact
<1> QED BY <1>1, ObjectsKept, PTL

\* What an answer lets a verifier claim, the policy version it cites bears out.
LEMMA ClaimBorneOut ==
  ASSUME GInv, OInv, NEW e \in BackedEntries
  PROVE  LET policy == policies[e.governing_policy][e.governing_policy_version]
         IN  /\ e.evidence \in Claims
             /\ e.evidence = "verified-direct" => policy.reveal \in {"open", "pairing-gated"}
             /\ e.evidence = "attested-by-authority" => policy.reveal = "origin-sealed"
             /\ e.evidence # "explicitly-unavailable" =>
                  \E verifier \in Verifiers : Allowed(policy, verifier)
<1>0. PICK a \in answers : \E evidence \in Evidence(a.outcome) : e = EntryFor(a, evidence)
  BY DEF BackedEntries
<1>1. PICK evidence \in Evidence(a.outcome) : e = EntryFor(a, evidence)
  BY <1>0
<1> PICK policy : policy = policies[a.governing_policy][a.governing_policy_version]
  OBVIOUS
<1>2. /\ e.evidence = evidence /\ evidence \in Claims
      /\ policy = policies[e.governing_policy][e.governing_policy_version]
  BY <1>1 DEF EntryFor, Evidence, Claims
<1>3. a = evaluate(a.request_digest, policy, a.custodian)
  BY DEF GInv, AnswersOK, CitedVersion
<1>4. PICK v : v = a.request_digest.verifier
  OBVIOUS
<1>5. a.outcome = OutcomeFor(policy, v)
  <2>1. \A x : evaluate(a.request_digest, policy, x).outcome = OutcomeFor(policy, v)
    BY <1>4 DEF evaluate
  <2> QED BY <1>3, <2>1
<1>6. v \in Verifiers
  <2>1. a \in Responses
    BY DEF OInv
  <2>2. a.request_digest \in Requests
    BY <2>1 DEF Responses, evaluate
  <2> QED BY <1>4, <2>2 DEF Requests
<1>7. policy.reveal \in RevealClass
  <2>1. /\ a.governing_policy \in Policies
        /\ a.governing_policy_version \in 1..Len(policies[a.governing_policy])
    BY DEF GInv, AnswersOK, CitedVersion
  <2>2. policy \in PolicyObjects
    BY <2>1 DEF GInv, PoliciesOK
  <2> QED BY <2>2 DEF PolicyObjects
<1>8. /\ evidence = "verified-direct" => a.outcome.outcome \in {"permit", "permit-paired"}
      /\ evidence = "attested-by-authority" => a.outcome.outcome = "attestation-offer"
  BY <1>1 DEF Evidence
<1>9. /\ a.outcome.outcome \in {"permit", "permit-paired"} =>
           Allowed(policy, v) /\ policy.reveal \in {"open", "pairing-gated"}
      /\ a.outcome.outcome = "attestation-offer" =>
           Allowed(policy, v) /\ policy.reveal = "origin-sealed"
  <2>1. \A token, party : Outcome(token, party).outcome = token
    BY DEF Outcome
  <2> QED BY <1>5, <1>7, <2>1 DEF OutcomeFor, RevealClass
<1> QED BY <1>2, <1>6, <1>8, <1>9 DEF Claims

\* What a report claims of a class is borne out by the published policy version its
\* entry names, whatever was superseded between the fetch, the answer, the record
\* and the report (s13/lib.rs:166, coverage.rs:6).
THEOREM ReportsAlwaysBacked == GSpec => []ReportsBacked
<1>1. GInv /\ OInv => ReportsBacked
  <2> SUFFICES ASSUME GInv, OInv, report # None, NEW i \in DOMAIN report.entries
               PROVE  LET entry  == report.entries[i]
                          policy == policies[entry.governing_policy][entry.governing_policy_version]
                          claims(reveals) ==
                            policy.reveal \in reveals
                            /\ \E verifier \in Verifiers : Allowed(policy, verifier)
                      IN  CASE entry.evidence = "verified-direct" -> claims({"open", "pairing-gated"})
                            [] entry.evidence = "attested-by-authority" -> claims({"origin-sealed"})
                            [] OTHER -> entry.evidence = "explicitly-unavailable"
    BY Zenon DEF ReportsBacked
  <2>1. report = replay(report.route, "subject") /\ BackedRoute(report.route)
    BY DEF OInv, ReportOK
  <2>2. report.entries = Classified(report.route)
    BY <2>1 DEF replay
  <2>3. Len(report.route) \in Nat
    BY <2>1 DEF BackedRoute
  <2>4. Classified(report.route) \in Seq(BackedEntries)
    BY <2>1, <2>3, ClassifiedAre DEF BackedRoute
  <2>5. report.entries[i] \in BackedEntries
    BY <2>2, <2>4
  <2> PICK e \in BackedEntries : e = report.entries[i]
    BY <2>5
  <2> QED BY ClaimBorneOut DEF Claims
<1> QED BY <1>1, ReferencesKept, ObjectsKept, PTL

-----------------------------------------------------------------------------
(* The record of a subject: what erasure takes and an archive tells.       *)

Facts == Notes \cup Stored

TypesOK ==
  /\ contents \in [Segs -> SUBSET Facts] /\ sealed \in [Segs -> (SUBSET Facts) \cup {None}]
  /\ keys \in [Segs -> BOOLEAN] /\ DOMAIN shredded = Segs

\* Personal data is where the owner holds the keys.
PersonalHeldByOwner ==
  \A s \in Segs : (\E fact \in contents[s] \cap Notes : fact.personal) => s \in OwnerHeld

\* The parts of a package that were altered differ from what was archived, a manifest
\* from every hash, and the others do not.
Parts == {"subject", "core_state", "integrity_manifest"}
PackageIs(x) ==
  /\ x = [subject |-> x.subject, core_state |-> x.core_state,
          integrity_manifest |-> x.integrity_manifest, archived_at |-> x.archived_at]
  /\ decayed \subseteq Parts /\ archived \in SUBSET Facts /\ x.core_state \in SUBSET Facts
  /\ x.subject = "subject" <=> "subject" \notin decayed
  /\ x.core_state = archived <=> "core_state" \notin decayed
  /\ x.integrity_manifest = IF "integrity_manifest" \in decayed THEN None ELSE archived
PackageOK == package # None => PackageIs(package)

\* The spine commits to what is sealed, and for an erased segment to what was.
SpineOK ==
  /\ spine = SpineOver(spine.version, spine.commitments)
  /\ DOMAIN spine.commitments \subseteq Segs
  /\ \A s \in Segs :
       /\ sealed[s] # None =>
            /\ s \in DOMAIN spine.commitments
            /\ spine.commitments[s] = IF shredded[s] = None THEN commit_state(sealed[s])
                                                            ELSE shredded[s]
       /\ shredded[s] # None => sealed[s] # None

SInv == TypesOK /\ PersonalHeldByOwner /\ KeysLostOnlyByErasure /\ PackageOK /\ SpineOK

-----------------------------------------------------------------------------
(* The invariant.                                                          *)

\* A measurement is no note.
LEMMA StoredIsMeasured ==
  ASSUME NEW offer, "stored" \in DOMAIN Result(offer)
  PROVE  "unit" \in DOMAIN Result(offer).stored
<1>1. ASSUME NEW kind, NEW o, NEW u, "stored" \in DOMAIN Un!intake(kind, o, u)
      PROVE  "unit" \in DOMAIN Un!intake(kind, o, u).stored
  <2>1. Un!intake(kind, o, u) = [stored |-> Un!Measured(o.value, o.unit, u)]
    BY <1>1 DEF Un!intake
  <2>2. "unit" \in DOMAIN Un!Measured(o.value, o.unit, u)
    BY DEF Un!Measured
  <2> HIDE DEF Un!Measured
  <2> QED BY <2>1, <2>2
<1> QED BY <1>1 DEF Result

LEMMA SInvInit == SInit => SInv
<1> SUFFICES ASSUME SInit PROVE SInv
  OBVIOUS
<1>1. /\ contents = [s \in Segs |-> {}] /\ sealed = [s \in Segs |-> None]
      /\ keys = [s \in Segs |-> TRUE] /\ shredded = [s \in Segs |-> None]
      /\ package = None
  BY DEF SInit
<1>2. TypesOK
  BY <1>1 DEF TypesOK
<1>3. SpineOK
  <2>1. spine = SpineOver(0, << >>)
    BY DEF SInit
  <2>2. spine.version = 0 /\ spine.commitments = << >>
    BY <2>1 DEF SpineOver
  <2> QED BY <1>1, <2>1, <2>2 DEF SpineOK
<1> QED BY <1>1, <1>2, <1>3
        DEF SInv, PersonalHeldByOwner, KeysLostOnlyByErasure, PackageOK

\* A fact that is personal is admitted by the owner only.
LEMMA AdmitStep ==
  ASSUME SInv, NEW s \in Segs, NEW fact \in Facts, Admit(s, fact), UNCHANGED asked,
         fact \in Notes /\ fact.personal => s \in OwnerHeld
  PROVE  SInv'
<1>1. /\ contents' = [contents EXCEPT ![s] = @ \cup {fact}]
      /\ UNCHANGED <<sealed, keys, spine, shredded, package, archived, decayed>>
  BY DEF Admit, archive
<1>2. TypesOK'
  BY <1>1 DEF SInv, TypesOK
<1>3. PersonalHeldByOwner'
  <2> SUFFICES ASSUME NEW x \in Segs, NEW f \in contents'[x] \cap Notes, f.personal
               PROVE  x \in OwnerHeld
    BY DEF PersonalHeldByOwner
  <2>1. f \in contents[x] \/ (x = s /\ f = fact)
    BY <1>1 DEF SInv, TypesOK
  <2> QED BY <2>1 DEF SInv, PersonalHeldByOwner
<1> QED BY <1>1, <1>2, <1>3 DEF SInv, KeysLostOnlyByErasure, PackageOK, PackageIs, SpineOK

\* Erasure destroys the keys of a segment and keeps a commitment, or does neither.
LEMMA EraseStep ==
  ASSUME SInv, NEW s \in Segs, Erase(s)
  PROVE  SInv'
<1> DEFINE erasure == erase_by_shredding(s, sealed[s], keys[s], s \in OwnerHeld)
<1>1. /\ keys' = [keys EXCEPT ![s] = erasure.keys]
      /\ contents' = [contents EXCEPT ![s] = IF erasure.keys THEN @ ELSE {}]
      /\ shredded' = [shredded EXCEPT ![s] =
           IF erasure.outcome.outcome = "shredded" THEN erasure.outcome.commitment ELSE @]
      /\ UNCHANGED <<sealed, spine, package, archived, decayed>>
      /\ keys[s] /\ sealed[s] # None
  BY DEF Erase, Erased, archive
<1>2. CASE s \in OwnerHeld
  <2>1. /\ erasure.keys = FALSE /\ erasure.outcome.outcome = "shredded"
        /\ erasure.outcome.commitment = commit_state(sealed[s])
    BY <1>2 DEF erase_by_shredding
  <2>2. commit_state(sealed[s]) # None
    <3>1. sealed[s] \in SUBSET (Notes \cup Stored)
      BY <1>1 DEF SInv, TypesOK, Facts
    <3> QED BY <3>1, FactsOK
  <2> HIDE DEF erasure
  <2>3. /\ keys' = [keys EXCEPT ![s] = FALSE] /\ contents' = [contents EXCEPT ![s] = {}]
        /\ shredded' = [shredded EXCEPT ![s] = commit_state(sealed[s])]
    BY <1>1, <2>1
  <2>4. TypesOK' /\ PersonalHeldByOwner'
    BY <1>1, <2>3 DEF SInv, TypesOK, PersonalHeldByOwner
  <2>5. KeysLostOnlyByErasure'
    BY <2>2, <2>3 DEF SInv, TypesOK, KeysLostOnlyByErasure
  <2>6. SpineOK'
    <3>1. shredded[s] = None
      BY <1>1 DEF SInv, KeysLostOnlyByErasure
    <3>2. spine.commitments[s] = commit_state(sealed[s]) /\ s \in DOMAIN spine.commitments
      BY <1>1, <3>1 DEF SInv, SpineOK
    <3>3. UNCHANGED <<spine, sealed>> /\ shredded'[s] = commit_state(sealed[s])
          /\ \A x \in Segs : x # s => shredded'[x] = shredded[x]
      BY <1>1, <2>3 DEF SInv, TypesOK
    <3> QED BY <1>1, <2>2, <3>2, <3>3 DEF SInv, SpineOK
  <2> QED BY <1>1, <2>4, <2>5, <2>6 DEF SInv, PackageOK, PackageIs
<1>3. CASE s \notin OwnerHeld
  <2>1. erasure.keys = keys[s] /\ erasure.outcome.outcome # "shredded"
    BY <1>3 DEF erase_by_shredding
  <2> HIDE DEF erasure
  <2>2. keys' = [keys EXCEPT ![s] = keys[s]] /\ contents' = [contents EXCEPT ![s] = contents[s]]
    BY <1>1, <2>1
  <2>3. shredded' = [shredded EXCEPT ![s] = shredded[s]]
    BY <1>1, <2>1
  <2>4. keys' = keys /\ contents' = contents
    BY <2>2 DEF SInv, TypesOK
  <2>5. DOMAIN shredded' = Segs /\ \A x \in Segs : shredded'[x] = shredded[x]
    BY <2>3 DEF SInv, TypesOK
  <2> QED BY <1>1, <2>4, <2>5
          DEF SInv, TypesOK, PersonalHeldByOwner, KeysLostOnlyByErasure, PackageOK, PackageIs, SpineOK
<1> QED BY <1>2, <1>3

\* The package is made, moved to another medium, or decays.
LEMMA PackageMade ==
  ASSUME TypesOK, Archive
  PROVE  PackageOK'
<1>1. /\ package' = export("subject", archived', 0) /\ decayed' = {}
      /\ archived' = UNION {contents[s] : s \in Segs}
  BY DEF Archive
<1>2. archived' \in SUBSET Facts
  BY <1>1 DEF TypesOK
<1>3. ASSUME NEW x, x = export("subject", archived', 0)
      PROVE  /\ x = [subject |-> x.subject, core_state |-> x.core_state,
                     integrity_manifest |-> x.integrity_manifest, archived_at |-> x.archived_at]
             /\ x.subject = "subject" /\ x.core_state = archived'
             /\ x.integrity_manifest = archived'
  BY <1>3 DEF export
<1> QED BY <1>1, <1>2, <1>3 DEF PackageIs, PackageOK

LEMMA PackageMoved ==
  ASSUME PackageOK, RefreshMedia
  PROVE  PackageOK'
<1>1. /\ package # None /\ archived' = archived /\ decayed' = decayed
      /\ \E at : package' = [package EXCEPT !.archived_at = at]
  BY DEF RefreshMedia, refresh_media
<1> QED BY <1>1 DEF PackageIs, PackageOK

\* A part that was not altered before is altered to something else.
LEMMA PackageSpoilt ==
  ASSUME PackageOK, NEW part \in Parts, Decay(part)
  PROVE  PackageOK'
<1>1. /\ package # None /\ archived' = archived /\ part \notin decayed
      /\ decayed' = decayed \cup {part}
  BY DEF Decay
<1>2. PICK read \in Misread(part) : package' = [package EXCEPT ![part] = read]
  BY DEF Decay
<1>3. PackageIs(package)
  BY <1>1 DEF PackageOK
<1>4. CASE part = "subject"
  <2>1. read = "another"
    BY <1>2, <1>4 DEF Misread
  <2>2. package' = [package EXCEPT !.subject = "another"]
    BY <1>2, <1>4, <2>1
  <2> QED BY <1>1, <1>3, <1>4, <2>2 DEF PackageIs, PackageOK, Parts
<1>5. CASE part = "integrity_manifest"
  <2>1. read = None
    BY <1>2, <1>5 DEF Misread
  <2>2. package' = [package EXCEPT !.integrity_manifest = None]
    BY <1>2, <1>5, <2>1
  <2> QED BY <1>1, <1>3, <1>5, <2>2 DEF PackageIs, PackageOK, Parts
<1>6. CASE part = "core_state"
  <2>1. PICK fact \in Notes : read = IF fact \in package.core_state
                                       THEN package.core_state \ {fact}
                                       ELSE package.core_state \cup {fact}
    BY <1>2, <1>6 DEF Misread
  <2>2. read \in SUBSET Facts /\ read # package.core_state
    BY <1>3, <2>1 DEF PackageIs, Facts
  <2>3. package' = [package EXCEPT !.core_state = read]
    BY <1>2, <1>6
  <2>4. package.core_state = archived
    BY <1>1, <1>3, <1>6 DEF PackageIs
  <2> QED BY <1>1, <1>3, <1>6, <2>2, <2>3, <2>4 DEF PackageIs, PackageOK, Parts
<1> QED BY <1>4, <1>5, <1>6 DEF Parts

LEMMA SInvStep == SInv /\ [SNext]_svars => SInv'
<1> SUFFICES ASSUME SInv, [SNext]_svars PROVE SInv'
  OBVIOUS
<1>1. ASSUME NEW s \in Segs, NEW offer \in Offers, Measure(s, offer), UNCHANGED asked
      PROVE  SInv'
  <2>1. Result(offer).stored \in Facts /\ Result(offer).stored \notin Notes
    BY <1>1, StoredIsMeasured, FactsOK DEF Measure, Facts, Stored
  <2> QED BY <1>1, <2>1, AdmitStep DEF Measure
<1>2. ASSUME NEW s \in Segs, NEW fact \in Notes, Note(s, fact), UNCHANGED asked
      PROVE  SInv'
  BY <1>2, AdmitStep DEF Note, Facts, minimization_ok
<1>3. CASE Seal
  <2>1. UNCHANGED <<contents, keys, shredded, package, archived, decayed>>
    BY <1>3 DEF Seal, archive
  <2>2. sealed' = [s \in Segs |-> IF shredded[s] = None THEN contents[s] ELSE sealed[s]]
    BY <1>3 DEF Seal
  <2> PICK c : c = [s \in Segs |-> IF shredded[s] = None THEN commit_state(contents[s])
                                                        ELSE shredded[s]]
    OBVIOUS
  <2>3. spine' = SpineOver(spine.version + 1, c)
    BY <1>3 DEF Seal
  <2>4. spine'.version = spine.version + 1 /\ spine'.commitments = c
    BY <2>3 DEF SpineOver
  <2>5. ASSUME NEW s \in Segs
        PROVE  /\ sealed'[s] = IF shredded[s] = None THEN contents[s] ELSE sealed[s]
               /\ s \in DOMAIN spine'.commitments
               /\ spine'.commitments[s] = IF shredded[s] = None THEN commit_state(contents[s])
                                                                ELSE shredded[s]
    BY <2>2, <2>4
  <2>6. SpineOK'
    <3>1. spine' = SpineOver(spine'.version, spine'.commitments)
      BY <2>3, <2>4
    <3>2. DOMAIN spine'.commitments \subseteq Segs
      BY <2>4
    <3>3. ASSUME NEW s \in Segs
          PROVE  /\ sealed'[s] # None =>
                      /\ s \in DOMAIN spine'.commitments
                      /\ spine'.commitments[s] =
                           IF shredded'[s] = None THEN commit_state(sealed'[s])
                                                  ELSE shredded'[s]
                 /\ shredded'[s] # None => sealed'[s] # None
      <4>1. CASE shredded[s] = None
        BY <2>1, <2>5, <4>1
      <4>2. CASE shredded[s] # None
        BY <2>1, <2>5, <4>2 DEF SInv, SpineOK
      <4> QED BY <4>1, <4>2
    <3> QED BY <3>1, <3>2, <3>3 DEF SpineOK
  <2> QED BY <2>1, <2>2, <2>6
          DEF SInv, TypesOK, PersonalHeldByOwner, KeysLostOnlyByErasure, PackageOK, PackageIs
<1>4. ASSUME NEW s \in Segs, Erase(s) PROVE SInv'
  BY <1>4, EraseStep
<1>5. CASE Archive \/ RefreshMedia \/ \E part \in Parts : Decay(part)
  <2>1. UNCHANGED store
    BY <1>5 DEF Archive, RefreshMedia, Decay
  <2>2. PackageOK'
    BY <1>5, PackageMade, PackageMoved, PackageSpoilt DEF SInv
  <2> QED BY <2>1, <2>2
          DEF SInv, TypesOK, PersonalHeldByOwner, KeysLostOnlyByErasure, SpineOK, store
<1>6. CASE UNCHANGED <<store, archive>>
  BY <1>6 DEF SInv, TypesOK, PersonalHeldByOwner, KeysLostOnlyByErasure, PackageOK,
              PackageIs, SpineOK, store, archive
<1> QED
  BY <1>1, <1>2, <1>3, <1>4, <1>5, <1>6 DEF SNext, Live, svars, Evaluate, ReEnter, Parts

LEMMA SInvariance == SSpec => []SInv
BY SInvInit, SInvStep, PTL DEF SSpec

-----------------------------------------------------------------------------
(* Results.                                                                *)

\* Personal data that was let in can be erased: minimization and erasure draw
\* the same boundary (lifecycle.rs:82, lifecycle.rs:62).
THEOREM PersonalDataAlwaysErasable == SSpec => []PersonalDataErasable
<1>1. SInv => PersonalDataErasable
  BY DEF SInv, PersonalHeldByOwner, PersonalDataErasable, erase_by_shredding
<1> QED BY <1>1, SInvariance, PTL

\* A refused erasure leaves the keys, a reported one destroyed them
\* (lifecycle.rs:62).
THEOREM KeysAlwaysLostByErasure == SSpec => []KeysLostOnlyByErasure
BY SInvariance, PTL DEF SInv

\* What survives of an erased segment is what the spine includes and proves
\* (lifecycle.rs:7), whatever was admitted or sealed since.
LEMMA SurvivesFromInv == SInv => SurvivingCommitmentProves
<1> SUFFICES ASSUME SInv, NEW s \in Segs, shredded[s] # None
             PROVE  /\ proof(spine, s).commitment = shredded[s]
                    /\ verifies_against(proof(spine, s), spine.root)
  BY DEF SurvivingCommitmentProves
<1>1. /\ s \in DOMAIN spine.commitments /\ spine.commitments[s] = shredded[s]
      /\ spine = SpineOver(spine.version, spine.commitments)
  BY DEF SInv, SpineOK
<1>2. IsCommitments(spine.commitments)
  BY SubjectConstantsOK, FS_Subset DEF SInv, SpineOK, IsCommitments
<1>3. verifies_against(proof(SpineOver(spine.version, spine.commitments), s),
                       SpineOver(spine.version, spine.commitments).root)
  BY <1>1, <1>2, ProofVerifies
<1>4. proof(spine, s).commitment = spine.commitments[s]
  BY DEF proof
<1> QED BY <1>1, <1>3, <1>4

\* Erasure takes the plaintext of all personal data that was let in and nothing of
\* what proves the history, wherever in a life it happens (lifecycle.rs:62, :82).
THEOREM ErasureAlwaysExact == SSpec => []ErasureExact
<1>1. SInv => PersonalDataErasable
  BY DEF SInv, PersonalHeldByOwner, PersonalDataErasable, erase_by_shredding
<1>2. SInv => ErasureExact
  BY <1>1, SurvivesFromInv DEF ErasureExact, SInv
<1> QED BY <1>2, SInvariance, PTL

\* A package verifies exactly while its medium has altered neither state nor manifest,
\* and renders as what was archived exactly while it has altered neither subject nor
\* state, through every number of media refreshes and every decay (lifecycle.rs:221-249).
THEOREM ArchiveAlwaysTellsDecay == SSpec => []ArchiveTellsDecay
<1>1. SInv => ArchiveTellsDecay
  <2> SUFFICES ASSUME PackageIs(package)
               PROVE  /\ verify_manifest(package) <=> decayed \subseteq {"subject"}
                      /\ render(package) = render(export("subject", archived, 0))
                           <=> decayed \subseteq {"integrity_manifest"}
    BY DEF SInv, PackageOK, ArchiveTellsDecay
  <2>1. verify_manifest(package) <=> "core_state" \notin decayed /\ "integrity_manifest" \notin decayed
    <3>1. None # package.core_state
      BY FactsOK DEF PackageIs, Facts
    <3> QED BY <3>1 DEF PackageIs, verify_manifest
  <2>2. render(package) = render(export("subject", archived, 0))
          <=> package.subject = "subject" /\ package.core_state = archived
    BY DEF render, export
  <2>3. /\ decayed \subseteq {"subject"}
             <=> "core_state" \notin decayed /\ "integrity_manifest" \notin decayed
        /\ decayed \subseteq {"integrity_manifest"}
             <=> "subject" \notin decayed /\ "core_state" \notin decayed
    BY DEF PackageIs, Parts
  <2> QED BY <2>1, <2>2, <2>3 DEF PackageIs
<1> QED BY <1>1, SInvariance, PTL

-----------------------------------------------------------------------------
(* The questions of a record: lookups.                                     *)

\* A question stays asked, and what is asked is a question.
LEMMA AskedStays == SSpec => [](asked \in Questions \cup {None})
<1>1. SInit => asked \in Questions \cup {None}
  BY DEF SInit
<1>2. asked \in Questions \cup {None} /\ [SNext]_svars => (asked \in Questions \cup {None})'
  BY DEF SNext, svars
<1> QED BY <1>1, <1>2, PTL DEF SSpec

LEMMA QuestionsAre ==
  ASSUME asked \in Questions \cup {None}
  PROVE  /\ About("label") => asked.tag \in InPlay /\ asked.other \in InPlay
         /\ About("links") => asked.one \in Contexts /\ asked.two \in Contexts
         /\ About("decision") => /\ asked.rule \in Bands /\ asked.value \in Int
                                 /\ asked.u \in {0, 3} /\ asked.limit \in Int
         /\ About("amount") => asked.offer \in Offers
         /\ About("clock") => asked.drift \in Int /\ asked.bound \in Int
BY DEF Questions, About

\* A tag is a sequence of subtags; its canonical case depends on their names alone,
\* and leaves the names as they are.
IsTag(tag) == DOMAIN tag \subseteq Nat /\ tag = [i \in DOMAIN tag |-> tag[i]]
              /\ \A i \in DOMAIN tag : tag[i] \in Subtags

LEMMA CanonicalCase ==
  ASSUME NEW tag, IsTag(tag), NEW other, IsTag(other)
  PROVE  (canonical_case(tag) = canonical_case(other)) <=> (Written(tag) = Written(other))
<1> DEFINE CaseAt(i, name) == CASE i = 2 /\ name \in FourLetters -> "Title"
                                [] i = 3 /\ name \in TwoLetters -> "UPPER"
                                [] OTHER -> "lower"
<1>1. ASSUME NEW t, IsTag(t)
      PROVE  /\ DOMAIN canonical_case(t) = DOMAIN t /\ DOMAIN Written(t) = DOMAIN t
             /\ \A i \in DOMAIN t : /\ Written(t)[i] = t[i].name
                                    /\ canonical_case(t)[i] = [name |-> t[i].name,
                                                               written |-> CaseAt(i, t[i].name)]
  <2>1. /\ DOMAIN canonical_case(t) = DOMAIN t /\ DOMAIN Written(t) = DOMAIN t
        /\ \A i \in DOMAIN t : Written(t)[i] = t[i].name
    BY DEF canonical_case, Written
  <2>2. \A i \in DOMAIN t : canonical_case(t)[i] = [t[i] EXCEPT !.written = CaseAt(i, t[i].name)]
    BY DEF canonical_case
  <2> HIDE DEF CaseAt
  <2>3. \A x \in Subtags : \A w : [x EXCEPT !.written = w] = [name |-> x.name, written |-> w]
    BY DEF Subtags
  <2> QED BY <1>1, <2>1, <2>2, <2>3 DEF IsTag
<1> HIDE DEF CaseAt
<1>2. \A n, w : [name |-> n, written |-> w].name = n
  OBVIOUS
<1>3. ASSUME canonical_case(tag) = canonical_case(other)
      PROVE  Written(tag) = Written(other)
  <2>1. DOMAIN tag = DOMAIN other
    BY <1>1, <1>3
  <2>2. ASSUME NEW i \in DOMAIN tag PROVE tag[i].name = other[i].name
    <3>1. canonical_case(tag)[i] = [name |-> tag[i].name, written |-> CaseAt(i, tag[i].name)]
      BY <1>1
    <3>2. canonical_case(other)[i] = [name |-> other[i].name, written |-> CaseAt(i, other[i].name)]
      BY <1>1, <2>1
    <3>3. [name |-> tag[i].name, written |-> CaseAt(i, tag[i].name)].name
            = [name |-> other[i].name, written |-> CaseAt(i, other[i].name)].name
      BY <1>3, <3>1, <3>2
    <3> QED BY <1>2, <3>3, Zenon
  <2> QED BY <2>1, <2>2 DEF Written
<1>4. ASSUME Written(tag) = Written(other)
      PROVE  canonical_case(tag) = canonical_case(other)
  <2>1. DOMAIN tag = DOMAIN other
    BY <1>1, <1>4
  <2>2. \A i \in DOMAIN tag : tag[i].name = other[i].name
    BY <1>1, <1>4, <2>1
  <2>3. \A i \in DOMAIN tag : canonical_case(tag)[i] = canonical_case(other)[i]
    BY <1>1, <2>1, <2>2
  <2>4. /\ canonical_case(tag) = [i \in DOMAIN tag |-> canonical_case(tag)[i]]
        /\ canonical_case(other) = [i \in DOMAIN other |-> canonical_case(other)[i]]
    BY DEF canonical_case
  <2> QED BY <2>1, <2>3, <2>4
<1> QED BY <1>3, <1>4

\* A value is found under the tag it was added with, in whatever case that is written,
\* and a value that is there is found as it was under every other tag
\* (multilingual.rs:127, :136).
THEOREM LabelsFoundAsWritten ==
  ASSUME NEW values, NEW tag, NEW value, NEW again, IsTag(tag), IsTag(again), validate(tag)
  PROVE  /\ Written(again) = Written(tag) => get(add(values, tag, value), again) = {value}
         /\ Written(again) # Written(tag) /\ canonical_case(again) \in DOMAIN values =>
              get(add(values, tag, value), again) = {values[canonical_case(again)]}
<1> DEFINE t == canonical_case(tag)
           want == canonical_case(again)
           more == add(values, tag, value)
<1>1. /\ DOMAIN more = DOMAIN values \cup {t}
      /\ more[t] = value /\ \A x \in DOMAIN values : x # t => more[x] = values[x]
  BY DEF add
<1>2. want \in DOMAIN more => get(more, again) = {more[want]}
  BY Zenon DEF get
<1>3. want = t <=> Written(again) = Written(tag)
  BY CanonicalCase
<1> HIDE DEF t, want, more
<1>4. CASE Written(again) = Written(tag)
  BY <1>1, <1>2, <1>3, <1>4 DEF more
<1>5. CASE Written(again) # Written(tag)
  BY <1>1, <1>2, <1>3, <1>5 DEF more, want
<1> QED BY <1>4, <1>5

\* Closeness is the same of the tags and of the keys they are held under.
KeyDistance(kept, want) ==
  IF kept = want THEN 0
  ELSE IF IsStrictPrefix(want, kept) THEN 1
  ELSE IF kept = English THEN 2 ELSE 3

CanonicalPart(t, i) == [name |-> t[i].name,
  written |-> CASE i = 2 /\ t[i].name \in FourLetters -> "Title"
                [] i = 3 /\ t[i].name \in TwoLetters -> "UPPER"
                [] OTHER -> "lower"]

LEMMA CanonicalIs ==
  ASSUME NEW m \in Nat, NEW t \in [1..m -> Subtags]
  PROVE  /\ canonical_case(t) \in Seq(Subtags) /\ Len(canonical_case(t)) = m
         /\ \A i \in 1..m : canonical_case(t)[i] = CanonicalPart(t, i)
         /\ Len(t) = m
<1> DEFINE CaseAt(i, name) == CASE i = 2 /\ name \in FourLetters -> "Title"
                                [] i = 3 /\ name \in TwoLetters -> "UPPER"
                                [] OTHER -> "lower"
<1>1. DOMAIN t = 1..m /\ Len(t) = m
  OBVIOUS
<1>2. \A i \in 1..m : CaseAt(i, t[i].name) \in Cases
  BY DEF Cases
<1>3. /\ canonical_case(t) = [i \in 1..m |-> canonical_case(t)[i]]
      /\ \A i \in 1..m : canonical_case(t)[i] = [t[i] EXCEPT !.written = CaseAt(i, t[i].name)]
  BY <1>1 DEF canonical_case
<1>4. \A i \in 1..m : CanonicalPart(t, i) = [name |-> t[i].name, written |-> CaseAt(i, t[i].name)]
  BY DEF CanonicalPart
<1> HIDE DEF CaseAt
<1>5. \A x \in Subtags, w \in Cases : /\ [x EXCEPT !.written = w] = [name |-> x.name, written |-> w]
                                      /\ [x EXCEPT !.written = w] \in Subtags
  BY DEF Subtags
<1>6. \A i \in 1..m : /\ canonical_case(t)[i] = CanonicalPart(t, i)
                      /\ canonical_case(t)[i] \in Subtags
  BY <1>2, <1>3, <1>4, <1>5
<1>7. canonical_case(t) \in [1..m -> Subtags]
  BY <1>3, <1>6
<1> QED BY <1>1, <1>6, <1>7

LEMMA PrefixIsExtension ==
  ASSUME NEW m \in Nat, NEW kept \in [1..m -> Subtags],
         NEW n \in Nat, NEW want \in [1..n -> Subtags]
  PROVE  IsStrictPrefix(canonical_case(want), canonical_case(kept)) <=> Extends(kept, want)
<1> DEFINE k == canonical_case(kept)
           w == canonical_case(want)
<1>1. /\ k \in Seq(Subtags) /\ Len(k) = m /\ \A i \in 1..m : k[i] = CanonicalPart(kept, i)
      /\ w \in Seq(Subtags) /\ Len(w) = n /\ \A i \in 1..n : w[i] = CanonicalPart(want, i)
      /\ Len(kept) = m /\ Len(want) = n /\ DOMAIN want = 1..n
  BY CanonicalIs
<1>2. ASSUME n <= m, NEW i \in 1..n
      PROVE  CanonicalPart(kept, i) = CanonicalPart(want, i) <=> kept[i].name = want[i].name
  <2>1. /\ CanonicalPart(kept, i).name = kept[i].name
        /\ CanonicalPart(want, i).name = want[i].name
    BY DEF CanonicalPart
  <2>2. kept[i].name = want[i].name => CanonicalPart(kept, i) = CanonicalPart(want, i)
    BY DEF CanonicalPart
  <2> QED BY <2>1, <2>2
<1> HIDE DEF k, w
<1>3. ASSUME n <= m
      PROVE  SubSeq(w, 1, n) = SubSeq(k, 1, n) <=> \A i \in 1..n : kept[i].name = want[i].name
  <2>1. /\ SubSeq(w, 1, n) = [i \in 1..n |-> w[i]]
        /\ SubSeq(k, 1, n) = [i \in 1..n |-> k[i]]
    BY <1>1, <1>3
  <2>2. SubSeq(w, 1, n) = SubSeq(k, 1, n) <=> \A i \in 1..n : w[i] = k[i]
    BY <2>1
  <2>3. \A i \in 1..n : i \in 1..m
    BY <1>3
  <2> QED BY <1>1, <1>2, <1>3, <2>2, <2>3
<1>4. n = m /\ SubSeq(w, 1, n) = SubSeq(k, 1, n) => w = k
  BY <1>1
<1>5. n < m => w # k
  BY <1>1
<1>6. IsStrictPrefix(w, k) <=> n <= m /\ SubSeq(w, 1, n) = SubSeq(k, 1, n) /\ w # k
  BY <1>1, Zenon DEF IsStrictPrefix, IsPrefix
<1>7. Extends(kept, want) <=> n < m /\ \A i \in 1..n : kept[i].name = want[i].name
  BY <1>1 DEF Extends
<1>8. n <= m <=> n < m \/ n = m
  OBVIOUS
<1> QED BY <1>3, <1>4, <1>5, <1>6, <1>7, <1>8 DEF k, w

LEMMA EnglishIs ==
  ASSUME NEW m \in Nat, NEW kept \in [1..m -> Subtags]
  PROVE  canonical_case(kept) = English <=> Written(kept) = <<"en">>
<1> DEFINE one == [i \in 1..1 |-> [name |-> "en", written |-> "lower"]]
<1>1. one = English
  BY DEF English
<1>2. one \in [1..1 -> Subtags]
  BY DEF Subtags, TwoLetters, Cases
<1>3. canonical_case(one) = one
  <2>1. CanonicalPart(one, 1) = one[1] /\ 1 \in 1..1 /\ 1 \in Nat
    BY DEF CanonicalPart, FourLetters, TwoLetters
  <2>2. one \in Seq(Subtags) /\ Len(one) = 1
    BY <1>2
  <2> HIDE DEF one
  <2>3. /\ canonical_case(one) \in Seq(Subtags) /\ Len(canonical_case(one)) = 1
        /\ canonical_case(one)[1] = one[1]
    BY <1>2, <2>1, CanonicalIs
  <2> QED BY <2>2, <2>3
<1>4. Written(one) = <<"en">>
  BY DEF Written
<1>5. IsTag(one) /\ IsTag(kept)
  BY <1>2 DEF IsTag
<1> HIDE DEF one
<1> QED BY <1>1, <1>3, <1>4, <1>5, CanonicalCase

LEMMA TagsInPlay ==
  \A tag \in InPlay : validate(tag) /\ IsTag(tag) /\ \E m \in Nat : tag \in [1..m -> Subtags]
<1>1. \A tag \in InPlay : tag \in SeqOf(Subtags, 2) /\ validate(tag)
  BY DEF InPlay, Tags
<1>2. ASSUME NEW tag \in SeqOf(Subtags, 2)
      PROVE  IsTag(tag) /\ \E m \in Nat : tag \in [1..m -> Subtags]
  <2>1. PICK m \in 0..2 : tag \in [1..m -> Subtags]
    BY DEF SeqOf
  <2> QED BY <2>1 DEF IsTag
<1> QED BY <1>1, <1>2

LEMMA DistanceOfKeys ==
  ASSUME NEW kept \in InPlay, NEW want \in InPlay
  PROVE  Distance(kept, want) = KeyDistance(canonical_case(kept), canonical_case(want))
<1>1. PICK m \in Nat : kept \in [1..m -> Subtags]
  BY TagsInPlay
<1>2. PICK n \in Nat : want \in [1..n -> Subtags]
  BY TagsInPlay
<1>3. canonical_case(kept) = canonical_case(want) <=> Written(kept) = Written(want)
  BY TagsInPlay, CanonicalCase
<1>4. IsStrictPrefix(canonical_case(want), canonical_case(kept)) <=> Extends(kept, want)
  BY <1>1, <1>2, PrefixIsExtension
<1>5. canonical_case(kept) = English <=> Written(kept) = <<"en">>
  BY <1>1, EnglishIs
<1> QED BY <1>3, <1>4, <1>5, Zenon DEF Distance, KeyDistance

\* What is found for any tag in any set of values is the value of a key that is as close
\* as any, and there is one unless the set is empty (multilingual.rs:133-153).
THEOREM ClosestLabelFound ==
  ASSUME NEW values, NEW again, DOMAIN values # {}
  PROVE  \E key \in DOMAIN values :
           /\ get(values, again) = {values[key]}
           /\ \A other \in DOMAIN values :
                KeyDistance(key, canonical_case(again)) <= KeyDistance(other, canonical_case(again))
<1> DEFINE want == canonical_case(again)
           longer == {kept \in DOMAIN values : IsStrictPrefix(want, kept)}
<1>1. \A key : KeyDistance(key, want) \in {0, 1, 2, 3}
  BY DEF KeyDistance
<1>2. CASE want \in DOMAIN values
  <2>1. get(values, again) = {values[want]}
    BY <1>2, Zenon DEF get
  <2>2. KeyDistance(want, want) = 0
    BY DEF KeyDistance
  <2> QED BY <1>1, <1>2, <2>1, <2>2
<1>3. CASE want \notin DOMAIN values /\ longer # {}
  <2> DEFINE key == CHOOSE kept \in longer : TRUE
  <2>1. key \in longer
    BY <1>3
  <2>2. get(values, again) = {values[key]}
    BY <1>3, Zenon DEF get
  <2> HIDE DEF key
  <2>3. KeyDistance(key, want) = 1 /\ key \in DOMAIN values
    BY <1>3, <2>1 DEF KeyDistance
  <2>4. \A other \in DOMAIN values : KeyDistance(other, want) # 0
    BY <1>3 DEF KeyDistance
  <2> QED BY <1>1, <2>2, <2>3, <2>4
<1>4. CASE want \notin DOMAIN values /\ longer = {} /\ English \in DOMAIN values
  <2>1. get(values, again) = {values[English]}
    BY <1>4, Zenon DEF get
  <2>2. KeyDistance(English, want) = 2
    BY <1>4 DEF KeyDistance
  <2>3. ASSUME NEW other \in DOMAIN values PROVE KeyDistance(other, want) \in {2, 3}
    <3>1. other # want /\ ~IsStrictPrefix(want, other)
      BY <1>4
    <3> HIDE DEF want
    <3> QED BY <3>1 DEF KeyDistance
  <2> QED BY <1>1, <1>4, <2>1, <2>2, <2>3
<1>5. CASE want \notin DOMAIN values /\ longer = {} /\ English \notin DOMAIN values
  <2> DEFINE key == CHOOSE kept \in DOMAIN values : TRUE
  <2>1. key \in DOMAIN values
    OBVIOUS
  <2>2. get(values, again) = {values[key]}
    BY <1>5, Zenon DEF get
  <2> HIDE DEF key
  <2>3. \A other \in DOMAIN values : KeyDistance(other, want) = 3
    BY <1>5 DEF KeyDistance
  <2> QED BY <2>1, <2>2, <2>3
<1> QED BY <1>2, <1>3, <1>4, <1>5

LEMMA LabelsFromAsked == asked \in Questions \cup {None} => LabelsFound
<1> DEFINE t == asked.tag
           o == asked.other
           first == add(<< >>, t, 1)
           both == add(first, o, 2)
           added(v) == IF v = 1 THEN t ELSE o
<1> SUFFICES ASSUME asked \in Questions \cup {None}, About("label"), NEW again \in InPlay
             PROVE  \E v \in 1..2 :
                      /\ get(both, again) = {v}
                      /\ \A w \in 1..2 : Distance(added(v), again) <= Distance(added(w), again)
                      /\ Written(t) = Written(o) => v = 2
  BY DEF LabelsFound
<1>1. t \in InPlay /\ o \in InPlay
  BY QuestionsAre
<1>2. validate(t) /\ validate(o) /\ IsTag(t) /\ IsTag(o)
  BY <1>1, TagsInPlay
<1> DEFINE kt == canonical_case(t)
           ko == canonical_case(o)
           want == canonical_case(again)
<1> HIDE DEF t, o
<1>3. DOMAIN first = {kt} /\ first[kt] = 1
  BY <1>2 DEF add
<1> HIDE DEF first
<1>4. DOMAIN both = {kt, ko} /\ both[ko] = 2 /\ (kt # ko => both[kt] = 1)
  BY <1>2, <1>3 DEF add
<1> HIDE DEF both
<1>5. kt = ko <=> Written(t) = Written(o)
  BY <1>2, CanonicalCase
<1>6. /\ Distance(t, again) = KeyDistance(kt, want)
      /\ Distance(o, again) = KeyDistance(ko, want)
  BY <1>1, DistanceOfKeys
<1>7. PICK key \in {kt, ko} :
        /\ get(both, again) = {both[key]}
        /\ \A other \in {kt, ko} : KeyDistance(key, want) <= KeyDistance(other, want)
  BY <1>4, ClosestLabelFound
<1>8. added(1) = t /\ added(2) = o
  OBVIOUS
<1> HIDE DEF kt, ko, want, added
<1>9. CASE key = ko
  <2>1. \A w \in 1..2 : Distance(added(2), again) <= Distance(added(w), again)
    BY <1>6, <1>7, <1>8, <1>9
  <2> QED BY <1>4, <1>7, <1>9, <2>1
<1>10. CASE key # ko
  <2>1. key = kt /\ kt # ko
    BY <1>7, <1>10
  <2>2. \A w \in 1..2 : Distance(added(1), again) <= Distance(added(w), again)
    BY <1>6, <1>7, <1>8, <2>1
  <2> QED BY <1>4, <1>5, <1>7, <2>1, <2>2
<1> QED BY <1>9, <1>10

-----------------------------------------------------------------------------
(* Linksets.                                                               *)

IsKey(key) ==
  key = [profile |-> key.profile, role |-> key.role, language |-> key.language,
         region |-> key.region]

\* A key that is widened from a request, in some of its dimensions.
Widened(key, request) ==
  /\ IsKey(key)
  /\ key.profile \in {request.profile, Star} /\ key.role \in {request.role, Star}
  /\ key.language \in {request.language, Star} /\ key.region \in {request.region, Star}

LEMMA CandidatesWiden ==
  ASSUME NEW request, IsKey(request)
  PROVE  /\ DOMAIN Candidates(request) = 1..6 /\ Candidates(request)[1] = request
         /\ \A i \in 1..6 : Widened(Candidates(request)[i], request)
<1> DEFINE c == Candidates(request)
           p == request.profile
           r == request.role
           l == request.language
           g == request.region
           Key(a, b, d, e) == [profile |-> a, role |-> b, language |-> d, region |-> e]
<1>1. request = Key(p, r, l, g)
  BY DEF IsKey
<1>2. /\ DOMAIN c = 1..6 /\ c[1] = request
      /\ c[2] = [request EXCEPT !.language = Star]
      /\ c[3] = [request EXCEPT !.role = Star]
      /\ c[4] = [request EXCEPT !.role = Star, !.language = Star]
      /\ c[5] = [request EXCEPT !.role = Star, !.language = Star, !.region = Star]
      /\ c[6] = AnyContext
  BY DEF Candidates
<1> HIDE DEF c
<1>3. /\ c[2] = Key(p, r, Star, g) /\ c[3] = Key(p, Star, l, g) /\ c[4] = Key(p, Star, Star, g)
      /\ c[5] = Key(p, Star, Star, Star) /\ c[6] = Key(Star, Star, Star, Star)
  <2> HIDE DEF p, r, l, g
  <2>1. c[2] = Key(p, r, Star, g) /\ c[3] = Key(p, Star, l, g)
    BY <1>1, <1>2
  <2>2. c[4] = Key(p, Star, Star, g) /\ c[5] = Key(p, Star, Star, Star)
    <3> DEFINE x == [request EXCEPT !.role = Star]
               y == [x EXCEPT !.language = Star]
    <3>1. x = Key(p, Star, l, g)
      BY <1>1
    <3>2. c[4] = y /\ c[5] = [y EXCEPT !.region = Star]
      BY <1>2
    <3> HIDE DEF x
    <3>3. y = Key(p, Star, Star, g)
      BY <3>1
    <3> HIDE DEF y
    <3>4. [y EXCEPT !.region = Star] = Key(p, Star, Star, Star)
      BY <3>3
    <3> QED BY <3>2, <3>3, <3>4
  <2>3. c[6] = Key(Star, Star, Star, Star)
    BY <1>2 DEF AnyContext
  <2> QED BY <2>1, <2>2, <2>3
<1>4. \A a, b, d, e : /\ Key(a, b, d, e).profile = a /\ Key(a, b, d, e).role = b
                      /\ Key(a, b, d, e).language = d /\ Key(a, b, d, e).region = e
                      /\ IsKey(Key(a, b, d, e))
  BY DEF IsKey
<1> HIDE DEF p, r, l, g, Key
<1>5. \A a \in {p, Star}, b \in {r, Star}, d \in {l, Star}, e \in {g, Star} :
        Widened(Key(a, b, d, e), request)
  BY <1>4 DEF Widened, p, r, l, g
<1>6. /\ Widened(c[1], request) /\ Widened(c[2], request) /\ Widened(c[3], request)
      /\ Widened(c[4], request) /\ Widened(c[5], request) /\ Widened(c[6], request)
  BY <1>1, <1>2, <1>3, <1>5
<1>7. ASSUME NEW i \in 1..6 PROVE Widened(c[i], request)
  <2>1. i \in {1, 2, 3, 4, 5, 6}
    OBVIOUS
  <2> QED BY <1>6, <2>1
<1> QED BY <1>2, <1>7 DEF c

\* What is served for a request is the linkset of the first key that is held, which fits
\* the request in every dimension and is the request itself when that is held; nothing
\* is served exactly when no key is held, or the subject is dark (resolution.rs:72).
THEOREM ResolveServesFirstHeld ==
  ASSUME NEW linksets, NEW request, IsKey(request)
  PROVE  LET tried   == Candidates(request)
             Held(i) == tried[i] \in DOMAIN linksets.contexts
             served == resolve(linksets, request)
         IN  /\ served = {} <=> linksets.dark \/ \A i \in 1..6 : ~Held(i)
             /\ served # {} =>
                  \E i \in 1..6 : /\ Held(i) /\ \A j \in 1..i-1 : ~Held(j)
                                  /\ served = {linksets.contexts[tried[i]]}
                                  /\ Widened(tried[i], request)
             /\ request \in DOMAIN linksets.contexts /\ ~linksets.dark =>
                  served = {linksets.contexts[request]}
<1> DEFINE tried == Candidates(request)
           hits == {i \in DOMAIN tried : tried[i] \in DOMAIN linksets.contexts}
           served == resolve(linksets, request)
           m == Min(hits)
<1>1. /\ DOMAIN tried = 1..6 /\ tried[1] = request
      /\ \A i \in 1..6 : Widened(tried[i], request)
  BY CandidatesWiden
<1>2. \A i : i \in hits <=> i \in 1..6 /\ tried[i] \in DOMAIN linksets.contexts
  BY <1>1
<1>3. /\ linksets.dark \/ hits = {} => served = {}
      /\ ~(linksets.dark \/ hits = {}) => served = {linksets.contexts[tried[m]]}
  BY Zenon DEF resolve
<1>4. m = CHOOSE x \in hits : \A y \in hits : x =< y
  BY DEF Min
<1> HIDE DEF tried, hits, served, m
<1>5. hits # {} => m \in hits /\ \A y \in hits : m <= y
  <2> SUFFICES ASSUME hits # {} PROVE m \in hits /\ \A y \in hits : m <= y
    OBVIOUS
  <2>1. hits \subseteq Nat
    BY <1>2
  <2>2. \E x \in hits : \A y \in hits : x <= y
    BY <2>1, LeastElement
  <2> QED BY <2>2, <1>4, Zenon
<1>6. served = {} <=> linksets.dark \/ \A i \in 1..6 : ~(tried[i] \in DOMAIN linksets.contexts)
  BY <1>2, <1>3
<1>7. ASSUME served # {}
      PROVE  \E i \in 1..6 : /\ tried[i] \in DOMAIN linksets.contexts
                             /\ \A j \in 1..i-1 : ~(tried[j] \in DOMAIN linksets.contexts)
                             /\ served = {linksets.contexts[tried[i]]}
                             /\ Widened(tried[i], request)
  <2>1. ~(linksets.dark \/ hits = {})
    BY <1>3, <1>7
  <2>2. m \in 1..6 /\ tried[m] \in DOMAIN linksets.contexts /\ \A y \in hits : m <= y
    BY <1>2, <1>5, <2>1
  <2>3. ASSUME NEW j \in 1..m-1 PROVE ~(tried[j] \in DOMAIN linksets.contexts)
    <3>1. j \in 1..6 /\ ~(m <= j)
      BY <2>2
    <3> QED BY <1>2, <2>2, <3>1
  <2> QED BY <1>1, <1>3, <2>1, <2>2, <2>3
<1>8. ASSUME request \in DOMAIN linksets.contexts, ~linksets.dark
      PROVE  served = {linksets.contexts[request]}
  <2>1. 1 \in hits
    BY <1>1, <1>2, <1>8
  <2>2. m \in 1..6 /\ m <= 1
    BY <1>2, <1>5, <2>1
  <2>3. m = 1
    BY <2>2
  <2> QED BY <1>1, <1>3, <1>8, <2>1, <2>3
<1> QED BY <1>6, <1>7, <1>8 DEF tried, served

\* The keys tried for the request, with what they are widened by.
LEMMA CandidatesOfRequest ==
  LET tried == Candidates(Request)
  IN  /\ IsKey(Request)
      /\ \A i \in 1..6 : Reached(tried[i]) /\ Widening(tried[i]) \in Nat
      /\ \A i, j \in 1..6 : i <= j => Widening(tried[i]) <= Widening(tried[j])
      /\ \A key \in Contexts : Reached(key) => \E i \in 1..6 : key = tried[i]
<1> DEFINE tried == Candidates(Request)
           Key(a, b, d, e) == [profile |-> a, role |-> b, language |-> d, region |-> e]
<1>1. /\ tried[1] = Key("p", "r", "de", "EU") /\ tried[2] = Key("p", "r", Star, "EU")
      /\ tried[3] = Key("p", Star, "de", "EU") /\ tried[4] = Key("p", Star, Star, "EU")
      /\ tried[5] = Key("p", Star, Star, Star) /\ tried[6] = Key(Star, Star, Star, Star)
  BY DEF Candidates, Request, AnyContext
<1>2. IsKey(Request)
  BY DEF IsKey, Request
<1>3. \A a, b, d, e : /\ Key(a, b, d, e).profile = a /\ Key(a, b, d, e).role = b
                      /\ Key(a, b, d, e).language = d /\ Key(a, b, d, e).region = e
                      /\ DOMAIN Key(a, b, d, e) = {"profile", "role", "language", "region"}
                      /\ Key(a, b, d, e)["profile"] = a /\ Key(a, b, d, e)["role"] = b
                      /\ Key(a, b, d, e)["language"] = d /\ Key(a, b, d, e)["region"] = e
  OBVIOUS
<1> HIDE DEF tried, Key
<1>4. /\ Request["profile"] = "p" /\ Request["role"] = "r" /\ Request["language"] = "de"
      /\ Request["region"] = "EU"
  BY DEF Request
<1>5. \A a, b, d, e :
        Reached(Key(a, b, d, e)) <=>
          /\ a \in {"p", Star} /\ b \in {"r", Star} /\ d \in {"de", Star} /\ e \in {"EU", Star}
          /\ e = Star => b = Star /\ d = Star
          /\ a = Star => e = Star
  BY <1>3, <1>4 DEF Reached, Fits
<1>6. /\ Star # "p" /\ Star # "r" /\ Star # "de" /\ Star # "EU"
  BY DEF Star
<1>7. \A a, b, d, e :
        Widening(Key(a, b, d, e)) = (IF d = Star THEN 1 ELSE 0) + (IF b = Star THEN 2 ELSE 0)
                                    + (IF e = Star THEN 4 ELSE 0) + (IF a = Star THEN 8 ELSE 0)
  <2>1. /\ Weight["language"] = 1 /\ Weight["role"] = 2 /\ Weight["region"] = 4
        /\ Weight["profile"] = 8
    BY DEF Weight
  <2>2. ASSUME NEW key
        PROVE  Widening(key) = (IF key["language"] = Star THEN Weight["language"] ELSE 0)
                               + (IF key["role"] = Star THEN Weight["role"] ELSE 0)
                               + (IF key["region"] = Star THEN Weight["region"] ELSE 0)
                               + (IF key["profile"] = Star THEN Weight["profile"] ELSE 0)
    BY Zenon DEF Widening
  <2> QED BY <1>3, <2>1, <2>2
<1>8. /\ Widening(tried[1]) = 0 /\ Widening(tried[2]) = 1 /\ Widening(tried[3]) = 2
      /\ Widening(tried[4]) = 3 /\ Widening(tried[5]) = 7 /\ Widening(tried[6]) = 15
  BY <1>1, <1>6, <1>7
<1>9. ASSUME NEW i \in 1..6 PROVE Reached(tried[i]) /\ Widening(tried[i]) \in Nat
  <2>1. i \in {1, 2, 3, 4, 5, 6}
    OBVIOUS
  <2>2. \A k \in {1, 2, 3, 4, 5, 6} : Reached(tried[k])
    BY <1>1, <1>5, <1>6
  <2>3. Widening(tried[i]) \in Nat
    BY <1>8, <2>1
  <2> QED BY <2>1, <2>2, <2>3
<1>10. ASSUME NEW i \in 1..6, NEW j \in 1..6, i <= j
       PROVE  Widening(tried[i]) <= Widening(tried[j])
  BY <1>8, <1>10
<1>11. ASSUME NEW key \in Contexts, Reached(key) PROVE \E i \in 1..6 : key = tried[i]
  <2>1. PICK a, b, d, e : key = Key(a, b, d, e)
    BY DEF Contexts, Key
  <2>2. \/ key = Key("p", "r", "de", "EU") \/ key = Key("p", "r", Star, "EU")
        \/ key = Key("p", Star, "de", "EU") \/ key = Key("p", Star, Star, "EU")
        \/ key = Key("p", Star, Star, Star) \/ key = Key(Star, Star, Star, Star)
    BY <1>5, <1>6, <1>11, <2>1
  <2> QED BY <1>1, <2>2
<1> QED BY <1>2, <1>9, <1>10, <1>11 DEF tried

LEMMA LinksFromAsked == asked \in Questions \cup {None} => LinksFit
<1> DEFINE both == {asked.one, asked.two}
           served == resolve(Linksets(both, FALSE), Request)
           tried == Candidates(Request)
<1> SUFFICES ASSUME asked \in Questions \cup {None}, About("links")
             PROVE  /\ served = {} <=> \A key \in both : ~Reached(key)
                    /\ \A key \in served, other \in both :
                         Reached(key) /\ (Reached(other) => Widening(key) <= Widening(other))
                    /\ resolve(Linksets(both, TRUE), Request) = {}
  BY DEF LinksFit
<1>1. \A keyed, dark : /\ DOMAIN Linksets(keyed, dark).contexts = keyed
                       /\ Linksets(keyed, dark).dark = dark
                       /\ \A key \in keyed : Linksets(keyed, dark).contexts[key] = key
  BY DEF Linksets
<1>2. both \subseteq Contexts
  BY QuestionsAre
<1>3. resolve(Linksets(both, TRUE), Request) = {}
  <2>1. resolve(Linksets(both, TRUE), Request) = {} <=>
          Linksets(both, TRUE).dark
            \/ \A i \in 1..6 : ~(tried[i] \in DOMAIN Linksets(both, TRUE).contexts)
    BY CandidatesOfRequest, ResolveServesFirstHeld
  <2> QED BY <1>1, <2>1
<1>4. /\ served = {} <=> \A i \in 1..6 : tried[i] \notin both
      /\ served # {} => \E i \in 1..6 : /\ tried[i] \in both /\ \A j \in 1..i-1 : tried[j] \notin both
                                        /\ served = {tried[i]}
  <2> DEFINE links == Linksets(both, FALSE)
  <2>1. DOMAIN links.contexts = both /\ ~links.dark /\ \A key \in both : links.contexts[key] = key
    BY <1>1
  <2>2. /\ served = {} <=> links.dark \/ \A i \in 1..6 : ~(tried[i] \in DOMAIN links.contexts)
        /\ served # {} =>
             \E i \in 1..6 : /\ tried[i] \in DOMAIN links.contexts
                             /\ \A j \in 1..i-1 : ~(tried[j] \in DOMAIN links.contexts)
                             /\ served = {links.contexts[tried[i]]}
    <3> HIDE DEF links
    <3>1. served = resolve(links, Request)
      BY DEF links
    <3> HIDE DEF served
    <3> QED BY <3>1, CandidatesOfRequest, ResolveServesFirstHeld
  <2> HIDE DEF links, served, both, tried
  <2> QED BY <2>1, <2>2
<1>5. /\ \A i \in 1..6 : Reached(tried[i]) /\ Widening(tried[i]) \in Nat
      /\ \A i, j \in 1..6 : i <= j => Widening(tried[i]) <= Widening(tried[j])
      /\ \A key \in both : Reached(key) => \E i \in 1..6 : key = tried[i]
  BY <1>2, CandidatesOfRequest
<1> HIDE DEF both, served, tried
<1>6. served = {} <=> \A key \in both : ~Reached(key)
  BY <1>4, <1>5
<1>7. ASSUME NEW key \in served, NEW other \in both
      PROVE  Reached(key) /\ (Reached(other) => Widening(key) <= Widening(other))
  <2>1. PICK i \in 1..6 : /\ tried[i] \in both /\ \A j \in 1..i-1 : tried[j] \notin both
                         /\ served = {tried[i]}
    BY <1>4
  <2>2. key = tried[i]
    BY <2>1
  <2>3. ASSUME Reached(other) PROVE Widening(key) <= Widening(other)
    <3>1. PICK j \in 1..6 : other = tried[j]
      BY <1>5, <2>3
    <3>2. ~(j \in 1..i-1)
      BY <2>1, <3>1
    <3>3. i <= j
      BY <3>2
    <3> QED BY <1>5, <2>2, <3>1, <3>3
  <2> QED BY <1>5, <2>2, <2>3
<1> QED BY <1>3, <1>6, <1>7

\* A label that is found is as close to what is asked for as any, however tags are
\* written, and a linkset that is served fits the request and is widened in as few
\* dimensions as can be, for whatever of them is asked (multilingual.rs:136,
\* resolution.rs:92).
THEOREM LookupsAlwaysFit == SSpec => []LookupsFit
<1>1. asked \in Questions \cup {None} => LookupsFit
  BY LabelsFromAsked, LinksFromAsked DEF LookupsFit
<1> QED BY <1>1, AskedStays, PTL

-----------------------------------------------------------------------------
(* Measurements.                                                           *)

\* A rule withholds what is within a number of uncertainties of the limit.
Rules == {Un!SharedRisk} \cup {Un!GuardBanded(k) : k \in Nat}

LEMMA RuleWidths ==
  /\ \A rule \in Rules : WidthOf(rule) \in Nat
  /\ WidthOf(Un!SharedRisk) = 0 /\ Bands \subseteq Rules /\ Un!SharedRisk \in Rules
<1>1. \A k \in Nat : /\ Un!GuardBanded(k) # Un!SharedRisk /\ Un!GuardBanded(k).k = k
  BY DEF Un!GuardBanded, Un!SharedRisk
<1>2. \A k \in Nat : WidthOf(Un!GuardBanded(k)) = k
  BY <1>1, Zenon DEF WidthOf
<1>3. WidthOf(Un!SharedRisk) = 0
  BY Zenon DEF WidthOf
<1>4. 0..2 \subseteq Nat
  OBVIOUS
<1>5. Bands \subseteq Rules
  BY <1>4, Zenon DEF Bands, Rules
<1> QED BY <1>2, <1>3, <1>5 DEF Rules

LEMMA Classified3 ==
  ASSUME NEW rule \in Rules, NEW x, x.value \in Int, x.uncertainty \in Int,
         NEW m, m = x.uncertainty * WidthOf(rule), NEW limit \in Int
  PROVE  /\ m \in Int
         /\ x.value + m <= limit => Un!classify_upper(rule, x, limit) = "conforms"
         /\ x.value + m > limit /\ x.value - m > limit =>
              Un!classify_upper(rule, x, limit) = "does-not-conform"
         /\ x.value + m > limit /\ ~(x.value - m > limit) =>
              Un!classify_upper(rule, x, limit) = "inconclusive"
<1> DEFINE margin == IF rule = Un!SharedRisk THEN 0 ELSE x.uncertainty * rule.k
           v == x.value
<1>1. m \in Int
  BY RuleWidths
<1>2. margin = m
  <2>1. CASE rule = Un!SharedRisk
    BY <2>1, RuleWidths
  <2>2. CASE rule # Un!SharedRisk
    BY <2>2 DEF WidthOf
  <2> QED BY <2>1, <2>2
<1>3. Un!classify_upper(rule, x, limit) =
        CASE v + margin <= limit -> "conforms"
          [] v + margin > limit /\ v - margin > limit -> "does-not-conform"
          [] OTHER -> "inconclusive"
  BY DEF Un!classify_upper
<1>4. v \in Int
  OBVIOUS
<1> HIDE DEF margin, v
<1>5. /\ v + m <= limit => Un!classify_upper(rule, x, limit) = "conforms"
      /\ v + m > limit /\ v - m > limit =>
              Un!classify_upper(rule, x, limit) = "does-not-conform"
      /\ v + m > limit /\ ~(v - m > limit) =>
              Un!classify_upper(rule, x, limit) = "inconclusive"
  BY <1>1, <1>2, <1>3, <1>4
<1> QED BY <1>1, <1>5 DEF v

LEMMA TimesGrows ==
  ASSUME NEW u \in Nat, NEW j \in Nat, NEW k \in Nat, j <= k
  PROVE  u * j \in Nat /\ u * k \in Nat /\ u * j <= u * k
<1>1. PICK d \in Nat : k = j + d
  <2>1. k - j \in Nat /\ k = j + (k - j)
    OBVIOUS
  <2> QED BY <2>1
<1>2. u * k = u * j + u * d /\ u * d \in Nat /\ u * j \in Nat
  BY <1>1
<1> QED BY <1>2

\* The root of two squares is no more than the sum of what was squared.
LEMMA RootAtMost ==
  ASSUME NEW u \in Nat, NEW w \in Nat, NEW r \in Nat, r * r = u * u + w * w
  PROVE  r <= u + w
<1> SUFFICES ASSUME r > u + w PROVE FALSE
  OBVIOUS
<1>1. PICK d \in Nat : r = u + w + 1 + d
  <2>1. r - (u + w + 1) \in Nat /\ r = u + w + 1 + (r - (u + w + 1))
    OBVIOUS
  <2> QED BY <2>1
<1> DEFINE s == u + w
           e == 1 + d
<1>2. s * s = u * u + w * w + 2 * (u * w)
  OBVIOUS
<1>3. r * r = s * s + 2 * (s * e) + e * e
  BY <1>1
<1>4. s \in Nat /\ e \in Nat /\ e >= 1 /\ u * w \in Nat
  OBVIOUS
<1> HIDE DEF s, e
<1>5. s * e \in Nat /\ e * e >= 1
  <2>1. s * e \in Nat
    BY <1>4
  <2>2. e * e >= 1
    <3>1. PICK f \in Nat : e = 1 + f
      BY <1>1 DEF e
    <3>2. e * e = 1 + 2 * f + f * f /\ f * f \in Nat
      BY <3>1
    <3> QED BY <3>1, <3>2
  <2> QED BY <2>1, <2>2
<1>6. u * u \in Nat /\ w * w \in Nat /\ s * s \in Nat /\ e * e \in Nat
  BY <1>4
<1> QED BY <1>2, <1>3, <1>4, <1>5, <1>6

LEMMA RootIs ==
  ASSUME NEW square, NEW r \in 0..square, r * r = square, square \in Nat
  PROVE  Un!Root(square) \in Nat /\ Un!Root(square) * Un!Root(square) = square
<1>1. Un!Root(square) \in 0..square /\ Un!Root(square) * Un!Root(square) = square
  <2> DEFINE P(x) == x * x = square
  <2>1. \E x \in 0..square : P(x)
    OBVIOUS
  <2>2. Un!Root(square) = CHOOSE x \in 0..square : P(x)
    BY DEF Un!Root
  <2> HIDE DEF P
  <2>3. Un!Root(square) \in 0..square /\ P(Un!Root(square))
    BY <2>1, <2>2, Zenon
  <2> QED BY <2>3 DEF P
<1> QED BY <1>1

\* A guard band withholds a verdict and never turns it over, a wider one withholds more
\* (units.rs:239).
THEOREM WiderBandsWithhold ==
  ASSUME NEW rule \in Rules, NEW wider \in Rules, WidthOf(rule) <= WidthOf(wider),
         NEW x, x.value \in Int, x.uncertainty \in Nat, NEW limit \in Int
  PROVE  Un!classify_upper(wider, x, limit)
           \in {Un!classify_upper(rule, x, limit), "inconclusive"}
<1> DEFINE m == x.uncertainty * WidthOf(rule)
           n == x.uncertainty * WidthOf(wider)
<1>1. WidthOf(rule) \in Nat /\ WidthOf(wider) \in Nat
  BY RuleWidths
<1>2. m \in Nat /\ n \in Nat /\ m <= n
  BY <1>1, TimesGrows
<1>3. x.uncertainty \in Int
  OBVIOUS
<1> HIDE DEF m, n
<1>4. /\ x.value + m <= limit => Un!classify_upper(rule, x, limit) = "conforms"
      /\ x.value + m > limit /\ x.value - m > limit =>
           Un!classify_upper(rule, x, limit) = "does-not-conform"
      /\ x.value + m > limit /\ ~(x.value - m > limit) =>
           Un!classify_upper(rule, x, limit) = "inconclusive"
  BY <1>3, Classified3 DEF m
<1>5. /\ x.value + n <= limit => Un!classify_upper(wider, x, limit) = "conforms"
      /\ x.value + n > limit /\ x.value - n > limit =>
           Un!classify_upper(wider, x, limit) = "does-not-conform"
      /\ x.value + n > limit /\ ~(x.value - n > limit) =>
           Un!classify_upper(wider, x, limit) = "inconclusive"
  BY <1>3, Classified3 DEF n
<1>6. \A v \in Int : /\ v + n <= limit => v + m <= limit
                     /\ v - n > limit => v - m > limit /\ v + m > limit /\ v + n > limit
                     /\ v + n > limit \/ v + n <= limit
  BY <1>2
<1> QED BY <1>4, <1>5, <1>6

LEMMA ConformsWhen ==
  ASSUME NEW rule \in Rules, NEW x, x.value \in Int, x.uncertainty \in Int, NEW limit \in Int
  PROVE  Un!classify_upper(rule, x, limit) = "conforms"
           <=> x.value + x.uncertainty * WidthOf(rule) <= limit
<1> DEFINE m == x.uncertainty * WidthOf(rule)
<1>1. /\ m \in Int
      /\ x.value + m <= limit => Un!classify_upper(rule, x, limit) = "conforms"
      /\ x.value + m > limit /\ x.value - m > limit =>
           Un!classify_upper(rule, x, limit) = "does-not-conform"
      /\ x.value + m > limit /\ ~(x.value - m > limit) =>
           Un!classify_upper(rule, x, limit) = "inconclusive"
  BY Classified3
<1> HIDE DEF m
<1>2. x.value + m <= limit \/ x.value + m > limit
  BY <1>1
<1> QED BY <1>1, <1>2 DEF m

\* Shares that conform to their limits conform together: the uncertainty of a sum is no
\* more than the uncertainties together (UN-2, units.rs:174).
THEOREM SharesConformTogether ==
  ASSUME NEW rule \in Rules, NEW x, NEW y, x.unit = y.unit,
         x.value \in Int, y.value \in Int, x.uncertainty \in Nat, y.uncertainty \in Nat,
         NEW r \in Nat,
         r * r = x.uncertainty * x.uncertainty + y.uncertainty * y.uncertainty,
         NEW l \in Int, NEW k \in Int,
         Un!classify_upper(rule, x, l) = "conforms", Un!classify_upper(rule, y, k) = "conforms"
  PROVE  Un!classify_upper(rule, Un!sum(x, y), l + k) = "conforms"
<1> DEFINE u == x.uncertainty
           w == y.uncertainty
           v == x.value
           z == y.value
           q == Un!Quadrature(u, w)
           n == WidthOf(rule)
<1>1. /\ u \in Nat /\ w \in Nat /\ v \in Int /\ z \in Int /\ n \in Nat
      /\ r * r = u * u + w * w
  BY RuleWidths
<1>2. v + u * n <= l /\ z + w * n <= k
  BY ConformsWhen
<1>3. Un!sum(x, y) = Un!Measured(v + z, x.unit, q)
  BY DEF Un!sum
<1>4. Un!sum(x, y).value = v + z /\ Un!sum(x, y).uncertainty = q
  <2>1. \A a, b, c : Un!Measured(a, b, c).value = a /\ Un!Measured(a, b, c).uncertainty = c
    BY DEF Un!Measured
  <2> HIDE DEF q
  <2>2. /\ Un!Measured(v + z, x.unit, q).value = v + z
        /\ Un!Measured(v + z, x.unit, q).uncertainty = q
    BY <2>1
  <2> QED BY <1>3, <2>2
<1>5. q = Un!Root(u * u + w * w)
  BY DEF Un!Quadrature
<1> HIDE DEF u, w, v, z, q, n
<1>6. q \in Nat /\ q * q = u * u + w * w
  <2> DEFINE square == u * u + w * w
  <2>1. square \in Nat /\ r * r = square
    BY <1>1
  <2>2. r \in 0..square
    <3>1. r <= r * r
      <4>1. r = 0 \/ \E f \in Nat : r = 1 + f
        <5>1. r # 0 => r - 1 \in Nat /\ r = 1 + (r - 1)
          OBVIOUS
        <5> QED BY <5>1
      <4>2. CASE r = 0
        BY <4>2
      <4>3. ASSUME NEW f \in Nat, r = 1 + f PROVE r <= r * r
        <5>1. r * r = r + f + f * f /\ f * f \in Nat
          BY <4>3
        <5> QED BY <4>3, <5>1
      <4> QED BY <4>1, <4>2, <4>3
    <3> HIDE DEF square
    <3> QED BY <2>1, <3>1
  <2> HIDE DEF square
  <2>3. Un!Root(square) \in Nat /\ Un!Root(square) * Un!Root(square) = square
    BY <2>1, <2>2, RootIs
  <2> QED BY <1>5, <2>3 DEF square
<1>7. q <= u + w
  BY <1>1, <1>6, RootAtMost
<1>8. n * q \in Nat /\ n * (u + w) \in Nat /\ n * q <= n * (u + w)
  <2>1. u + w \in Nat
    BY <1>1
  <2> QED BY <1>1, <1>6, <1>7, <2>1, TimesGrows
<1>9. q * n = n * q /\ n * (u + w) = u * n + w * n /\ u * n \in Nat /\ w * n \in Nat
  BY <1>1, <1>6
<1>10. (v + z) + q * n <= l + k
  BY <1>1, <1>2, <1>8, <1>9
<1>11. Un!sum(x, y).value \in Int /\ Un!sum(x, y).uncertainty \in Int /\ l + k \in Int
  BY <1>1, <1>4, <1>6
<1>12. Un!sum(x, y).value + Un!sum(x, y).uncertainty * WidthOf(rule) <= l + k
  BY <1>4, <1>10 DEF n
<1> QED BY <1>11, <1>12, ConformsWhen

\* Scaling a measurement with its limit decides alike (UN-2, units.rs:164).
THEOREM ScalingDecidesAlike ==
  ASSUME NEW rule \in Rules, NEW x, x.value \in Int, x.uncertainty \in Nat,
         NEW limit \in Int, NEW c \in Nat \ {0}
  PROVE  Un!classify_upper(rule, Un!scale(x, c), c * limit) = Un!classify_upper(rule, x, limit)
<1> DEFINE u == x.uncertainty
           v == x.value
           n == WidthOf(rule)
           m == u * n
           y == Un!scale(x, c)
<1>1. u \in Nat /\ v \in Int /\ n \in Nat /\ m \in Nat
  <2>1. u \in Nat /\ v \in Int /\ n \in Nat
    BY RuleWidths
  <2> HIDE DEF u, v, n
  <2> QED BY <2>1
<1>2. Un!Max({c, -c}) = c
  <2>1. c \in {c, -c} /\ \A z \in {c, -c} : c >= z
    OBVIOUS
  <2>2. \A a \in {c, -c} : (\A z \in {c, -c} : a >= z) => a = c
    OBVIOUS
  <2> QED BY <2>1, <2>2 DEF Un!Max
<1>3. y.value = v * c /\ y.uncertainty = u * c
  <2>1. \A a, b, d : Un!Measured(a, b, d).value = a /\ Un!Measured(a, b, d).uncertainty = d
    BY DEF Un!Measured
  <2>2. y = Un!Measured(v * c, x.unit, u * c)
    BY <1>2 DEF Un!scale
  <2> HIDE DEF y
  <2>3. /\ Un!Measured(v * c, x.unit, u * c).value = v * c
        /\ Un!Measured(v * c, x.unit, u * c).uncertainty = u * c
    BY <2>1
  <2> QED BY <2>2, <2>3
<1>4. y.value \in Int /\ y.uncertainty \in Int /\ c * limit \in Int /\ x.uncertainty \in Int
      /\ y.value = c * v /\ y.uncertainty * n = c * m
  <2> HIDE DEF u, v, n
  <2>1. (u * c) * n = c * (u * n) /\ v * c = c * v /\ u * c \in Int /\ v * c \in Int
    BY <1>1
  <2>2. c * limit \in Int
    OBVIOUS
  <2>3. x.uncertainty \in Int
    BY <1>1 DEF u
  <2> QED BY <1>3, <2>1, <2>2, <2>3
<1> HIDE DEF u, n, m, y
<1>5. /\ v + m <= limit => Un!classify_upper(rule, x, limit) = "conforms"
      /\ v + m > limit /\ v - m > limit =>
           Un!classify_upper(rule, x, limit) = "does-not-conform"
      /\ v + m > limit /\ ~(v - m > limit) =>
           Un!classify_upper(rule, x, limit) = "inconclusive"
  BY <1>1, <1>4, Classified3 DEF m, u, n
<1>6. /\ c * v + c * m <= c * limit => Un!classify_upper(rule, y, c * limit) = "conforms"
      /\ c * v + c * m > c * limit /\ c * v - c * m > c * limit =>
           Un!classify_upper(rule, y, c * limit) = "does-not-conform"
      /\ c * v + c * m > c * limit /\ ~(c * v - c * m > c * limit) =>
           Un!classify_upper(rule, y, c * limit) = "inconclusive"
  <2>1. /\ y.value + c * m <= c * limit => Un!classify_upper(rule, y, c * limit) = "conforms"
        /\ y.value + c * m > c * limit /\ y.value - c * m > c * limit =>
             Un!classify_upper(rule, y, c * limit) = "does-not-conform"
        /\ y.value + c * m > c * limit /\ ~(y.value - c * m > c * limit) =>
             Un!classify_upper(rule, y, c * limit) = "inconclusive"
    BY <1>4, Classified3 DEF n
  <2> QED BY <1>4, <2>1
<1> HIDE DEF v
<1>7. ASSUME NEW a \in Int, NEW b \in Int PROVE c * a <= c * b <=> a <= b
  <2>1. ASSUME a <= b PROVE c * a <= c * b
    <3>1. PICK d \in Nat : b = a + d
      <4>1. b - a \in Nat /\ b = a + (b - a)
        BY <2>1
      <4> QED BY <4>1
    <3>2. c * b = c * a + c * d /\ c * d \in Nat /\ c * a \in Int
      BY <3>1
    <3> QED BY <3>2
  <2>2. ASSUME ~(a <= b) PROVE ~(c * a <= c * b)
    <3>1. PICK d \in Nat : a = b + 1 + d
      <4>1. a - b - 1 \in Nat /\ a = b + 1 + (a - b - 1)
        BY <2>2
      <4> QED BY <4>1
    <3>2. c * a = c * b + c + c * d /\ c * d \in Nat /\ c * b \in Int
      BY <3>1
    <3> QED BY <3>2
  <2> QED BY <2>1, <2>2
<1>8. c * v + c * m = c * (v + m) /\ c * v - c * m = c * (v - m)
  BY <1>1
<1>9. /\ c * v + c * m <= c * limit <=> v + m <= limit
      /\ c * v - c * m <= c * limit <=> v - m <= limit
  <2>1. v + m \in Int /\ v - m \in Int
    BY <1>1
  <2> QED BY <1>7, <1>8, <2>1
<1>10. c * v \in Int /\ c * m \in Int /\ c * limit \in Int
  BY <1>1
<1>11. /\ c * v + c * m > c * limit <=> v + m > limit
       /\ c * v - c * m > c * limit <=> v - m > limit
  BY <1>1, <1>9, <1>10
<1>12. v + m <= limit \/ v + m > limit
  BY <1>1
<1> QED BY <1>5, <1>6, <1>9, <1>11, <1>12 DEF y


\* Taking an amount away leaves what conformed conforming (UN-2, units.rs:188).
LEMMA LessConforms ==
  ASSUME NEW rule \in Rules, NEW x, NEW y, x.unit = y.unit,
         x.value \in Int, y.value \in Nat, x.uncertainty \in Nat, y.uncertainty \in Nat,
         NEW r \in Nat, r \in 0..(x.uncertainty * x.uncertainty + y.uncertainty * y.uncertainty),
         r * r = x.uncertainty * x.uncertainty + y.uncertainty * y.uncertainty,
         NEW l \in Int, Un!classify_upper(rule, x, l) = "conforms"
  PROVE  Un!classify_upper(Un!SharedRisk, Un!difference(x, y), l) = "conforms"
<1> DEFINE u == x.uncertainty
           w == y.uncertainty
           q == Un!Quadrature(u, w)
           d == Un!difference(x, y)
           m == u * WidthOf(rule)
<1>1. x.value + m <= l
  BY ConformsWhen
<1>2. m \in Nat
  <2>1. u \in Nat /\ WidthOf(rule) \in Nat
    BY RuleWidths
  <2> QED BY <2>1
<1>3. q \in Nat
  <2> DEFINE square == u * u + w * w
  <2>1. q = Un!Root(square)
    BY DEF Un!Quadrature
  <2>2. r \in 0..square /\ r * r = square /\ square \in Nat
    OBVIOUS
  <2> HIDE DEF square, q
  <2> QED BY <2>1, <2>2, RootIs
<1>4. d = Un!Measured(x.value - y.value, x.unit, q)
  BY DEF Un!difference
<1> HIDE DEF q, d, m
<1>5. d.value = x.value - y.value /\ d.uncertainty = q
  <2>1. \A a, b, c : Un!Measured(a, b, c).value = a /\ Un!Measured(a, b, c).uncertainty = c
    BY DEF Un!Measured
  <2>2. /\ Un!Measured(x.value - y.value, x.unit, q).value = x.value - y.value
        /\ Un!Measured(x.value - y.value, x.unit, q).uncertainty = q
    BY <2>1
  <2> QED BY <1>4, <2>2
<1>6. d.value \in Int /\ d.uncertainty \in Int /\ d.value <= l
  BY <1>1, <1>2, <1>3, <1>5
<1>7. d.uncertainty * WidthOf(Un!SharedRisk) = 0
  BY <1>6, RuleWidths
<1>8. d.value + d.uncertainty * WidthOf(Un!SharedRisk) <= l
  BY <1>6, <1>7
<1> QED BY <1>6, <1>8, RuleWidths, ConformsWhen DEF d

LEMMA DecisionsFromAsked == asked \in Questions \cup {None} => DecisionsAgree
<1> DEFINE x == Un!Measured(asked.value, "kg", asked.u)
           other == Un!Measured(5, "kg", 4)
           rule == asked.rule
           l == asked.limit
           verdict == Un!classify_upper(rule, x, l)
<1> SUFFICES ASSUME asked \in Questions \cup {None}, About("decision")
             PROVE  /\ \A wider \in Bands : WidthOf(rule) <= WidthOf(wider) =>
                         Un!classify_upper(wider, x, l) \in {verdict, "inconclusive"}
                    /\ verdict = "conforms" /\ Un!classify_upper(rule, other, 9) = "conforms" =>
                         Un!classify_upper(rule, Un!sum(x, other), l + 9) = "conforms"
                    /\ verdict = "conforms" =>
                         Un!classify_upper(Un!SharedRisk, Un!difference(x, other), l) = "conforms"
                    /\ Un!classify_upper(rule, Un!scale(x, 2), 2 * l) = verdict
  BY DEF DecisionsAgree
<1>1. /\ rule \in Rules /\ Bands \subseteq Rules /\ asked.value \in Int /\ asked.u \in {0, 3}
      /\ l \in Int
  BY QuestionsAre, RuleWidths
<1>2. /\ x.value \in Int /\ x.uncertainty = asked.u /\ x.unit = "kg"
      /\ other.value = 5 /\ other.uncertainty = 4 /\ other.unit = "kg"
  <2>1. \A a, b, c : /\ Un!Measured(a, b, c).value = a /\ Un!Measured(a, b, c).unit = b
                     /\ Un!Measured(a, b, c).uncertainty = c
    BY DEF Un!Measured
  <2> QED BY <1>1, <2>1
<1> HIDE DEF x, other, rule, l
<1>3. /\ x.uncertainty \in Nat /\ other.uncertainty \in Nat /\ other.value \in Nat
      /\ x.unit = other.unit /\ other.value \in Int
  BY <1>1, <1>2
<1>4. PICK r \in Nat :
        /\ r * r = x.uncertainty * x.uncertainty + other.uncertainty * other.uncertainty
        /\ r \in 0..(x.uncertainty * x.uncertainty + other.uncertainty * other.uncertainty)
  <2>1. CASE asked.u = 0
    <3>1. x.uncertainty * x.uncertainty + other.uncertainty * other.uncertainty = 16
      BY <1>2, <2>1
    <3>2. 4 \in Nat /\ 4 * 4 = 16 /\ 4 \in 0..16
      OBVIOUS
    <3> QED BY <3>1, <3>2
  <2>2. CASE asked.u = 3
    <3>1. x.uncertainty * x.uncertainty + other.uncertainty * other.uncertainty = 25
      BY <1>2, <2>2
    <3>2. 5 \in Nat /\ 5 * 5 = 25 /\ 5 \in 0..25
      OBVIOUS
    <3> QED BY <3>1, <3>2
  <2> QED BY <1>1, <2>1, <2>2
<1>5. \A wider \in Bands : WidthOf(rule) <= WidthOf(wider) =>
        Un!classify_upper(wider, x, l) \in {verdict, "inconclusive"}
  BY <1>1, <1>2, <1>3, WiderBandsWithhold
<1>6. ASSUME verdict = "conforms", Un!classify_upper(rule, other, 9) = "conforms"
      PROVE  Un!classify_upper(rule, Un!sum(x, other), l + 9) = "conforms"
  <2>1. PICK k \in Int : k = 9
    OBVIOUS
  <2>2. Un!classify_upper(rule, x, l) = "conforms" /\ Un!classify_upper(rule, other, k) = "conforms"
    BY <1>6, <2>1
  <2>3. r \in Nat /\ r * r = x.uncertainty * x.uncertainty + other.uncertainty * other.uncertainty
    BY <1>4
  <2>4. rule \in Rules /\ l \in Int
    BY <1>1
  <2>5. Un!classify_upper(rule, Un!sum(x, other), l + k) = "conforms"
    BY <1>2, <1>3, <2>1, <2>2, <2>3, <2>4, SharesConformTogether
  <2> QED BY <2>1, <2>5
<1>7. ASSUME verdict = "conforms"
      PROVE  Un!classify_upper(Un!SharedRisk, Un!difference(x, other), l) = "conforms"
  BY <1>1, <1>2, <1>3, <1>4, <1>7, LessConforms
<1>8. Un!classify_upper(rule, Un!scale(x, 2), 2 * l) = verdict
  <2>1. 2 \in Nat \ {0}
    OBVIOUS
  <2> QED BY <1>1, <1>2, <1>3, <2>1, ScalingDecidesAlike
<1> QED BY <1>5, <1>6, <1>7, <1>8

\* A clock that drifts within its bound misjudges freshness by no more than the bound,
\* for all times and windows (lifecycle.rs:168, verdict/src/freshness.rs:33).
THEOREM DriftMisjudgesLittle ==
  ASSUME NEW drift \in Int, NEW bound \in Int, freshness_under(bound, drift),
         NEW time \in Int, NEW stamp \in Int, NEW window \in Int
  PROVE  LET judged == Vd!evaluate_freshness(time + drift, stamp,
                         [kind |-> "fresh-within", max_age |-> window])
         IN  /\ judged = "fresh" => time - stamp <= window + bound
             /\ judged = "stale" => time - stamp > window - bound
<1> DEFINE judged == Vd!evaluate_freshness(time + drift, stamp,
                       [kind |-> "fresh-within", max_age |-> window])
<1>1. drift <= bound /\ -drift <= bound
  <2> DEFINE m == IF drift >= -drift THEN drift ELSE -drift
  <2>1. m \in {drift, -drift} /\ \A y \in {drift, -drift} : m >= y
    OBVIOUS
  <2>2. \A x \in {drift, -drift} : (\A y \in {drift, -drift} : x >= y) => x = m
    OBVIOUS
  <2> HIDE DEF m
  <2>3. Max({drift, -drift}) = m
    BY <2>1, <2>2 DEF Max
  <2>4. m <= bound
    BY <2>3 DEF freshness_under
  <2> QED BY <2>4 DEF m
<1>2. judged \in {"indeterminate", "stale", "fresh"}
      /\ (judged = "stale" => (time + drift) - stamp > window)
      /\ (judged = "fresh" => ~((time + drift) - stamp > window))
  BY DEF Vd!evaluate_freshness
<1> HIDE DEF judged
<1> QED BY <1>1, <1>2 DEF judged

LEMMA DriftFromAsked == asked \in Questions \cup {None} => DriftIsBounded
<1> SUFFICES ASSUME asked \in Questions \cup {None}, About("clock"),
                    freshness_under(asked.bound, asked.drift),
                    NEW time \in 0..4, NEW stamp \in 0..4, NEW window \in 0..2
             PROVE  LET judged == Vd!evaluate_freshness(time + asked.drift, stamp,
                                    [kind |-> "fresh-within", max_age |-> window])
                    IN  /\ judged = "fresh" => time - stamp <= window + asked.bound
                        /\ judged = "stale" => time - stamp > window - asked.bound
  BY DEF DriftIsBounded
<1>1. asked.drift \in Int /\ asked.bound \in Int
  BY QuestionsAre
<1>2. time \in Int /\ stamp \in Int /\ window \in Int
  OBVIOUS
<1> QED BY <1>1, <1>2, DriftMisjudgesLittle

-----------------------------------------------------------------------------
(* Amounts.                                                                *)

\* The table of conversions keeps what a unit is worth.
LEMMA ConversionsWorth ==
  ASSUME NEW unit \in DOMAIN Un!conversions
  PROVE  LET c == Un!conversions[unit]
         IN  /\ c.num \in Nat \ {0} /\ c.den \in Nat \ {0} /\ c.offset = 0
             /\ Worth[c.to] \in Nat /\ Worth[unit] \in Nat
             /\ Worth[c.to] * c.num = Worth[unit] * c.den
<1> DEFINE c == Un!conversions[unit]
<1>1. unit \in {"Wh", "MWh", "g", "t", "cm", "mm", "kW", "mWh"}
  BY DEF Un!conversions
<1>2. /\ Worth["mWh"] = 1 /\ Worth["Wh"] = 1000 /\ Worth["kWh"] = 1000000
      /\ Worth["MWh"] = 1000000000 /\ Worth["g"] = 1 /\ Worth["kg"] = 1000
      /\ Worth["t"] = 1000000 /\ Worth["mm"] = 1 /\ Worth["cm"] = 10 /\ Worth["m"] = 1000
      /\ Worth["W"] = 1 /\ Worth["kW"] = 1000
  BY SMT DEF Worth
<1>3. \A to, num, den : /\ Un!Conversion(to, num, den).to = to
                        /\ Un!Conversion(to, num, den).num = num
                        /\ Un!Conversion(to, num, den).den = den
                        /\ Un!Conversion(to, num, den).offset = 0
  BY DEF Un!Conversion
<1>4. /\ Un!conversions["Wh"] = Un!Conversion("kWh", 1, 1000)
      /\ Un!conversions["MWh"] = Un!Conversion("kWh", 1000, 1)
      /\ Un!conversions["g"] = Un!Conversion("kg", 1, 1000)
      /\ Un!conversions["t"] = Un!Conversion("kg", 1000, 1)
      /\ Un!conversions["cm"] = Un!Conversion("m", 1, 100)
      /\ Un!conversions["mm"] = Un!Conversion("m", 1, 1000)
      /\ Un!conversions["kW"] = Un!Conversion("W", 1000, 1)
      /\ Un!conversions["mWh"] = Un!Conversion("Wh", 1, 1000)
  BY DEF Un!conversions
<1> HIDE DEF c
<1>5. \A u : u = unit => c = Un!conversions[u] /\ Worth[u] = Worth[unit]
  BY DEF c
<1> DEFINE Kept == /\ c.num \in Nat \ {0} /\ c.den \in Nat \ {0} /\ c.offset = 0
                   /\ Worth[c.to] \in Nat /\ Worth[unit] \in Nat
                   /\ Worth[c.to] * c.num = Worth[unit] * c.den
<1>6. ASSUME unit = "Wh" PROVE Kept
  <2>1. c.to = "kWh" /\ c.num = 1 /\ c.den = 1000 /\ c.offset = 0
    BY <1>3, <1>4, <1>6 DEF c
  <2> QED BY <1>2, <1>6, <2>1, SMT
<1>7. ASSUME unit = "MWh" PROVE Kept
  <2>1. c.to = "kWh" /\ c.num = 1000 /\ c.den = 1 /\ c.offset = 0
    BY <1>3, <1>4, <1>7 DEF c
  <2> QED BY <1>2, <1>7, <2>1, SMT
<1>8. ASSUME unit = "g" PROVE Kept
  <2>1. c.to = "kg" /\ c.num = 1 /\ c.den = 1000 /\ c.offset = 0
    BY <1>3, <1>4, <1>8 DEF c
  <2> QED BY <1>2, <1>8, <2>1, SMT
<1>9. ASSUME unit = "t" PROVE Kept
  <2>1. c.to = "kg" /\ c.num = 1000 /\ c.den = 1 /\ c.offset = 0
    BY <1>3, <1>4, <1>9 DEF c
  <2> QED BY <1>2, <1>9, <2>1, SMT
<1>10. ASSUME unit = "cm" PROVE Kept
  <2>1. c.to = "m" /\ c.num = 1 /\ c.den = 100 /\ c.offset = 0
    BY <1>3, <1>4, <1>10 DEF c
  <2> QED BY <1>2, <1>10, <2>1, SMT
<1>11. ASSUME unit = "mm" PROVE Kept
  <2>1. c.to = "m" /\ c.num = 1 /\ c.den = 1000 /\ c.offset = 0
    BY <1>3, <1>4, <1>11 DEF c
  <2> QED BY <1>2, <1>11, <2>1, SMT
<1>12. ASSUME unit = "kW" PROVE Kept
  <2>1. c.to = "W" /\ c.num = 1000 /\ c.den = 1 /\ c.offset = 0
    BY <1>3, <1>4, <1>12 DEF c
  <2> QED BY <1>2, <1>12, <2>1, SMT
<1>13. ASSUME unit = "mWh" PROVE Kept
  <2>1. c.to = "Wh" /\ c.num = 1 /\ c.den = 1000 /\ c.offset = 0
    BY <1>3, <1>4, <1>13 DEF c
  <2> QED BY <1>2, <1>13, <2>1, SMT
<1>14. Kept
  BY <1>1, <1>6, <1>7, <1>8, <1>9, <1>10, <1>11, <1>12, <1>13
<1> QED BY <1>14 DEF c

\* An exact conversion of x by n / d, from a unit worth b to one worth a.
IsExact(x, n, d)          == (x * n) % d = 0
KeepsWorth(x, n, d, a, b) == ((x * n) \div d) * a = x * b

LEMMA WorthKept ==
  ASSUME NEW x \in Int, NEW n \in Int, NEW d \in Nat \ {0}, IsExact(x, n, d),
         NEW a \in Int, NEW b \in Int, a * n = b * d
  PROVE  KeepsWorth(x, n, d, a, b)
<1> DEFINE y == x * n
           q == y \div d
<1>1. y \in Int
  OBVIOUS
<1> HIDE DEF y
<1>2. q \in Int /\ y = d * q
  <2>1. y = d * (y \div d) + (y % d) /\ y \div d \in Int
    BY <1>1
  <2>2. y % d = 0
    BY DEF y, IsExact
  <2> QED BY <1>1, <2>1, <2>2
<1> HIDE DEF q
<1>3. d * (q * a) = (d * q) * a /\ (x * n) * a = x * (a * n) /\ x * (b * d) = d * (x * b)
  BY <1>2
<1>4. d * (q * a) = d * (x * b)
  BY <1>2, <1>3 DEF y
<1>5. q * a \in Int /\ x * b \in Int
  BY <1>2
<1>6. ASSUME NEW s \in Int, NEW t \in Int, d * s = d * t PROVE s = t
  BY <1>6
<1>7. q * a = x * b
  BY <1>4, <1>5, <1>6
<1> QED BY <1>7 DEF q, y, KeepsWorth

\* What intake answers.
LEMMA IntakeIs ==
  ASSUME NEW kind, NEW o, NEW u
  PROVE  LET r == Un!intake(kind, o, u)
         IN  /\ "stored" \in DOMAIN r =>
                  /\ kind \in DOMAIN Un!canonical /\ u # None /\ o.unit = Un!canonical[kind]
                  /\ r = [stored |-> Un!Measured(o.value, o.unit, u)]
             /\ r = [refused |-> "re-offer"] =>
                  /\ kind \in DOMAIN Un!canonical /\ u # None /\ o.unit \in DOMAIN Un!conversions
                  /\ Un!conversions[o.unit].to = Un!canonical[kind]
             /\ kind \in DOMAIN Un!canonical /\ u # None /\ o.unit = Un!canonical[kind] =>
                  r = [stored |-> Un!Measured(o.value, o.unit, u)]
<1> DEFINE r == Un!intake(kind, o, u)
           s == [stored |-> Un!Measured(o.value, o.unit, u)]
           R(why) == [refused |-> why]
<1>1. \A why : "stored" \notin DOMAIN R(why) /\ R(why) # s
  OBVIOUS
<1>2. /\ R("unknown-kind") # R("re-offer") /\ R("no-uncertainty") # R("re-offer")
      /\ R("inadmissible") # R("re-offer") /\ R("not-to-canonical") # R("re-offer")
  <2>1. \A a, b : R(a) = R(b) => a = b
    OBVIOUS
  <2> HIDE DEF R
  <2> QED BY <2>1
<1>3. r = IF kind \notin DOMAIN Un!canonical THEN R("unknown-kind")
          ELSE IF u = None THEN R("no-uncertainty")
          ELSE IF o.unit = Un!canonical[kind] THEN s
          ELSE IF o.unit \notin DOMAIN Un!conversions THEN R("inadmissible")
          ELSE IF Un!conversions[o.unit].to = Un!canonical[kind] THEN R("re-offer")
          ELSE R("not-to-canonical")
  BY DEF Un!intake
<1> HIDE DEF r, s, R
<1>4. /\ "stored" \in DOMAIN r =>
           kind \in DOMAIN Un!canonical /\ u # None /\ o.unit = Un!canonical[kind] /\ r = s
      /\ r = R("re-offer") =>
           /\ kind \in DOMAIN Un!canonical /\ u # None /\ o.unit \in DOMAIN Un!conversions
           /\ Un!conversions[o.unit].to = Un!canonical[kind]
      /\ kind \in DOMAIN Un!canonical /\ u # None /\ o.unit = Un!canonical[kind] => r = s
  BY <1>1, <1>2, <1>3
<1> QED BY <1>4 DEF r, s, R

\* A conversion that is offered is worth what it converts, value and uncertainty alike.
LEMMA ConvertedIs ==
  ASSUME NEW o \in Offers, o.unit \in DOMAIN Un!conversions, o.uncertainty # None
  PROVE  LET again == Un!convert(o, o.uncertainty)
         IN  /\ again = Un!Measured(again.value, again.unit, again.uncertainty)
             /\ again.unit = Un!conversions[o.unit].to /\ again.uncertainty \in Nat
             /\ again.value * Worth[again.unit] = o.value * Worth[o.unit]
             /\ again.uncertainty * Worth[again.unit] = o.uncertainty * Worth[o.unit]
<1> DEFINE c == Un!conversions[o.unit]
           again == Un!convert(o, o.uncertainty)
           v == o.value
           u == o.uncertainty
           n == c.num
           d == c.den
           a == Worth[c.to]
           b == Worth[o.unit]
<1>1. /\ n \in Nat \ {0} /\ d \in Nat \ {0} /\ c.offset = 0
      /\ a \in Nat /\ b \in Nat /\ a * n = b * d
  BY ConversionsWorth
<1>2. v \in Int /\ u \in Nat /\ (v * n) % d = 0 /\ (u * n) % d = 0
  <2>1. /\ o.value \in Int /\ o.uncertainty \in Nat
        /\ \A x \in {o.value, o.uncertainty} \ {None} : (x * n) % d = 0
    BY FactsOK
  <2>2. o.value # None
    BY <2>1, FactsOK
  <2> QED BY <2>1, <2>2
<1>3. again = Un!Measured((v * n) \div d + c.offset, c.to, (u * n) \div d)
  BY DEF Un!convert
<1> HIDE DEF c, v, u, n, d, a, b, again
<1>4. (v * n) \div d \in Int /\ (u * n) \div d \in Nat
  <2>1. v * n \in Int /\ u * n \in Nat
    BY <1>1, <1>2
  <2> DEFINE y == u * n
             z == v * n
  <2>2. y \in Nat /\ z \in Int
    BY <2>1
  <2> HIDE DEF y, z
  <2>3. y \div d \in Nat /\ z \div d \in Int
    BY <1>1, <2>2
  <2> QED BY <2>3 DEF y, z
<1>5. (v * n) \div d + c.offset = (v * n) \div d
  BY <1>1, <1>4
<1> DEFINE q == (v * n) \div d
           w == (u * n) \div d
<1>6. q * a = v * b /\ w * a = u * b
  <2>1. n \in Int /\ a \in Int /\ b \in Int /\ u \in Int /\ v \in Int
    BY <1>1, <1>2
  <2>2. d \in Nat \ {0} /\ a * n = b * d
    BY <1>1
  <2>3. IsExact(v, n, d) /\ IsExact(u, n, d)
    BY <1>2 DEF IsExact
  <2>4. KeepsWorth(v, n, d, a, b) /\ KeepsWorth(u, n, d, a, b)
    BY <2>1, <2>2, <2>3, WorthKept
  <2> QED BY <2>4 DEF KeepsWorth
<1>7. again = Un!Measured(q, c.to, w)
  BY <1>3, <1>5
<1> HIDE DEF q, w
<1>8. again.value = q /\ again.unit = c.to /\ again.uncertainty = w
  <2>1. \A i, j, k : /\ Un!Measured(i, j, k).value = i /\ Un!Measured(i, j, k).unit = j
                     /\ Un!Measured(i, j, k).uncertainty = k
    BY DEF Un!Measured
  <2> QED BY <1>7, <2>1
<1>9. w \in Nat
  BY <1>4 DEF w
<1>10. again.value * Worth[again.unit] = o.value * Worth[o.unit]
  BY <1>6, <1>8 DEF a, b, v
<1>11. again.uncertainty * Worth[again.unit] = o.uncertainty * Worth[o.unit]
  BY <1>6, <1>8 DEF a, b, u
<1> QED BY <1>7, <1>8, <1>9, <1>10, <1>11 DEF again, c

LEMMA AmountsFromAsked == asked \in Questions \cup {None} => AmountsKept
<1> DEFINE offer == asked.offer
           first == Un!intake(offer.kind, offer, offer.uncertainty)
           again == Un!convert(offer, offer.uncertainty)
<1> SUFFICES ASSUME asked \in Questions \cup {None}, About("amount")
             PROVE  /\ "stored" \in DOMAIN first =>
                         first.stored = Un!Measured(offer.value, offer.unit, offer.uncertainty)
                    /\ first = [refused |-> "re-offer"] =>
                         /\ Un!intake(offer.kind, again, again.uncertainty) = [stored |-> again]
                         /\ again.value * Worth[again.unit] = offer.value * Worth[offer.unit]
                         /\ again.uncertainty * Worth[again.unit]
                              = offer.uncertainty * Worth[offer.unit]
  BY DEF AmountsKept
<1>1. offer \in Offers
  BY QuestionsAre
<1> HIDE DEF offer
<1>2. "stored" \in DOMAIN first =>
        first = [stored |-> Un!Measured(offer.value, offer.unit, offer.uncertainty)]
  BY IntakeIs
<1>3. ASSUME first = [refused |-> "re-offer"]
      PROVE  /\ Un!intake(offer.kind, again, again.uncertainty) = [stored |-> again]
             /\ again.value * Worth[again.unit] = offer.value * Worth[offer.unit]
             /\ again.uncertainty * Worth[again.unit] = offer.uncertainty * Worth[offer.unit]
  <2>1. /\ offer.kind \in DOMAIN Un!canonical /\ offer.uncertainty # None
        /\ offer.unit \in DOMAIN Un!conversions
        /\ Un!conversions[offer.unit].to = Un!canonical[offer.kind]
    BY <1>3, IntakeIs
  <2>2. /\ again = Un!Measured(again.value, again.unit, again.uncertainty)
        /\ again.unit = Un!conversions[offer.unit].to /\ again.uncertainty \in Nat
        /\ again.value * Worth[again.unit] = offer.value * Worth[offer.unit]
        /\ again.uncertainty * Worth[again.unit] = offer.uncertainty * Worth[offer.unit]
    BY <1>1, <2>1, ConvertedIs
  <2> HIDE DEF again
  <2>3. again.uncertainty # None /\ again.unit = Un!canonical[offer.kind]
    BY <2>1, <2>2, FactsOK
  <2>4. Un!intake(offer.kind, again, again.uncertainty)
          = [stored |-> Un!Measured(again.value, again.unit, again.uncertainty)]
    BY <2>1, <2>3, IntakeIs
  <2> QED BY <2>2, <2>4
<1> HIDE DEF first, again
<1> QED BY <1>2, <1>3

\* What is stored is in a canonical unit, with an uncertainty.
LEMMA StoredIs ==
  ASSUME NEW fact \in Stored
  PROVE  fact.unit \in {Un!canonical[k] : k \in DOMAIN Un!canonical} /\ fact.uncertainty \in Nat
<1>1. PICK o \in Offers : "stored" \in DOMAIN Result(o) /\ fact = Result(o).stored
  BY DEF Stored
<1> DEFINE first == Un!intake(o.kind, o, o.uncertainty)
           again == Un!convert(o, o.uncertainty)
           second == Un!intake(o.kind, again, again.uncertainty)
           Re == "refused" \in DOMAIN first /\ first.refused = "re-offer"
<1>2. Result(o) = IF Re THEN second ELSE first
  BY DEF Result
<1>3. \A i, j, k : /\ Un!Measured(i, j, k).unit = j /\ Un!Measured(i, j, k).uncertainty = k
  BY DEF Un!Measured
<1>4. ASSUME NEW r, NEW i, NEW j, NEW k, r = [stored |-> Un!Measured(i, j, k)]
      PROVE  r.stored.unit = j /\ r.stored.uncertainty = k
  BY <1>3, <1>4
<1>5. ASSUME ~Re
      PROVE  fact.unit \in {Un!canonical[k] : k \in DOMAIN Un!canonical} /\ fact.uncertainty \in Nat
  <2>1. fact = first.stored /\ "stored" \in DOMAIN first
    BY <1>1, <1>2, <1>5
  <2>2. /\ o.kind \in DOMAIN Un!canonical /\ o.uncertainty # None
        /\ o.unit = Un!canonical[o.kind]
        /\ first = [stored |-> Un!Measured(o.value, o.unit, o.uncertainty)]
    BY <2>1, IntakeIs
  <2>3. fact.unit = o.unit /\ fact.uncertainty = o.uncertainty
    BY <1>4, <2>1, <2>2
  <2>4. o.uncertainty \in Nat
    BY <2>2, FactsOK
  <2> QED BY <2>2, <2>3, <2>4
<1>6. ASSUME Re
      PROVE  fact.unit \in {Un!canonical[k] : k \in DOMAIN Un!canonical} /\ fact.uncertainty \in Nat
  <2>1. fact = second.stored /\ "stored" \in DOMAIN second
    BY <1>1, <1>2, <1>6
  <2>2. o.unit \in DOMAIN Un!conversions /\ o.uncertainty # None
    <3>1. first.refused = "re-offer" /\ "refused" \in DOMAIN first
      BY <1>6
    <3>2. first # [stored |-> Un!Measured(o.value, o.unit, o.uncertainty)]
      BY <3>1
    <3> QED BY <3>1, <3>2 DEF Un!intake
  <2>3. again.uncertainty \in Nat
    BY <2>2, ConvertedIs
  <2>4. /\ o.kind \in DOMAIN Un!canonical /\ again.unit = Un!canonical[o.kind]
        /\ second = [stored |-> Un!Measured(again.value, again.unit, again.uncertainty)]
    BY <2>1, IntakeIs
  <2>5. fact.unit = again.unit /\ fact.uncertainty = again.uncertainty
    BY <1>4, <2>1, <2>4
  <2> QED BY <2>3, <2>4, <2>5
<1> QED BY <1>5, <1>6

LEMMA StoredFromInv == SInv => StoredCanonical
<1> SUFFICES ASSUME SInv, NEW s \in Segs, NEW fact \in contents[s] \ Notes
             PROVE  /\ fact.unit \in {Un!canonical[k] : k \in DOMAIN Un!canonical}
                    /\ fact.uncertainty \in Nat
  BY DEF StoredCanonical
<1>1. fact \in Stored
  BY DEF SInv, TypesOK, Facts
<1> QED BY <1>1, StoredIs

\* A measurement keeps its amount and its uncertainty on the way into the record, and
\* what is decided by it, or by a clock within its bound, is off by no more than they
\* allow (units.rs:100, :142, :239, lifecycle.rs:168).
THEOREM MeasurementsAlwaysSound == SSpec => []MeasurementsSound
<1>1. SInv /\ asked \in Questions \cup {None} => MeasurementsSound
  BY StoredFromInv, AmountsFromAsked, DecisionsFromAsked, DriftFromAsked DEF MeasurementsSound
<1> QED BY <1>1, SInvariance, AskedStays, PTL
=============================================================================
