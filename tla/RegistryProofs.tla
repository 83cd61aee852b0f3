---------------------------- MODULE RegistryProofs ----------------------------
(***************************************************************************)
(* What holds of the registers, their mirrors, the chains composed from    *)
(* them and the rights of their operators, for every set of peers, pairs,  *)
(* kinds, bundles and transforms, any number of versions and publications  *)
(* and any cap on the length of a chain.                                   *)
(***************************************************************************)
EXTENDS Registry, InductionProofs

-----------------------------------------------------------------------------
(* The composition law.                                                    *)

\* What the loop over the layers has found after the first k of them.
LevelNext(g, vector, start, k) ==
  IF k = 0 THEN start ELSE Lower(layer_caps(vector), g[k-1], LAYERS[k])
LevelsOn(g, vector, start, n) == g = [k \in 0..n |-> LevelNext(g, vector, start, k)]

LEMMA LevelsExist ==
  ASSUME NEW vector, NEW start
  PROVE  \A n \in Nat : \E g : LevelsOn(g, vector, start, n)
<1> DEFINE P == {n \in Nat : \E g : LevelsOn(g, vector, start, n)}
<1>1. 0 \in P
  <2>1. LevelsOn([k \in 0..0 |-> start], vector, start, 0)
    BY DEF LevelsOn, LevelNext
  <2> QED BY <2>1
<1>2. ASSUME NEW n \in Nat, n \in P PROVE n + 1 \in P
  <2>1. PICK g : LevelsOn(g, vector, start, n)
    BY <1>2
  <2> DEFINE h == [k \in 0..n + 1 |-> LevelNext(g, vector, start, k)]
  <2>2. \A k \in 0..n : h[k] = g[k]
    BY <2>1 DEF LevelsOn
  <2>3. ASSUME NEW k \in 0..n + 1
        PROVE  LevelNext(h, vector, start, k) = LevelNext(g, vector, start, k)
    <3> HIDE DEF h
    <3>1. k # 0 => h[k-1] = g[k-1]
      BY <2>2
    <3> QED BY <3>1, Zenon DEF LevelNext
  <2>4. LevelsOn(h, vector, start, n + 1)
    <3>1. \A k \in 0..n + 1 : h[k] = LevelNext(g, vector, start, k)
      OBVIOUS
    <3>2. h = [k \in 0..n + 1 |-> h[k]]
      OBVIOUS
    <3> HIDE DEF h
    <3> QED BY <2>3, <3>1, <3>2 DEF LevelsOn
  <2> HIDE DEF h
  <2> QED BY <2>4
<1> HIDE DEF P
<1>3. Nat \subseteq P
  BY <1>1, <1>2, NatSetInduction
<1> QED BY <1>3 DEF P

LEMMA LevelIs ==
  ASSUME NEW vector, NEW start
  PROVE  \E g : LevelsOn(g, vector, start, 6) /\ LevelOver(vector, start) = g[6]
<1> DEFINE table == CHOOSE g : LevelsOn(g, vector, start, Len(LAYERS))
<1>1. Len(LAYERS) = 6
  BY DEF LAYERS
<1>2. LevelsOn(table, vector, start, 6)
  <2>1. \E g : LevelsOn(g, vector, start, 6)
    BY LevelsExist
  <2> QED BY <1>1, <2>1, Zenon
<1>3. LevelOver(vector, start) = table[6]
  <2>1. LevelOver(vector, start) = (CHOOSE g : LevelsOn(g, vector, start, Len(LAYERS)))[Len(LAYERS)]
    BY Zenon DEF LevelOver, LevelsOn, LevelNext
  <2> QED BY <1>1, <2>1, Zenon
<1> HIDE DEF table
<1> QED BY <1>2, <1>3, Zenon

\* A level found so far: the least that is allowed, and what it is named after.
FoundSo(c, caps, cap, allowed) ==
  /\ c.level \in allowed /\ \A n \in allowed : c.level <= n
  /\ c.policy_bound <=> c.level = cap
  /\ IF c.policy_bound THEN c.bottleneck = None ELSE caps[c.bottleneck] = c.level

LEMMA LowerFound ==
  ASSUME NEW c, NEW caps, NEW cap, NEW here, NEW l, here \subseteq Nat, cap \in here,
         caps[l] \in Nat, FoundSo(c, caps, cap, here)
  PROVE  FoundSo(Lower(caps, c, l), caps, cap, here \cup {caps[l]})
<1> DEFINE x == c.level
           y == caps[l]
<1>1. x \in here /\ x \in Nat /\ y \in Nat /\ cap \in Nat /\ \A n \in here : x <= n
  BY DEF FoundSo
<1>2. CASE y < x
  <2>1. Lower(caps, c, l) = [level |-> y, bottleneck |-> l, policy_bound |-> FALSE]
    BY <1>2 DEF Lower
  <2> DEFINE d == [level |-> y, bottleneck |-> l, policy_bound |-> FALSE]
  <2>2. d.level = y /\ d.bottleneck = l /\ d.policy_bound = FALSE
    OBVIOUS
  <2> HIDE DEF d, x
  <2>3. y # cap /\ \A n \in here : y <= n
    BY <1>1, <1>2
  <2> HIDE DEF y
  <2>4. y \in here \cup {y} /\ \A n \in here \cup {y} : y <= n
    BY <1>1, <2>3
  <2>5. FoundSo(d, caps, cap, here \cup {y})
    BY <2>2, <2>3, <2>4, Zenon DEF FoundSo, y
  <2> QED BY <2>1, <2>5, Zenon DEF d, y
<1>3. CASE ~(y < x)
  <2>1. Lower(caps, c, l) = c
    BY <1>3 DEF Lower
  <2> HIDE DEF x, y
  <2>2. x \in here \cup {y} /\ \A n \in here \cup {y} : x <= n
    BY <1>1, <1>3
  <2> QED BY <2>1, <2>2, Zenon DEF FoundSo, x, y
<1> QED BY <1>2, <1>3

\* The composition law holds of every vector and every cap.
LEMMA Composes ==
  ASSUME NEW vector \in [ToSet(LAYERS) -> LinkStates], NEW cap \in Nat
  PROVE  FoundSo(compose(vector, cap), layer_caps(vector), cap,
                 {cap} \cup {layer_caps(vector)[l] : l \in DOMAIN vector})
<1> DEFINE start == [level |-> cap, bottleneck |-> None, policy_bound |-> TRUE]
           caps  == layer_caps(vector)
           allowed(k) == {cap} \cup {caps[LAYERS[i]] : i \in 1..k}
<1>1. PICK g : LevelsOn(g, vector, start, 6) /\ LevelOver(vector, start) = g[6]
  BY LevelIs
<1>2. Len(LAYERS) = 6 /\ DOMAIN LAYERS = 1..6 /\ \A i \in 1..6 : LAYERS[i] \in ToSet(LAYERS)
  BY DEF LAYERS, ToSet
<1>3. \A l \in ToSet(LAYERS) : caps[l] \in Nat
  BY DEF layer_caps
<1> DEFINE P == {k \in Nat : k <= 6 => FoundSo(g[k], caps, cap, allowed(k))}
<1>4. 0 \in P
  <2>1. g[0] = start
    BY <1>1 DEF LevelsOn, LevelNext
  <2> HIDE DEF caps
  <2>2. allowed(0) = {cap}
    OBVIOUS
  <2> HIDE DEF allowed
  <2>3. FoundSo(start, caps, cap, {cap})
    BY DEF FoundSo
  <2> QED BY <2>1, <2>2, <2>3
<1>5. ASSUME NEW k \in Nat, k \in P PROVE k + 1 \in P
  <2> SUFFICES ASSUME k + 1 <= 6 PROVE FoundSo(g[k+1], caps, cap, allowed(k+1))
    OBVIOUS
  <2> DEFINE l == LAYERS[k+1]
  <2>1. k + 1 \in 1..6 /\ k + 1 \in 0..6 /\ (k + 1) - 1 = k /\ k + 1 # 0
    OBVIOUS
  <2>2. g[k+1] = Lower(caps, g[k], l)
    <3>1. g[k+1] = LevelNext(g, vector, start, k + 1)
      <4> HIDE DEF start
      <4> QED BY <1>1, <2>1 DEF LevelsOn
    <3> QED BY <2>1, <3>1, Zenon DEF LevelNext
  <2> HIDE DEF caps
  <2>3. allowed(k+1) = allowed(k) \cup {caps[l]}
    <3>1. 1..k+1 = 1..k \cup {k+1}
      OBVIOUS
    <3> QED BY <3>1
  <2>4. allowed(k) \subseteq Nat /\ caps[l] \in Nat /\ cap \in allowed(k)
    BY <1>2, <1>3, <2>1
  <2>5. FoundSo(g[k], caps, cap, allowed(k))
    BY <1>5
  <2> HIDE DEF allowed, l
  <2> QED BY <2>2, <2>3, <2>4, <2>5, LowerFound
<1> HIDE DEF P
<1>6. Nat \subseteq P
  BY <1>4, <1>5, NatSetInduction
<1>7. FoundSo(g[6], caps, cap, allowed(6))
  <2> HIDE DEF allowed, caps
  <2> QED BY <1>6 DEF P
<1>8. compose(vector, cap) = g[6]
  BY <1>1, Zenon DEF compose
<1>9. {caps[LAYERS[i]] : i \in 1..6} = {caps[l] : l \in DOMAIN vector}
  <2>1. DOMAIN vector = {LAYERS[i] : i \in 1..6}
    BY <1>2 DEF ToSet
  <2> HIDE DEF caps
  <2> QED BY <2>1
<1> QED BY <1>7, <1>8, <1>9, Zenon

\* However far the exchange has come, the level two peers relate at is bounded by
\* the policy and by every layer and is that of what is named as the bottleneck.
THEOREM CompositionAlwaysBounded == RSpec => []CompositionLaw
<1>1. CompositionLaw
  <2> SUFFICES ASSUME NEW vector \in Vectors, NEW cap \in {0, 3, 5}
               PROVE  FoundSo(compose(vector, cap), layer_caps(vector), cap,
                              {cap} \cup {layer_caps(vector)[l] : l \in DOMAIN vector})
    BY Zenon DEF CompositionLaw, FoundSo
  <2>1. vector \in [ToSet(LAYERS) -> LinkStates]
    <3>1. PICK first \in LinkStates, second \in LinkStates :
            vector = [[l \in ToSet(LAYERS) |-> "same"] EXCEPT
              !["semantics"] = IF chain = None THEN "gap" ELSE "bridged-by",
              !["protocol"] = first, !["trust"] = second]
      BY DEF Vectors
    <3> QED BY <3>1 DEF LinkStates
  <2>2. cap \in Nat
    OBVIOUS
  <2> QED BY <2>1, <2>2, Composes, Zenon
<1> QED BY <1>1, PTL

-----------------------------------------------------------------------------
(* Who may do what.                                                        *)

\* A place in a set of positions is taken for the first of them.
LEMMA FirstIs ==
  ASSUME NEW n \in Nat, NEW I, I \subseteq 1..n
  PROVE  /\ (IF I # {} THEN Min(I) ELSE 0) = 0 <=> I = {}
         /\ I # {} => (IF I # {} THEN Min(I) ELSE 0) \in I
<1>1. ASSUME I # {} PROVE Min(I) \in I
  <2>1. I \subseteq Nat
    OBVIOUS
  <2>2. \E x \in I : \A y \in I : x <= y
    BY <1>1, <2>1, LeastElement
  <2> QED BY <2>2, Zenon DEF Min
<1>2. 0 \notin I
  OBVIOUS
<1> QED BY <1>1, <1>2, Zenon

\* Permitted: a held role admits the action and the tier is reached.
LEMMA PermittedIs ==
  ASSUME NEW c, NEW n \in Nat, n = Len(c.roles), NEW a
  PROVE  Permitted(c, a) <=> /\ \E i \in 1..n : c.roles[i] \in role_catalog[a]
                             /\ c.tier >= minimum_tier(a)
<1> DEFINE I == {i \in 1..Len(c.roles) : c.roles[i] \in role_catalog[a]}
           first == IF I # {} THEN Min(I) ELSE 0
<1>1. authorize(c, a) = IF first = 0 THEN [refused |-> "no-role-admits"]
                                     ELSE AtTier(c.roles[first], c, a)
  BY Zenon DEF authorize, SelectInSeq
<1>2. first = 0 <=> I = {}
  <2>1. I \subseteq 1..n
    OBVIOUS
  <2> HIDE DEF I
  <2> QED BY <2>1, FirstIs, Zenon
<1>3. \A role : "permitted" \in DOMAIN AtTier(role, c, a) <=> c.tier >= minimum_tier(a)
  BY DEF AtTier
<1>4. "permitted" \notin DOMAIN [refused |-> "no-role-admits"]
  OBVIOUS
<1>5. I = {} <=> ~ \E i \in 1..n : c.roles[i] \in role_catalog[a]
  OBVIOUS
<1> HIDE DEF I, first
<1>6. Permitted(c, a) <=> first # 0 /\ c.tier >= minimum_tier(a)
  BY <1>1, <1>3, <1>4, Zenon DEF Permitted
<1> QED BY <1>2, <1>5, <1>6, Zenon

\* The ceremony lists an operator that may register services and passes the gates.
LEMMA OnboardIs ==
  ASSUME NEW bundle, NEW n \in Nat, n = Len(bundle.roles), DOMAIN bundle.roles = 1..n,
         bundle.tier \in Nat, NEW application
  PROVE  onboard(bundle, application) = [state |-> "listed"]
           <=> /\ \E i \in 1..n : bundle.roles[i] \in role_catalog["register-service"]
               /\ bundle.tier >= 2
               /\ ToSet(Gates) \subseteq application.descriptor
<1> DEFINE I == {i \in 1..Len(Gates) : ~gate_passes(Gates[i], application)}
           failed == IF I # {} THEN Min(I) ELSE 0
           listing == [state |-> "listed"]
<1>1. Len(Gates) = 3 /\ DOMAIN Gates = 1..3
  BY DEF Gates
<1>2. FirstGateOr(application, listing) = IF failed # 0 THEN [refused |-> Gates[failed]]
                                                        ELSE listing
  BY Zenon DEF FirstGateOr, SelectInSeq
<1>3. failed = 0 <=> I = {}
  <2>1. I \subseteq 1..3
    BY <1>1
  <2> HIDE DEF I
  <2> QED BY <2>1, FirstIs
<1>4. I = {} <=> ToSet(Gates) \subseteq application.descriptor
  BY <1>1 DEF ToSet, gate_passes
<1>5. \A x : [refused |-> x] # listing
  <2>1. \A x : "refused" \in DOMAIN [refused |-> x]
    OBVIOUS
  <2>2. "refused" \notin DOMAIN listing
    OBVIOUS
  <2> QED BY <2>1, <2>2, Zenon
<1> HIDE DEF I, failed, listing
<1>6. FirstGateOr(application, listing) = listing <=> ToSet(Gates) \subseteq application.descriptor
  BY <1>2, <1>3, <1>4, <1>5, Zenon
<1>7. minimum_tier("register-service") = 2
  BY DEF minimum_tier
<1>8. CredentialOf(bundle, application.operator).tier = bundle.tier
  BY DEF CredentialOf
<1>9. onboard(bundle, application) =
        IF \A i \in 1..n : bundle.roles[i] \notin role_catalog["register-service"]
          THEN [refused |-> "register-service"]
        ELSE IF bundle.tier < 2 THEN [refused |-> "tier"]
        ELSE FirstGateOr(application, listing)
  BY <1>7, <1>8 DEF onboard, listing
<1>10. \A x : [refused |-> x] # [state |-> "listed"]
  BY <1>5 DEF listing
<1> QED BY <1>6, <1>9, <1>10 DEF listing

Credentials == [operator : Peers, roles : Seq(Roles), tier : Tiers]

\* A further role at either end, or a higher tier, takes no permission away.
LEMMA MorePermits ==
  ASSUME NEW c \in Credentials, NEW role, NEW a \in Actions, Permitted(c, a)
  PROVE  /\ Permitted([c EXCEPT !.roles = <<role>> \o @], a)
         /\ Permitted([c EXCEPT !.roles = Append(@, role)], a)
         /\ \A t \in Tiers : t >= c.tier => Permitted([c EXCEPT !.tier = t], a)
<1> DEFINE n == Len(c.roles)
           S == Roles \cup {role}
<1>1. n \in Nat /\ c.roles \in Seq(S) /\ c.tier \in Nat
  <2>1. c.roles \in Seq(Roles) /\ c.tier \in Tiers
    BY DEF Credentials
  <2> QED BY <2>1 DEF Tiers
<1>0. /\ \E i \in 1..n : c.roles[i] \in role_catalog[a]
      /\ c.tier >= minimum_tier(a)
  BY <1>1, PermittedIs, Zenon
<1>2. PICK i \in 1..n : c.roles[i] \in role_catalog[a]
  BY <1>0
<1>3. c.tier >= minimum_tier(a) /\ minimum_tier(a) \in Nat
  <2>1. minimum_tier(a) \in {1, 2, 3, 4}
    BY DEF minimum_tier
  <2> QED BY <1>0, <2>1
<1> HIDE DEF n, S
<1>4. Permitted([c EXCEPT !.roles = <<role>> \o @], a)
  <2> DEFINE d == [c EXCEPT !.roles = <<role>> \o @]
  <2>1. d.roles = <<role>> \o c.roles /\ d.tier = c.tier
    BY DEF Credentials
  <2> HIDE DEF d
  <2>2. <<role>> \in Seq(S) /\ Len(<<role>>) = 1
    BY DEF S
  <2>3. Len(d.roles) = n + 1 /\ d.roles[i + 1] = c.roles[i]
    BY <1>1, <2>1, <2>2 DEF n
  <2>4. n + 1 \in Nat /\ i + 1 \in 1..n+1
    BY <1>1
  <2> QED BY <1>2, <1>3, <2>1, <2>3, <2>4, PermittedIs DEF d
<1>5. Permitted([c EXCEPT !.roles = Append(@, role)], a)
  <2> DEFINE d == [c EXCEPT !.roles = Append(@, role)]
  <2>1. d.roles = Append(c.roles, role) /\ d.tier = c.tier
    BY DEF Credentials
  <2> HIDE DEF d
  <2>2. Len(d.roles) = n + 1 /\ d.roles[i] = c.roles[i]
    BY <1>1, <2>1 DEF n, S
  <2>3. n + 1 \in Nat /\ i \in 1..n+1
    BY <1>1
  <2> QED BY <1>2, <1>3, <2>1, <2>2, <2>3, PermittedIs DEF d
<1>6. ASSUME NEW t \in Tiers, t >= c.tier PROVE Permitted([c EXCEPT !.tier = t], a)
  <2> DEFINE d == [c EXCEPT !.tier = t]
  <2>1. d.roles = c.roles /\ d.tier = t
    BY DEF Credentials
  <2> HIDE DEF d
  <2>2. t \in Nat /\ t >= minimum_tier(a)
    BY <1>1, <1>3, <1>6 DEF Tiers
  <2> QED BY <1>1, <1>2, <2>1, <2>2, PermittedIs DEF d, n
<1> QED BY <1>4, <1>5, <1>6

-----------------------------------------------------------------------------
(* What has been published.                                                *)

Published == {published[i] : i \in DOMAIN published}
Kinds == UNION {KindsOf[pair] : pair \in Pairs}
Elements == {pair[1] : pair \in Pairs} \cup {pair[2] : pair \in Pairs}
Mappings == [source : Elements, target : Elements, version : Nat, kind : Kinds]
Items == [id : [register : Peers, item : Pairs, version : Nat \cup {None}],
          canonical : Mappings]

\* An item of the exchange is about its pair, under the version it has or as the
\* floating one.
Mapped(x) ==
  LET pair == x.id.item
      m    == x.canonical
  IN  /\ pair \in Pairs /\ x = ExchangeItem(pair, x.id.version, m)
      /\ m = MappingItem(pair[1], pair[2], m.version, m.kind)
      /\ m.version \in Nat \ {0} /\ x.id.version \in {None, m.version}

\* The versions that the items of a set give to a pair.
Pinned(S, pair) == {x.id.version : x \in {y \in S : y.id.item = pair}} \ {None}

\* Versions are numbered from one without gaps, nothing is published twice under
\* one version, and a floating item is one of the versions.
Numbered(S) ==
  /\ \A x \in S : Mapped(x) /\ x.canonical.version \in Pinned(S, x.id.item)
  /\ \A x, y \in S : x.id.item = y.id.item /\ x.canonical.version = y.canonical.version
       => x.canonical = y.canonical
  /\ \A pair \in Pairs : \E k \in Nat : Pinned(S, pair) = 1..k

PInv == published \in Seq(Items) /\ Numbered(Published)

\* Listed operators have the credential of a bundle that may register services, and
\* the owner of what was published may operate a registry.
LInv ==
  /\ DOMAIN listed = Peers
  /\ \A p \in Peers : listed[p] # None =>
       listed[p] \in Credentials /\ Permitted(listed[p], "register-service")
  /\ \A x \in Published : LET peer == x.id.register
                          IN  /\ peer \in Peers /\ listed[peer] # None
                              /\ Permitted(listed[peer], "operate-registry")

LEMMA PinnedIs ==
  ASSUME NEW pair
  PROVE  PinnedVersions(pair) = Pinned(Published, pair)
BY DEF PinnedVersions, Pinned, Published

\* What publishing adds.
LEMMA PublishAdds ==
  ASSUME published \in Seq(Items), NEW pair \in Pairs, NEW kind \in KindsOf[pair],
         Publish(pair, kind), Cardinality(PinnedVersions(pair)) \in Nat
  PROVE  LET n == 1 + Cardinality(PinnedVersions(pair))
             m == MappingItem(pair[1], pair[2], n, kind)
         IN  /\ published' \in Seq(Items)
             /\ Published' = Published \cup {ExchangeItem(pair, n, m), ExchangeItem(pair, None, m)}
             /\ \A i \in DOMAIN published : i \in DOMAIN published' /\ published'[i] = published[i]
<1> DEFINE n == 1 + Cardinality(PinnedVersions(pair))
           m == MappingItem(pair[1], pair[2], n, kind)
           x == ExchangeItem(pair, n, m)
           y == ExchangeItem(pair, None, m)
<1>1. published' = published \o <<x, y>>
  BY Zenon DEF Publish
<1>2. x \in Items /\ y \in Items
  <2>1. n \in Nat
    OBVIOUS
  <2>2. m \in Mappings
    <3> HIDE DEF n
    <3>1. pair[1] \in Elements /\ pair[2] \in Elements /\ kind \in Kinds
      BY DEF Elements, Kinds
    <3> QED BY <2>1, <3>1 DEF Mappings, MappingItem
  <2> HIDE DEF n, m
  <2>3. OwnerOf[pair] \in Peers
    BY RegistryConstantsOK
  <2> QED BY <2>1, <2>2, <2>3 DEF Items, ExchangeItem
<1> HIDE DEF x, y
<1>3. published' \in Seq(Items)
  BY <1>1, <1>2
<1>4. DOMAIN published = 1..Len(published) /\ Len(published) \in Nat
  OBVIOUS
<1>5. /\ Len(published') = Len(published) + 2
      /\ \A i \in 1..Len(published) : published'[i] = published[i]
      /\ published'[Len(published) + 1] = x /\ published'[Len(published) + 2] = y
  BY <1>1, <1>2
<1>6. DOMAIN published' = DOMAIN published \cup {Len(published) + 1, Len(published) + 2}
  BY <1>3, <1>4, <1>5
<1>7. Published' = Published \cup {x, y}
  BY <1>4, <1>5, <1>6 DEF Published
<1> QED BY <1>3, <1>4, <1>5, <1>6, <1>7, Zenon DEF x, y

\* A next version, and its floating item, keep a set of items numbered.
LEMMA NumberedMore ==
  ASSUME NEW S, Numbered(S), NEW pair \in Pairs, NEW k \in Nat, Pinned(S, pair) = 1..k,
         NEW kind, NEW n, n = k + 1, NEW m, m = MappingItem(pair[1], pair[2], n, kind),
         NEW T, T = S \cup {ExchangeItem(pair, n, m), ExchangeItem(pair, None, m)}
  PROVE  Numbered(T)
<1> DEFINE a == ExchangeItem(pair, n, m)
           b == ExchangeItem(pair, None, m)
<1>0. n \in Nat \ {0} /\ None \notin Nat
  BY RegistryConstantsOK
<1>1. /\ a.id.item = pair /\ a.id.version = n /\ a.canonical = m
      /\ b.id.item = pair /\ b.id.version = None /\ b.canonical = m
      /\ m.version = n /\ m.kind = kind
  BY DEF ExchangeItem, MappingItem
<1>2. Mapped(a) /\ Mapped(b)
  BY <1>0, <1>1, Zenon DEF Mapped
<1> HIDE DEF a, b
<1>3. T = S \cup {a, b}
  BY DEF a, b
<1>4. /\ Pinned(T, pair) = Pinned(S, pair) \cup {n}
      /\ \A q \in Pairs : q # pair => Pinned(T, q) = Pinned(S, q)
      /\ \A q \in Pairs : Pinned(S, q) \subseteq Pinned(T, q)
      /\ n \in Pinned(T, pair)
  BY <1>0, <1>1, <1>3 DEF Pinned
<1>5. \A x \in S : Mapped(x) /\ x.canonical.version \in Pinned(S, x.id.item)
                   /\ x.id.item \in Pairs
  BY DEF Numbered, Mapped
<1>6. ASSUME NEW x \in T PROVE Mapped(x) /\ x.canonical.version \in Pinned(T, x.id.item)
  <2>1. CASE x \in S
    BY <1>4, <1>5, <2>1
  <2>2. CASE x \notin S
    <3>1. x.canonical.version = n /\ x.id.item = pair /\ Mapped(x)
      BY <1>1, <1>2, <1>3, <2>2
    <3> QED BY <1>4, <3>1
  <2> QED BY <2>1, <2>2
<1>7. ASSUME NEW x \in T, NEW y \in T, x.id.item = y.id.item,
             x.canonical.version = y.canonical.version
      PROVE  x.canonical = y.canonical
  <2>1. ASSUME NEW z \in S, z.id.item = pair PROVE z.canonical.version # n
    <3>1. z.canonical.version \in 1..k
      BY <1>5, <2>1
    <3> QED BY <3>1
  <2>2. ASSUME NEW z \in T PROVE z \in S \/ (z.canonical = m /\ z.id.item = pair)
    <3>1. CASE z = a
      BY <1>1, <3>1
    <3>2. CASE z = b
      BY <1>1, <3>2
    <3> QED BY <1>3, <3>1, <3>2
  <2>3. CASE x \in S /\ y \in S
    BY <1>7, <2>3, Zenon DEF Numbered
  <2>4. CASE x \notin S \/ y \notin S
    BY <1>1, <1>7, <2>1, <2>2, <2>4
  <2> QED BY <2>3, <2>4
<1>8. ASSUME NEW q \in Pairs PROVE \E j \in Nat : Pinned(T, q) = 1..j
  <2>1. CASE q = pair
    <3>1. Pinned(T, q) = (1..k) \cup {k + 1}
      BY <1>4, <2>1, Zenon
    <3>2. (1..k) \cup {k + 1} = 1..k+1 /\ k + 1 \in Nat
      OBVIOUS
    <3> QED BY <3>1, <3>2, Zenon
  <2>2. CASE q # pair
    <3>1. Pinned(T, q) = Pinned(S, q)
      BY <1>4, <2>2, Zenon
    <3> QED BY <3>1, Zenon DEF Numbered
  <2> QED BY <2>1, <2>2
<1>9. \A x \in T : Mapped(x) /\ x.canonical.version \in Pinned(T, x.id.item)
  BY <1>6
<1>10. \A x, y \in T : x.id.item = y.id.item /\ x.canonical.version = y.canonical.version
         => x.canonical = y.canonical
  BY <1>7
<1>11. \A q \in Pairs : \E j \in Nat : Pinned(T, q) = 1..j
  BY <1>8
<1> QED BY <1>9, <1>10, <1>11 DEF Numbered

LEMMA PInvInit == RInit => PInv
<1> SUFFICES ASSUME RInit PROVE PInv
  OBVIOUS
<1>1. published = << >> /\ DOMAIN << >> = {}
  BY DEF RInit
<1>2. Published = {}
  BY <1>1 DEF Published
<1>3. \A pair \in Pairs : Pinned({}, pair) = 1..0
  BY DEF Pinned
<1>4. Numbered({})
  BY <1>3 DEF Numbered
<1> QED BY <1>1, <1>2, <1>4 DEF PInv

LEMMA PinnedCount ==
  ASSUME PInv, NEW pair \in Pairs
  PROVE  \E k \in Nat : Pinned(Published, pair) = 1..k /\ Cardinality(PinnedVersions(pair)) = k
<1>1. PICK k \in Nat : Pinned(Published, pair) = 1..k
  BY DEF PInv, Numbered
<1>2. Cardinality(1..k) = k
  <2>1. Cardinality(1..k) = IF 1 > k THEN 0 ELSE k - 1 + 1
    BY FS_Interval
  <2> QED BY <2>1
<1> QED BY <1>1, <1>2, PinnedIs

LEMMA PInvNext == PInv /\ [RNext]_rvars => PInv'
<1> SUFFICES ASSUME PInv, [RNext]_rvars PROVE PInv'
  OBVIOUS
<1>1. CASE UNCHANGED published
  BY <1>1, Zenon DEF PInv, Published
<1>2. ASSUME NEW pair \in Pairs, NEW kind \in KindsOf[pair], Publish(pair, kind) PROVE PInv'
  <2>1. PICK k \in Nat : /\ Pinned(Published, pair) = 1..k
                         /\ Cardinality(PinnedVersions(pair)) = k
    BY PinnedCount
  <2>2. LET n == 1 + Cardinality(PinnedVersions(pair))
            m == MappingItem(pair[1], pair[2], n, kind)
        IN  /\ published' \in Seq(Items)
            /\ Published' = Published \cup {ExchangeItem(pair, n, m), ExchangeItem(pair, None, m)}
    BY <1>2, <2>1, PublishAdds, Zenon DEF PInv
  <2> DEFINE n == 1 + Cardinality(PinnedVersions(pair))
             m == MappingItem(pair[1], pair[2], n, kind)
  <2>3. n = k + 1
    BY <2>1
  <2>4. Numbered(Published')
    <3> HIDE DEF n
    <3>1. Numbered(Published)
      BY Zenon DEF PInv
    <3> QED BY <2>1, <2>2, <2>3, <3>1, NumberedMore, Zenon DEF n
  <2> QED BY <2>2, <2>4, Zenon DEF PInv
<1> QED BY <1>1, <1>2, Zenon DEF RNext, rvars, Onboard, Sync, Federate, Start, Extend

\* What a bundle gives an operator, and when that lets it register services.
LEMMA CredentialIs ==
  ASSUME NEW bundle \in Bundles, NEW p \in Peers
  PROVE  LET c == CredentialOf(bundle, p)
             n == Len(bundle.roles)
         IN  /\ c \in Credentials
             /\ n \in Nat /\ DOMAIN bundle.roles = 1..n /\ bundle.tier \in Nat
             /\ Permitted(c, "register-service")
                  <=> /\ \E i \in 1..n : bundle.roles[i] \in role_catalog["register-service"]
                      /\ bundle.tier >= 2
<1> DEFINE c == CredentialOf(bundle, p)
           n == Len(bundle.roles)
<1>1. bundle \in [roles : Seq(Roles), tier : Tiers]
  BY RegistryConstantsOK
<1>2. bundle.roles \in Seq(Roles) /\ bundle.tier \in Tiers /\ bundle.tier \in Nat
  BY <1>1 DEF Tiers
<1>3. n \in Nat /\ DOMAIN bundle.roles = 1..n
  BY <1>2
<1>4. c \in Credentials /\ c.roles = bundle.roles /\ c.tier = bundle.tier
  BY <1>2 DEF CredentialOf, Credentials
<1>5. minimum_tier("register-service") = 2
  BY DEF minimum_tier
<1>6. Permitted(c, "register-service")
        <=> /\ \E i \in 1..n : c.roles[i] \in role_catalog["register-service"]
            /\ c.tier >= minimum_tier("register-service")
  <2> HIDE DEF c
  <2>1. n = Len(c.roles)
    BY <1>4
  <2> HIDE DEF n
  <2> QED BY <1>3, <2>1, PermittedIs, Zenon
<1> HIDE DEF c, n
<1> QED BY <1>2, <1>3, <1>4, <1>5, <1>6 DEF c, n

LEMMA CeremonyIs ==
  ASSUME NEW bundle \in Bundles, NEW p \in Peers, NEW keys
  PROVE  onboard(bundle, [operator |-> p, descriptor |-> keys]) = [state |-> "listed"]
           <=> /\ Permitted(CredentialOf(bundle, p), "register-service")
               /\ ToSet(Gates) \subseteq keys
<1> DEFINE n == Len(bundle.roles)
           application == [operator |-> p, descriptor |-> keys]
<1>1. n \in Nat /\ DOMAIN bundle.roles = 1..n /\ bundle.tier \in Nat
  BY CredentialIs, Zenon
<1>2. application.descriptor = keys
  OBVIOUS
<1>3. Permitted(CredentialOf(bundle, p), "register-service")
        <=> /\ \E i \in 1..n : bundle.roles[i] \in role_catalog["register-service"]
            /\ bundle.tier >= 2
  BY CredentialIs, Zenon
<1> HIDE DEF application
<1>4. onboard(bundle, application) = [state |-> "listed"]
        <=> /\ \E i \in 1..n : bundle.roles[i] \in role_catalog["register-service"]
            /\ bundle.tier >= 2
            /\ ToSet(Gates) \subseteq application.descriptor
  BY <1>1, OnboardIs, Zenon
<1> QED BY <1>2, <1>3, <1>4, Zenon DEF application

LEMMA LInvInit == RInit => LInv
<1> SUFFICES ASSUME RInit PROVE LInv
  OBVIOUS
<1>1. Published = {}
  BY DEF RInit, Published
<1> QED BY <1>1 DEF RInit, LInv

LEMMA LInvNext == PInv /\ LInv /\ [RNext]_rvars => LInv'
<1> SUFFICES ASSUME PInv, LInv, [RNext]_rvars PROVE LInv'
  OBVIOUS
<1>1. CASE UNCHANGED <<listed, published>>
  <2>1. Published' = Published
    BY <1>1 DEF Published
  <2> QED BY <1>1, <2>1, Zenon DEF LInv
<1>2. ASSUME NEW peer \in Peers, NEW bundle \in Bundles, NEW keys, Onboard(peer, bundle, keys)
      PROVE  LInv'
  <2> DEFINE c == CredentialOf(bundle, peer)
  <2>1. /\ listed[peer] = None /\ listed' = [listed EXCEPT ![peer] = c]
        /\ onboard(bundle, [operator |-> peer, descriptor |-> keys]) = [state |-> "listed"]
        /\ Published' = Published
    BY <1>2 DEF Onboard, Published
  <2>2. c \in Credentials /\ Permitted(c, "register-service")
    BY <2>1, CredentialIs, CeremonyIs, Zenon
  <2> HIDE DEF c
  <2>3. /\ DOMAIN listed' = Peers /\ listed'[peer] = c
        /\ \A p \in Peers : p # peer => listed'[p] = listed[p]
    BY <2>1 DEF LInv
  <2>4. \A p \in Peers : listed'[p] # None =>
          listed'[p] \in Credentials /\ Permitted(listed'[p], "register-service")
    BY <2>2, <2>3, Zenon DEF LInv
  <2>5. ASSUME NEW x \in Published
        PROVE  LET p == x.id.register
               IN  /\ p \in Peers /\ listed'[p] # None
                   /\ Permitted(listed'[p], "operate-registry")
    <3>1. LET p == x.id.register
          IN  /\ p \in Peers /\ listed[p] # None /\ Permitted(listed[p], "operate-registry")
      BY Zenon DEF LInv
    <3> QED BY <2>1, <2>3, <3>1, Zenon
  <2> QED BY <2>1, <2>3, <2>4, <2>5, Zenon DEF LInv
<1>3. ASSUME NEW pair \in Pairs, NEW kind \in KindsOf[pair], Publish(pair, kind) PROVE LInv'
  <2>1. Cardinality(PinnedVersions(pair)) \in Nat
    BY PinnedCount
  <2> DEFINE n == 1 + Cardinality(PinnedVersions(pair))
             m == MappingItem(pair[1], pair[2], n, kind)
             a == ExchangeItem(pair, n, m)
             b == ExchangeItem(pair, None, m)
  <2>2. Published' = Published \cup {a, b}
    BY <1>3, <2>1, PublishAdds, Zenon DEF PInv
  <2>3. /\ listed' = listed /\ listed[OwnerOf[pair]] # None
        /\ Permitted(listed[OwnerOf[pair]], "operate-registry")
    BY <1>3 DEF Publish
  <2>4. a.id.register = OwnerOf[pair] /\ b.id.register = OwnerOf[pair]
    BY DEF ExchangeItem
  <2>5. OwnerOf[pair] \in Peers
    BY RegistryConstantsOK
  <2> HIDE DEF n, m, a, b
  <2>6. \A x \in Published' : x \in Published \/ x.id.register = OwnerOf[pair]
    BY <2>2, <2>4
  <2> QED BY <2>3, <2>5, <2>6, Zenon DEF LInv
<1> QED BY <1>1, <1>2, <1>3, Zenon DEF RNext, rvars, Sync, Federate, Start, Extend

LEMMA PInvAlways == RSpec => []PInv
<1>1. RInit => PInv
  BY PInvInit
<1>2. PInv /\ [RNext]_rvars => PInv'
  BY PInvNext
<1> QED BY <1>1, <1>2, PTL DEF RSpec

LEMMA LInvAlways == RSpec => []LInv
<1>1. RInit => LInv
  BY LInvInit
<1>2. PInv /\ LInv /\ [RNext]_rvars => LInv'
  BY LInvNext
<1> QED BY <1>1, <1>2, PInvAlways, PTL DEF RSpec

LEMMA RightsMatch == LInv => RightsMatchCatalog
<1> SUFFICES ASSUME LInv PROVE RightsMatchCatalog
  OBVIOUS
<1>1. AuthorizationMonotone
  <2> SUFFICES ASSUME NEW p \in Peers, listed[p] # None,
                      NEW role \in {"consumer", "registrar", "trust-authority"},
                      NEW a \in Actions, Permitted(listed[p], a)
               PROVE  /\ Permitted([listed[p] EXCEPT !.roles = <<role>> \o @], a)
                      /\ Permitted([listed[p] EXCEPT !.roles = Append(@, role)], a)
                      /\ \A t \in Tiers : t >= listed[p].tier
                           => Permitted([listed[p] EXCEPT !.tier = t], a)
    BY Zenon DEF AuthorizationMonotone
  <2>1. listed[p] \in Credentials
    BY Zenon DEF LInv
  <2> QED BY <2>1, MorePermits, Zenon
<1>2. CeremonyMatchesCatalog
  <2>1. \A p \in Peers : listed[p] # None => Permitted(listed[p], "register-service")
    BY Zenon DEF LInv
  <2> QED BY <2>1, CeremonyIs, Zenon DEF CeremonyMatchesCatalog
<1>3. PublishersPermitted
  <2>1. \A i \in DOMAIN published : published[i] \in Published
    BY DEF Published
  <2> QED BY <2>1, Zenon DEF PublishersPermitted, LInv
<1> QED BY <1>1, <1>2, <1>3, Zenon DEF RightsMatchCatalog

\* A further role or a higher tier takes no permission away, the ceremony lists who
\* the catalog lets register services and passes the gates, and what was published
\* was published by an operator of a registry, in whatever order it all happened.
THEOREM RightsAlwaysMatchCatalog == RSpec => []RightsMatchCatalog
<1>1. LInv => RightsMatchCatalog
  BY RightsMatch
<1> QED BY <1>1, LInvAlways, PTL

-----------------------------------------------------------------------------
(* What the mirrors serve.                                                 *)

\* The items of a peer, and the mirror they fill, after the first k of them.
ItemsNext(g, peer, k) ==
  IF k = 0 THEN << >>
  ELSE IF published[k].id.register = peer THEN Append(g[k-1], published[k]) ELSE g[k-1]
ItemsOn(g, peer, n) == g = [k \in 0..n |-> ItemsNext(g, peer, k)]
FilledNext(g, items, k) == IF k = 0 THEN Emptied ELSE sync(g[k-1], items[k])
FilledOn(g, items, n) == g = [k \in 0..n |-> FilledNext(g, items, k)]

LEMMA ItemsExist ==
  ASSUME NEW peer
  PROVE  \A n \in Nat : \E g : ItemsOn(g, peer, n)
<1> DEFINE P == {n \in Nat : \E g : ItemsOn(g, peer, n)}
<1>1. 0 \in P
  <2>1. ItemsOn([k \in 0..0 |-> ItemsNext(<< >>, peer, 0)], peer, 0)
    BY DEF ItemsOn, ItemsNext
  <2> QED BY <2>1
<1>2. ASSUME NEW n \in Nat, n \in P PROVE n + 1 \in P
  <2>1. PICK g : ItemsOn(g, peer, n)
    BY <1>2
  <2> DEFINE h == [k \in 0..n + 1 |-> ItemsNext(g, peer, k)]
  <2>2. \A k \in 0..n : h[k] = g[k]
    BY <2>1 DEF ItemsOn
  <2>3. ASSUME NEW k \in 0..n + 1 PROVE ItemsNext(h, peer, k) = ItemsNext(g, peer, k)
    <3> HIDE DEF h
    <3>1. k # 0 => h[k-1] = g[k-1]
      BY <2>2
    <3> QED BY <3>1, Zenon DEF ItemsNext
  <2>4. ItemsOn(h, peer, n + 1)
    <3>1. \A k \in 0..n + 1 : h[k] = ItemsNext(g, peer, k)
      OBVIOUS
    <3>2. h = [k \in 0..n + 1 |-> h[k]]
      OBVIOUS
    <3> HIDE DEF h
    <3> QED BY <2>3, <3>1, <3>2 DEF ItemsOn
  <2> HIDE DEF h
  <2> QED BY <2>4
<1> HIDE DEF P
<1>3. Nat \subseteq P
  BY <1>1, <1>2, NatSetInduction
<1> QED BY <1>3 DEF P

LEMMA FilledExist ==
  ASSUME NEW items
  PROVE  \A n \in Nat : \E g : FilledOn(g, items, n)
<1> DEFINE P == {n \in Nat : \E g : FilledOn(g, items, n)}
<1>1. 0 \in P
  <2>1. FilledOn([k \in 0..0 |-> FilledNext(<< >>, items, 0)], items, 0)
    BY DEF FilledOn, FilledNext
  <2> QED BY <2>1
<1>2. ASSUME NEW n \in Nat, n \in P PROVE n + 1 \in P
  <2>1. PICK g : FilledOn(g, items, n)
    BY <1>2
  <2> DEFINE h == [k \in 0..n + 1 |-> FilledNext(g, items, k)]
  <2>2. \A k \in 0..n : h[k] = g[k]
    BY <2>1 DEF FilledOn
  <2>3. ASSUME NEW k \in 0..n + 1 PROVE FilledNext(h, items, k) = FilledNext(g, items, k)
    <3> HIDE DEF h
    <3>1. k # 0 => h[k-1] = g[k-1]
      BY <2>2
    <3> QED BY <3>1, Zenon DEF FilledNext
  <2>4. FilledOn(h, items, n + 1)
    <3>1. \A k \in 0..n + 1 : h[k] = FilledNext(g, items, k)
      OBVIOUS
    <3>2. h = [k \in 0..n + 1 |-> h[k]]
      OBVIOUS
    <3> HIDE DEF h
    <3> QED BY <2>3, <3>1, <3>2 DEF FilledOn
  <2> HIDE DEF h
  <2> QED BY <2>4
<1> HIDE DEF P
<1>3. Nat \subseteq P
  BY <1>1, <1>2, NatSetInduction
<1> QED BY <1>3 DEF P

\* What is filtered from what was published was published.
LEMMA ItemsOfIs ==
  ASSUME PInv, NEW peer
  PROVE  ItemsOf(peer) \in Seq(Published)
<1> DEFINE n == Len(published)
           g == CHOOSE f : ItemsOn(f, peer, n)
           P == {k \in Nat : k <= n => g[k] \in Seq(Published)}
<1>1. n \in Nat /\ \A k \in 1..n : published[k] \in Published
  BY DEF PInv, Published
<1>2. ItemsOn(g, peer, n)
  <2>1. \E f : ItemsOn(f, peer, n)
    BY <1>1, ItemsExist
  <2> QED BY <2>1
<1>3. ItemsOf(peer) = g[n]
  BY Zenon DEF ItemsOf, ItemsOn, ItemsNext
<1> HIDE DEF g, n
<1>4. 0 \in P
  <2>1. g[0] = << >>
    BY <1>1, <1>2 DEF ItemsOn, ItemsNext
  <2>2. << >> \in Seq(Published)
    OBVIOUS
  <2>3. g[0] \in Seq(Published)
    BY <2>1, <2>2, Zenon
  <2> QED BY <2>3
<1>5. ASSUME NEW k \in Nat, k \in P PROVE k + 1 \in P
  <2> SUFFICES ASSUME k + 1 <= n PROVE g[k+1] \in Seq(Published)
    OBVIOUS
  <2>1. k + 1 \in 1..n /\ k + 1 \in 0..n /\ (k + 1) - 1 = k /\ k + 1 # 0 /\ k <= n
    BY <1>1
  <2>2. g[k+1] = ItemsNext(g, peer, k + 1)
    BY <1>2, <2>1 DEF ItemsOn
  <2>3. g[k+1] = g[k] \/ g[k+1] = Append(g[k], published[k+1])
    BY <2>1, <2>2, Zenon DEF ItemsNext
  <2>4. g[k] \in Seq(Published) /\ published[k+1] \in Published
    BY <1>1, <1>5, <2>1
  <2>5. Append(g[k], published[k+1]) \in Seq(Published)
    BY <2>4
  <2> QED BY <2>3, <2>4, <2>5, Zenon
<1> HIDE DEF P
<1>6. Nat \subseteq P
  BY <1>4, <1>5, NatSetInduction
<1> QED BY <1>1, <1>3, <1>6 DEF P

\* A mirror serves under every URI an item that was published under it.
Faithful(m) == \A at \in DOMAIN m : m[at] \in Published /\ uri(m[at].id) = at

MInv == DOMAIN mirrors = Peers /\ \A p \in Peers : Faithful(mirrors[p])

LEMMA SyncFaithful ==
  ASSUME NEW m, Faithful(m), NEW x \in Published
  PROVE  Faithful(sync(m, x))
<1> DEFINE t == sync(m, x)
<1>1. DOMAIN t = DOMAIN m \cup {uri(x.id)}
  BY DEF sync
<1>2. \A at \in DOMAIN t : t[at] = IF at = uri(x.id) THEN x ELSE m[at]
  BY DEF sync
<1> HIDE DEF t
<1>3. ASSUME NEW at \in DOMAIN t PROVE t[at] \in Published /\ uri(t[at].id) = at
  <2>1. CASE at = uri(x.id)
    BY <1>2, <2>1, Zenon
  <2>2. CASE at # uri(x.id)
    <3>1. at \in DOMAIN m /\ t[at] = m[at]
      BY <1>1, <1>2, <2>2
    <3> QED BY <3>1, Zenon DEF Faithful
  <2> QED BY <2>1, <2>2
<1> QED BY <1>3, Zenon DEF Faithful, t

LEMMA FilledFaithful ==
  ASSUME NEW items \in Seq(Published)
  PROVE  Faithful(Filled(items))
<1> DEFINE n == Len(items)
           g == CHOOSE f : FilledOn(f, items, n)
           P == {k \in Nat : k <= n => Faithful(g[k])}
<1>1. n \in Nat /\ \A k \in 1..n : items[k] \in Published
  OBVIOUS
<1>2. FilledOn(g, items, n)
  <2>1. \E f : FilledOn(f, items, n)
    BY <1>1, FilledExist
  <2> QED BY <2>1
<1>3. Filled(items) = g[n]
  BY Zenon DEF Filled, FilledOn, FilledNext
<1> HIDE DEF g, n
<1>4. 0 \in P
  <2>1. g[0] = Emptied
    BY <1>1, <1>2 DEF FilledOn, FilledNext
  <2>2. Faithful(Emptied)
    BY DEF Faithful, Emptied
  <2> QED BY <2>1, <2>2
<1>5. ASSUME NEW k \in Nat, k \in P PROVE k + 1 \in P
  <2> SUFFICES ASSUME k + 1 <= n PROVE Faithful(g[k+1])
    OBVIOUS
  <2>1. k + 1 \in 1..n /\ k + 1 \in 0..n /\ (k + 1) - 1 = k /\ k + 1 # 0 /\ k <= n
    BY <1>1
  <2>2. g[k+1] = FilledNext(g, items, k + 1)
    BY <1>2, <2>1 DEF FilledOn
  <2>3. g[k+1] = sync(g[k], items[k+1])
    BY <2>1, <2>2, Zenon DEF FilledNext
  <2>4. Faithful(g[k]) /\ items[k+1] \in Published
    BY <1>1, <1>5, <2>1
  <2> QED BY <2>3, <2>4, SyncFaithful, Zenon
<1> HIDE DEF P
<1>6. Nat \subseteq P
  BY <1>4, <1>5, NatSetInduction
<1> QED BY <1>1, <1>3, <1>6 DEF P

LEMMA PublishedGrows ==
  ASSUME PInv, [RNext]_rvars
  PROVE  /\ Published \subseteq Published'
         /\ \A i \in DOMAIN published : i \in DOMAIN published' /\ published'[i] = published[i]
<1>1. CASE UNCHANGED published
  BY <1>1 DEF Published
<1>2. ASSUME NEW pair \in Pairs, NEW kind \in KindsOf[pair], Publish(pair, kind)
      PROVE  /\ Published \subseteq Published'
             /\ \A i \in DOMAIN published : /\ i \in DOMAIN published'
                                            /\ published'[i] = published[i]
  <2>1. Cardinality(PinnedVersions(pair)) \in Nat
    BY PinnedCount
  <2>2. \A i \in DOMAIN published : i \in DOMAIN published' /\ published'[i] = published[i]
    BY <1>2, <2>1, PublishAdds, Zenon DEF PInv
  <2> QED BY <2>2 DEF Published
<1> QED BY <1>1, <1>2, Zenon DEF RNext, rvars, Onboard, Sync, Federate, Start, Extend

LEMMA MInvInit == RInit => MInv
BY DEF RInit, MInv, Faithful, Emptied

LEMMA MInvNext == PInv /\ MInv /\ [RNext]_rvars => MInv'
<1> SUFFICES ASSUME PInv, MInv, [RNext]_rvars PROVE MInv'
  OBVIOUS
<1>1. Published \subseteq Published'
  BY PublishedGrows
<1>2. CASE UNCHANGED mirrors
  <2>1. \A m : Faithful(m) => Faithful(m)'
    BY <1>1 DEF Faithful
  <2> QED BY <1>1, <1>2 DEF MInv, Faithful
<1>3. ASSUME NEW peer \in Peers, NEW i \in DOMAIN published, Sync(peer, i) PROVE MInv'
  <2>1. Published' = Published /\ mirrors' = [mirrors EXCEPT ![peer] = sync(@, published[i])]
    BY <1>3 DEF Sync, Published
  <2>2. Faithful(mirrors[peer]) /\ published[i] \in Published
    BY DEF MInv, Published
  <2>3. Faithful(sync(mirrors[peer], published[i]))
    BY <2>2, SyncFaithful
  <2>4. /\ DOMAIN mirrors' = Peers /\ mirrors'[peer] = sync(mirrors[peer], published[i])
        /\ \A p \in Peers : p # peer => mirrors'[p] = mirrors[p]
    BY <2>1 DEF MInv
  <2>5. ASSUME NEW p \in Peers PROVE Faithful(mirrors'[p])
    BY <2>3, <2>4, Zenon DEF MInv
  <2> QED BY <2>1, <2>4, <2>5 DEF MInv, Faithful
<1>4. ASSUME NEW a \in Peers, NEW b \in Peers, Federate(a, b) PROVE MInv'
  <2>1. /\ Published' = Published
        /\ mirrors' = [mirrors EXCEPT ![a] = Filled(ItemsOf(b)), ![b] = Filled(ItemsOf(a))]
    BY <1>4 DEF Federate, Published, federate_peers
  <2>2. Faithful(Filled(ItemsOf(a))) /\ Faithful(Filled(ItemsOf(b)))
    BY ItemsOfIs, FilledFaithful
  <2>3. DOMAIN mirrors' = Peers
    BY <2>1 DEF MInv
  <2>4. ASSUME NEW p \in Peers PROVE Faithful(mirrors'[p])
    <3>1. mirrors'[p] \in {mirrors[p], Filled(ItemsOf(a)), Filled(ItemsOf(b))}
      BY <2>1 DEF MInv
    <3> QED BY <2>2, <3>1 DEF MInv
  <2> QED BY <2>1, <2>3, <2>4 DEF MInv, Faithful
<1> QED BY <1>2, <1>3, <1>4, Zenon DEF RNext, rvars, Onboard, Publish, Start, Extend

LEMMA MInvAlways == RSpec => []MInv
<1>1. RInit => MInv
  BY MInvInit
<1>2. PInv /\ MInv /\ [RNext]_rvars => MInv'
  BY MInvNext
<1> QED BY <1>1, <1>2, PInvAlways, PTL DEF RSpec

\* Two items under the URI of a version are the same item.
LEMMA VersionIsOne ==
  ASSUME PInv, NEW x \in Published, NEW y \in Published, x.id.version # None,
         uri(x.id) = uri(y.id)
  PROVE  x = y
<1>1. Mapped(x) /\ Mapped(y)
  BY Zenon DEF PInv, Numbered
<1>2. /\ y.id.version # None /\ x.id.register = y.id.register /\ x.id.item = y.id.item
      /\ x.id.version = y.id.version
  BY DEF uri
<1>3. x.canonical.version = x.id.version /\ y.canonical.version = y.id.version
  BY <1>1, <1>2 DEF Mapped
<1>4. x.canonical = y.canonical
  BY <1>2, <1>3, Zenon DEF PInv, Numbered
<1>5. /\ x = ExchangeItem(x.id.item, x.id.version, x.canonical)
      /\ y = ExchangeItem(y.id.item, y.id.version, y.canonical)
  BY <1>1, Zenon DEF Mapped
<1> QED BY <1>2, <1>4, <1>5, Zenon

\* Whatever arrived in whatever order, again or after later items: a mirror serves
\* under the URI of a version what its origin published as that version.
THEOREM MirrorsAlwaysServe == RSpec => []MirrorsServePublished
<1>1. PInv /\ MInv => MirrorsServePublished
  <2> SUFFICES ASSUME PInv, MInv, NEW p \in Peers, NEW i \in DOMAIN published,
                      published[i].id.version # None,
                      uri(published[i].id) \in DOMAIN mirrors[p]
               PROVE  Serves(p, published[i])
    BY Zenon DEF MirrorsServePublished
  <2> DEFINE at == uri(published[i].id)
             y == mirrors[p][at]
  <2>1. published[i] \in Published
    BY DEF Published
  <2>2. y \in Published /\ uri(y.id) = at
    BY Zenon DEF MInv, Faithful
  <2>3. published[i] = y
    BY <2>1, <2>2, VersionIsOne, Zenon
  <2> QED BY <2>3, Zenon DEF Serves
<1> QED BY <1>1, PInvAlways, MInvAlways, PTL

\* Nothing a peer published is filtered out of its items.
LEMMA OccursInItems ==
  ASSUME PInv, NEW i \in DOMAIN published
  PROVE  \E pos \in DOMAIN ItemsOf(published[i].id.register) :
           ItemsOf(published[i].id.register)[pos] = published[i]
<1> PICK peer : peer = published[i].id.register
  OBVIOUS
<1> DEFINE n == Len(published)
           g == CHOOSE f : ItemsOn(f, peer, n)
           Holds(s) == s \in Seq(Published) /\ \E pos \in 1..Len(s) : s[pos] = published[i]
           P == {k \in Nat : k <= n => /\ g[k] \in Seq(Published)
                                       /\ i <= k => Holds(g[k])}
<1>1. n \in Nat /\ i \in 1..n /\ \A k \in 1..n : published[k] \in Published
  BY DEF PInv, Published
<1>2. ItemsOn(g, peer, n)
  <2>1. \E f : ItemsOn(f, peer, n)
    BY <1>1, ItemsExist
  <2> QED BY <2>1
<1>3. ItemsOf(peer) = g[n]
  BY Zenon DEF ItemsOf, ItemsOn, ItemsNext
<1> HIDE DEF g, n
<1>4. 0 \in P
  <2>1. g[0] = << >>
    BY <1>1, <1>2 DEF ItemsOn, ItemsNext
  <2>2. << >> \in Seq(Published) /\ ~(i <= 0)
    BY <1>1
  <2>3. g[0] \in Seq(Published)
    BY <2>1, <2>2, Zenon
  <2> QED BY <2>2, <2>3
<1>5. ASSUME NEW k \in Nat, k \in P PROVE k + 1 \in P
  <2> SUFFICES ASSUME k + 1 <= n
               PROVE  g[k+1] \in Seq(Published) /\ (i <= k + 1 => Holds(g[k+1]))
    OBVIOUS
  <2>1. k + 1 \in 1..n /\ k + 1 \in 0..n /\ (k + 1) - 1 = k /\ k + 1 # 0 /\ k <= n
    BY <1>1
  <2>2. g[k+1] = ItemsNext(g, peer, k + 1)
    BY <1>2, <2>1 DEF ItemsOn
  <2>3. /\ published[k+1].id.register = peer => g[k+1] = Append(g[k], published[k+1])
        /\ published[k+1].id.register # peer => g[k+1] = g[k]
    BY <2>1, <2>2, Zenon DEF ItemsNext
  <2>4. /\ g[k] \in Seq(Published) /\ published[k+1] \in Published
        /\ i <= k => Holds(g[k])
    BY <1>1, <1>5, <2>1
  <2>5. ASSUME NEW s \in Seq(Published), NEW x \in Published
        PROVE  /\ Append(s, x) \in Seq(Published)
               /\ Holds(s) => Holds(Append(s, x))
               /\ x = published[i] => Holds(Append(s, x))
    <3>1. /\ Append(s, x) \in Seq(Published) /\ Len(Append(s, x)) = Len(s) + 1
          /\ Append(s, x)[Len(s) + 1] = x /\ Len(s) + 1 \in 1..Len(s)+1
          /\ \A pos \in 1..Len(s) : pos \in 1..Len(s)+1 /\ Append(s, x)[pos] = s[pos]
      OBVIOUS
    <3> QED BY <3>1
  <2> HIDE DEF Holds
  <2>6. i = k + 1 => published[k+1].id.register = peer /\ published[k+1] = published[i]
    OBVIOUS
  <2>7. i <= k + 1 => i <= k \/ i = k + 1
    BY <1>1
  <2>8. CASE published[k+1].id.register = peer
    BY <2>3, <2>4, <2>5, <2>7, <2>8
  <2>9. CASE published[k+1].id.register # peer
    BY <2>3, <2>4, <2>6, <2>7, <2>9
  <2> QED BY <2>8, <2>9
<1> HIDE DEF P
<1>6. Nat \subseteq P
  BY <1>4, <1>5, NatSetInduction
<1>7. g[n] \in Seq(Published) /\ \E pos \in 1..Len(g[n]) : g[n][pos] = published[i]
  BY <1>1, <1>6 DEF P
<1>8. PICK s : s = g[n]
  OBVIOUS
<1>9. s \in Seq(Published) /\ \E pos \in 1..Len(s) : s[pos] = published[i]
  BY <1>7, <1>8
<1>10. \E pos \in DOMAIN s : s[pos] = published[i]
  BY <1>9
<1> QED BY <1>3, <1>8, <1>10

\* A mirror that is filled lists the URI of every item it was filled with.
LEMMA FilledLists ==
  ASSUME NEW items \in Seq(Published), NEW pos \in DOMAIN items
  PROVE  uri(items[pos].id) \in DOMAIN Filled(items)
<1> DEFINE n == Len(items)
           g == CHOOSE f : FilledOn(f, items, n)
           at == uri(items[pos].id)
           P == {k \in Nat : pos <= k /\ k <= n => at \in DOMAIN g[k]}
<1>1. n \in Nat /\ pos \in 1..n
  OBVIOUS
<1>2. FilledOn(g, items, n)
  <2>1. \E f : FilledOn(f, items, n)
    BY <1>1, FilledExist
  <2> QED BY <2>1
<1>3. Filled(items) = g[n]
  BY Zenon DEF Filled, FilledOn, FilledNext
<1> HIDE DEF g, n, at
<1>4. 0 \in P
  BY <1>1
<1>5. ASSUME NEW k \in Nat, k \in P PROVE k + 1 \in P
  <2> SUFFICES ASSUME pos <= k + 1, k + 1 <= n PROVE at \in DOMAIN g[k+1]
    OBVIOUS
  <2>1. k + 1 \in 1..n /\ k + 1 \in 0..n /\ (k + 1) - 1 = k /\ k + 1 # 0 /\ k <= n
    BY <1>1
  <2>2. g[k+1] = FilledNext(g, items, k + 1)
    BY <1>2, <2>1 DEF FilledOn
  <2>3. g[k+1] = sync(g[k], items[k+1])
    BY <2>1, <2>2, Zenon DEF FilledNext
  <2>4. DOMAIN g[k+1] = DOMAIN g[k] \cup {uri(items[k+1].id)}
    BY <2>3 DEF sync
  <2>5. CASE pos = k + 1
    BY <2>4, <2>5 DEF at
  <2>6. CASE pos # k + 1
    <3>1. pos <= k
      BY <1>1, <2>6
    <3> QED BY <1>5, <2>1, <2>4, <3>1
  <2> QED BY <2>5, <2>6
<1> HIDE DEF P
<1>6. Nat \subseteq P
  BY <1>4, <1>5, NatSetInduction
<1> QED BY <1>1, <1>3, <1>6 DEF P, at

\* What lists the URI of a version that was published serves it.
LEMMA ListedIsServed ==
  ASSUME PInv, NEW m, Faithful(m), NEW x \in Published, x.id.version # None,
         uri(x.id) \in DOMAIN m
  PROVE  m[uri(x.id)] = x
<1>1. m[uri(x.id)] \in Published /\ uri(m[uri(x.id)].id) = uri(x.id)
  BY Zenon DEF Faithful
<1> QED BY <1>1, VersionIsOne, Zenon

\* A mirror that is filled with the items of a peer serves every version of it.
LEMMA FilledServes ==
  ASSUME PInv, NEW i \in DOMAIN published, published[i].id.version # None
  PROVE  LET m == Filled(ItemsOf(published[i].id.register))
         IN  uri(published[i].id) \in DOMAIN m /\ m[uri(published[i].id)] = published[i]
<1> PICK items : items = ItemsOf(published[i].id.register)
  OBVIOUS
<1>1. items \in Seq(Published)
  BY ItemsOfIs
<1>2. PICK pos \in DOMAIN items : items[pos] = published[i]
  BY OccursInItems
<1>3. uri(published[i].id) \in DOMAIN Filled(items)
  BY <1>1, <1>2, FilledLists
<1>4. published[i] \in Published /\ Faithful(Filled(items))
  BY <1>1, FilledFaithful DEF Published
<1> QED BY <1>3, <1>4, ListedIsServed, Zenon

\* A version that is served stays served whatever arrives, until its peer takes a mirror
\* filled by somebody else, and two peers that exchange their items serve every version of
\* one another (federation.rs:46, onboarding.rs:238).
THEOREM VersionsAlwaysStayServed == RSpec => VersionsStayServed
<1>1. ASSUME PInv, MInv, [RNext]_rvars
      PROVE  /\ \A p \in Peers, i \in DOMAIN published :
                  published[i].id.version # None /\ Serves(p, published[i])
                    => Serves(p, published[i])' \/ Exchanged(p, i)
             /\ \A a, b \in Peers : Federate(a, b) =>
                  \A i \in DOMAIN published :
                    published[i].id.version # None /\ published[i].id.register = b
                      => Serves(a, published[i])'
  <2>1. \A i \in DOMAIN published : published'[i] = published[i] /\ published[i] \in Published
    BY <1>1, PublishedGrows DEF Published
  <2>2. \A i \in DOMAIN published, p \in Peers :
          Serves(p, published[i])' <=> /\ uri(published[i].id) \in DOMAIN mirrors'[p]
                                       /\ mirrors'[p][uri(published[i].id)] = published[i]
    BY <2>1, Zenon DEF Serves
  <2>3. ASSUME NEW a \in Peers, NEW b \in Peers, Federate(a, b)
        PROVE  /\ mirrors'[a] = Filled(ItemsOf(b)) /\ mirrors'[b] = Filled(ItemsOf(a)) /\ a # b
               /\ \A p \in Peers \ {a, b} : mirrors'[p] = mirrors[p]
    <3>1. a # b /\ mirrors' = [mirrors EXCEPT ![a] = Filled(ItemsOf(b)),
                                              ![b] = Filled(ItemsOf(a))]
      BY <2>3 DEF Federate, federate_peers
    <3>2. DOMAIN mirrors = Peers
      BY <1>1 DEF MInv
    <3> QED BY <3>1, <3>2
  <2>4. ASSUME NEW a \in Peers, NEW b \in Peers, Federate(a, b), NEW i \in DOMAIN published,
               published[i].id.version # None, published[i].id.register = b
        PROVE  Serves(a, published[i])'
    <3>1. mirrors'[a] = Filled(ItemsOf(b))
      BY <2>3, <2>4
    <3> QED BY <1>1, <2>2, <2>4, <3>1, FilledServes, Zenon
  <2>5. ASSUME NEW p \in Peers, NEW i \in DOMAIN published,
               published[i].id.version # None, Serves(p, published[i])
        PROVE  Serves(p, published[i])' \/ Exchanged(p, i)
    <3> PICK x : x = published[i]
      OBVIOUS
    <3>1. x \in Published /\ x.id.version # None
          /\ uri(x.id) \in DOMAIN mirrors[p] /\ mirrors[p][uri(x.id)] = x
      BY <2>1, <2>5, Zenon DEF Serves
    <3>2. CASE mirrors'[p] = mirrors[p]
      BY <2>2, <3>1, <3>2, Zenon
    <3>3. ASSUME NEW peer \in Peers, NEW j \in DOMAIN published, Sync(peer, j)
          PROVE  Serves(p, published[i])'
      <4>1. mirrors' = [mirrors EXCEPT ![peer] = sync(mirrors[peer], published[j])]
            /\ DOMAIN mirrors = Peers
        <5>1. mirrors' = [mirrors EXCEPT ![peer] = sync(mirrors[peer], published[j])]
          BY <3>3, Zenon DEF Sync
        <5>2. DOMAIN mirrors = Peers
          BY <1>1 DEF MInv
        <5> QED BY <5>1, <5>2
      <4> PICK m : m = sync(mirrors[peer], published[j])
        OBVIOUS
      <4>4. mirrors' = [mirrors EXCEPT ![peer] = m] /\ DOMAIN mirrors = Peers
        BY <4>1
      <4>2. CASE p # peer
        <5>1. mirrors'[p] = mirrors[p]
          BY <4>2, <4>4
        <5> QED BY <2>2, <3>1, <5>1, Zenon
      <4>3. CASE p = peer
        <5>1. mirrors'[p] = sync(mirrors[p], published[j])
          BY <4>3, <4>4
        <5>2. Faithful(mirrors[p]) /\ published[j] \in Published
          BY <1>1, <2>1, <3>3, Zenon DEF MInv
        <5>3. Faithful(mirrors'[p])
          BY <5>1, <5>2, SyncFaithful
        <5>4. uri(x.id) \in DOMAIN mirrors'[p]
          BY <3>1, <5>1 DEF sync
        <5>5. mirrors'[p][uri(x.id)] = x
          BY <1>1, <3>1, <5>3, <5>4, ListedIsServed
        <5> QED BY <2>2, <5>4, <5>5, Zenon
      <4> QED BY <4>2, <4>3
    <3>4. ASSUME NEW a \in Peers, NEW b \in Peers, Federate(a, b)
          PROVE  Serves(p, published[i])' \/ Exchanged(p, i)
      <4>1. CASE p \notin {a, b}
        BY <2>3, <3>2, <3>4, <4>1
      <4>2. ASSUME NEW q \in Peers, q # p, mirrors'[p] = Filled(ItemsOf(q))
            PROVE  Serves(p, published[i])' \/ Exchanged(p, i)
        <5>1. CASE published[i].id.register = q
          BY <1>1, <2>2, <2>5, <4>2, <5>1, FilledServes, Zenon
        <5>2. CASE published[i].id.register # q
          BY <4>2, <5>2 DEF Exchanged
        <5> QED BY <5>1, <5>2
      <4>3. CASE p = a
        BY <2>3, <3>4, <4>2, <4>3
      <4>4. CASE p = b
        BY <2>3, <3>4, <4>2, <4>4
      <4> QED BY <4>1, <4>3, <4>4
    <3>5. CASE UNCHANGED mirrors
      BY <3>2, <3>5
    <3> QED BY <1>1, <3>3, <3>4, <3>5, Zenon DEF RNext, rvars, Onboard, Publish, Start, Extend
  <2>6. \A p \in Peers, i \in DOMAIN published :
          published[i].id.version # None /\ Serves(p, published[i])
            => Serves(p, published[i])' \/ Exchanged(p, i)
    BY <2>5
  <2>7. \A a, b \in Peers : Federate(a, b) =>
          \A i \in DOMAIN published :
            published[i].id.version # None /\ published[i].id.register = b
              => Serves(a, published[i])'
    BY <2>4
  <2> QED BY <2>6, <2>7
<1> QED BY <1>1, PInvAlways, MInvAlways, PTL DEF RSpec, VersionsStayServed

-----------------------------------------------------------------------------
(* The chains.                                                             *)

\* What the hops of a sequence compose to, the residuals put together, and what
\* becomes of a value, up to the k-th hop.
ChainNext(g, hops, k) == IF k = 1 THEN single(hops[1]) ELSE then(g[k-1], hops[k], Cap)
ChainOn(g, hops, n) == g = [k \in 1..n |-> ChainNext(g, hops, k)]
Composed(hops) == (CHOOSE g : ChainOn(g, hops, Len(hops)))[Len(hops)]

FlatNext(g, seqs, k) == IF k = 1 THEN seqs[k] ELSE g[k-1] \o seqs[k]
FlatOn(g, seqs, n) == g = [k \in 1..n |-> FlatNext(g, seqs, k)]

AppliedNext(g, hops, v, k) == IF k = 0 THEN [value |-> v] ELSE Step(g[k-1], hops[k])
AppliedOn(g, hops, v, n) == g = [k \in 0..n |-> AppliedNext(g, hops, v, k)]

LEMMA ChainExists ==
  ASSUME NEW s
  PROVE  \A n \in Nat : \E g : ChainOn(g, s, n)
<1> DEFINE P == {n \in Nat : \E g : ChainOn(g, s, n)}
<1>1. 0 \in P
  <2>1. 1..0 = {}
    OBVIOUS
  <2>2. ChainOn([k \in {} |-> ChainNext(<< >>, s, k)], s, 0)
    BY <2>1 DEF ChainOn
  <2> QED BY <2>2
<1>2. ASSUME NEW n \in Nat, n \in P PROVE n + 1 \in P
  <2>1. PICK g : ChainOn(g, s, n)
    BY <1>2
  <2> DEFINE h == [k \in 1..n + 1 |-> ChainNext(g, s, k)]
  <2>2. \A k \in 1..n : h[k] = g[k]
    BY <2>1 DEF ChainOn
  <2>3. ASSUME NEW k \in 1..n + 1 PROVE ChainNext(h, s, k) = ChainNext(g, s, k)
    <3> HIDE DEF h
    <3>1. k # 1 => h[k-1] = g[k-1]
      BY <2>2
    <3> QED BY <3>1, Zenon DEF ChainNext
  <2>4. ChainOn(h, s, n + 1)
    <3>1. \A k \in 1..n + 1 : h[k] = ChainNext(g, s, k)
      OBVIOUS
    <3>2. h = [k \in 1..n + 1 |-> h[k]]
      OBVIOUS
    <3> HIDE DEF h
    <3> QED BY <2>3, <3>1, <3>2 DEF ChainOn
  <2> HIDE DEF h
  <2> QED BY <2>4
<1> HIDE DEF P
<1>3. Nat \subseteq P
  BY <1>1, <1>2, NatSetInduction
<1> QED BY <1>3 DEF P

LEMMA FlatExists ==
  ASSUME NEW s
  PROVE  \A n \in Nat : \E g : FlatOn(g, s, n)
<1> DEFINE P == {n \in Nat : \E g : FlatOn(g, s, n)}
<1>1. 0 \in P
  <2>1. 1..0 = {}
    OBVIOUS
  <2>2. FlatOn([k \in {} |-> FlatNext(<< >>, s, k)], s, 0)
    BY <2>1 DEF FlatOn
  <2> QED BY <2>2
<1>2. ASSUME NEW n \in Nat, n \in P PROVE n + 1 \in P
  <2>1. PICK g : FlatOn(g, s, n)
    BY <1>2
  <2> DEFINE h == [k \in 1..n + 1 |-> FlatNext(g, s, k)]
  <2>2. \A k \in 1..n : h[k] = g[k]
    BY <2>1 DEF FlatOn
  <2>3. ASSUME NEW k \in 1..n + 1 PROVE FlatNext(h, s, k) = FlatNext(g, s, k)
    <3> HIDE DEF h
    <3>1. k # 1 => h[k-1] = g[k-1]
      BY <2>2
    <3> QED BY <3>1, Zenon DEF FlatNext
  <2>4. FlatOn(h, s, n + 1)
    <3>1. \A k \in 1..n + 1 : h[k] = FlatNext(g, s, k)
      OBVIOUS
    <3>2. h = [k \in 1..n + 1 |-> h[k]]
      OBVIOUS
    <3> HIDE DEF h
    <3> QED BY <2>3, <3>1, <3>2 DEF FlatOn
  <2> HIDE DEF h
  <2> QED BY <2>4
<1> HIDE DEF P
<1>3. Nat \subseteq P
  BY <1>1, <1>2, NatSetInduction
<1> QED BY <1>3 DEF P

LEMMA AppliedExists ==
  ASSUME NEW s, NEW v
  PROVE  \A n \in Nat : \E g : AppliedOn(g, s, v, n)
<1> DEFINE P == {n \in Nat : \E g : AppliedOn(g, s, v, n)}
<1>1. 0 \in P
  <2>1. AppliedOn([k \in 0..0 |-> [value |-> v]], s, v, 0)
    BY DEF AppliedOn, AppliedNext
  <2> QED BY <2>1
<1>2. ASSUME NEW n \in Nat, n \in P PROVE n + 1 \in P
  <2>1. PICK g : AppliedOn(g, s, v, n)
    BY <1>2
  <2> DEFINE h == [k \in 0..n + 1 |-> AppliedNext(g, s, v, k)]
  <2>2. \A k \in 0..n : h[k] = g[k]
    BY <2>1 DEF AppliedOn
  <2>3. ASSUME NEW k \in 0..n + 1 PROVE AppliedNext(h, s, v, k) = AppliedNext(g, s, v, k)
    <3> HIDE DEF h
    <3>1. k # 0 => h[k-1] = g[k-1]
      BY <2>2
    <3> QED BY <3>1, Zenon DEF AppliedNext
  <2>4. AppliedOn(h, s, v, n + 1)
    <3>1. \A k \in 0..n + 1 : h[k] = AppliedNext(g, s, v, k)
      OBVIOUS
    <3>2. h = [k \in 0..n + 1 |-> h[k]]
      OBVIOUS
    <3> HIDE DEF h
    <3> QED BY <2>3, <3>1, <3>2 DEF AppliedOn
  <2> HIDE DEF h
  <2> QED BY <2>4
<1> HIDE DEF P
<1>3. Nat \subseteq P
  BY <1>1, <1>2, NatSetInduction
<1> QED BY <1>3 DEF P

\* What is made of the first elements is made of them alone.
LEMMA ChainsAgree ==
  ASSUME NEW s, NEW t, NEW n \in Nat, NEW m \in Nat, NEW g, NEW h,
         ChainOn(g, s, n), ChainOn(h, t, m), NEW most \in Nat, most <= n, most <= m,
         \A k \in 1..most : s[k] = t[k]
  PROVE  \A k \in 1..most : g[k] = h[k]
<1> DEFINE P == {k \in Nat : k <= most => (k # 0 => g[k] = h[k])}
<1>1. 0 \in P
  OBVIOUS
<1>2. ASSUME NEW k \in Nat, k \in P PROVE k + 1 \in P
  <2> SUFFICES ASSUME k + 1 <= most PROVE g[k+1] = h[k+1]
    OBVIOUS
  <2>1. k + 1 \in 1..most /\ (k + 1) - 1 = k /\ k <= most
    OBVIOUS
  <2>2. g[k+1] = ChainNext(g, s, k + 1) /\ h[k+1] = ChainNext(h, t, k + 1)
    <3>1. k + 1 \in 1..n /\ k + 1 \in 1..m
      BY <2>1
    <3> QED BY <3>1 DEF ChainOn
  <2>3. s[k+1] = t[k+1] /\ (k + 1 # 1 => g[k] = h[k])
    BY <1>2, <2>1
  <2>4. ChainNext(g, s, k + 1) = ChainNext(h, t, k + 1)
    BY <2>1, <2>3, Zenon DEF ChainNext
  <2> QED BY <2>2, <2>4
<1> HIDE DEF P
<1>3. Nat \subseteq P
  BY <1>1, <1>2, NatSetInduction
<1> QED BY <1>3 DEF P

LEMMA FlatsAgree ==
  ASSUME NEW s, NEW t, NEW n \in Nat, NEW m \in Nat, NEW g, NEW h,
         FlatOn(g, s, n), FlatOn(h, t, m), NEW most \in Nat, most <= n, most <= m,
         \A k \in 1..most : s[k] = t[k]
  PROVE  \A k \in 1..most : g[k] = h[k]
<1> DEFINE P == {k \in Nat : k <= most => (k # 0 => g[k] = h[k])}
<1>1. 0 \in P
  OBVIOUS
<1>2. ASSUME NEW k \in Nat, k \in P PROVE k + 1 \in P
  <2> SUFFICES ASSUME k + 1 <= most PROVE g[k+1] = h[k+1]
    OBVIOUS
  <2>1. k + 1 \in 1..most /\ (k + 1) - 1 = k /\ k <= most
    OBVIOUS
  <2>2. g[k+1] = FlatNext(g, s, k + 1) /\ h[k+1] = FlatNext(h, t, k + 1)
    <3>1. k + 1 \in 1..n /\ k + 1 \in 1..m
      BY <2>1
    <3> QED BY <3>1 DEF FlatOn
  <2>3. s[k+1] = t[k+1] /\ (k + 1 # 1 => g[k] = h[k])
    BY <1>2, <2>1
  <2>4. FlatNext(g, s, k + 1) = FlatNext(h, t, k + 1)
    BY <2>1, <2>3, Zenon DEF FlatNext
  <2> QED BY <2>2, <2>4
<1> HIDE DEF P
<1>3. Nat \subseteq P
  BY <1>1, <1>2, NatSetInduction
<1> QED BY <1>3 DEF P

LEMMA AppliedAgree ==
  ASSUME NEW s, NEW t, NEW v, NEW n \in Nat, NEW m \in Nat, NEW g, NEW h,
         AppliedOn(g, s, v, n), AppliedOn(h, t, v, m), m <= n,
         \A k \in 1..m : s[k] = t[k]
  PROVE  \A k \in 0..m : g[k] = h[k]
<1> DEFINE P == {k \in Nat : k <= m => (g[k] = h[k])}
<1>1. 0 \in P
  <2> SUFFICES g[0] = h[0]
    OBVIOUS
  <2>1. g[0] = AppliedNext(g, s, v, 0) /\ h[0] = AppliedNext(h, t, v, 0)
    <3>1. 0 \in 0..n /\ 0 \in 0..m
      OBVIOUS
    <3> QED BY <3>1 DEF AppliedOn
  <2> QED BY <2>1, Zenon DEF AppliedNext
<1>2. ASSUME NEW k \in Nat, k \in P PROVE k + 1 \in P
  <2> SUFFICES ASSUME k + 1 <= m PROVE g[k+1] = h[k+1]
    OBVIOUS
  <2>1. k + 1 \in 1..m /\ (k + 1) - 1 = k /\ k <= m
    OBVIOUS
  <2>2. g[k+1] = AppliedNext(g, s, v, k + 1) /\ h[k+1] = AppliedNext(h, t, v, k + 1)
    <3>1. k + 1 \in 0..n /\ k + 1 \in 0..m
      BY <2>1
    <3> QED BY <3>1 DEF AppliedOn
  <2>3. s[k+1] = t[k+1] /\ (g[k] = h[k])
    BY <1>2, <2>1
  <2>4. AppliedNext(g, s, v, k + 1) = AppliedNext(h, t, v, k + 1)
    BY <2>1, <2>3, Zenon DEF AppliedNext
  <2> QED BY <2>2, <2>4
<1> HIDE DEF P
<1>3. Nat \subseteq P
  BY <1>1, <1>2, NatSetInduction
<1> QED BY <1>3 DEF P

\* A chain of one hop, and a chain that is extended.
LEMMA ComposedOne ==
  ASSUME NEW x
  PROVE  Composed(<<x>>) = single(x)
<1> DEFINE g == CHOOSE f : ChainOn(f, <<x>>, 1)
<1>1. ChainOn(g, <<x>>, 1)
  <2>1. \E f : ChainOn(f, <<x>>, 1)
    BY ChainExists
  <2> QED BY <2>1
<1>2. Len(<<x>>) = 1 /\ <<x>>[1] = x
  OBVIOUS
<1>3. Composed(<<x>>) = g[1]
  BY <1>2, Zenon DEF Composed
<1> HIDE DEF g
<1>4. g[1] = ChainNext(g, <<x>>, 1)
  BY <1>1 DEF ChainOn
<1> QED BY <1>2, <1>3, <1>4, Zenon DEF ChainNext

LEMMA ComposedMore ==
  ASSUME NEW S, NEW hops \in Seq(S), Len(hops) # 0, NEW x \in S
  PROVE  Composed(Append(hops, x)) = then(Composed(hops), x, Cap)
<1> DEFINE n == Len(hops)
           more == Append(hops, x)
           g == CHOOSE f : ChainOn(f, hops, n)
           h == CHOOSE f : ChainOn(f, more, n + 1)
<1>0. /\ n \in Nat /\ n + 1 \in Nat /\ n \in 1..n /\ n + 1 \in 1..n+1 /\ n <= n /\ n <= n + 1
      /\ n + 1 # 1 /\ (n + 1) - 1 = n
  OBVIOUS
<1>1. /\ n # 0 /\ Len(more) = n + 1 /\ more[n + 1] = x
      /\ \A k \in 1..n : hops[k] = more[k]
  OBVIOUS
<1> HIDE DEF n, more
<1>2. ChainOn(g, hops, n) /\ ChainOn(h, more, n + 1)
  <2>1. (\E f : ChainOn(f, hops, n)) /\ (\E f : ChainOn(f, more, n + 1))
    BY <1>0, ChainExists
  <2> QED BY <2>1
<1>3. Composed(hops) = g[n] /\ Composed(more) = h[n + 1]
  BY <1>1, Zenon DEF Composed, n
<1> HIDE DEF g, h
<1>4. g[n] = h[n]
  <2>1. \A k \in 1..n : g[k] = h[k]
    BY <1>0, <1>1, <1>2, ChainsAgree
  <2> QED BY <1>0, <2>1
<1>5. h[n + 1] = ChainNext(h, more, n + 1)
  BY <1>0, <1>2 DEF ChainOn
<1>7. h[n + 1] = then(h[n], x, Cap)
  BY <1>0, <1>1, <1>5, Zenon DEF ChainNext
<1> QED BY <1>3, <1>4, <1>7, Zenon DEF more

LEMMA FlattenOne ==
  ASSUME NEW x
  PROVE  FlattenSeq(<<x>>) = x
<1> DEFINE g == CHOOSE f : FlatOn(f, <<x>>, Len(<<x>>))
<1>1. Len(<<x>>) = 1 /\ <<x>>[1] = x
  OBVIOUS
<1>2. FlatOn(g, <<x>>, 1)
  <2>1. \E f : FlatOn(f, <<x>>, 1)
    BY FlatExists
  <2> QED BY <1>1, <2>1, Zenon
<1>3. FlattenSeq(<<x>>) = g[Len(<<x>>)]
  <2>1. Len(<<x>>) # 0
    BY <1>1
  <2> QED BY <2>1, Zenon DEF FlattenSeq, FlatOn, FlatNext
<1> HIDE DEF g
<1>4. g[1] = FlatNext(g, <<x>>, 1)
  BY <1>2 DEF FlatOn
<1> QED BY <1>1, <1>3, <1>4, Zenon DEF FlatNext

LEMMA FlattenMore ==
  ASSUME NEW S, NEW seqs \in Seq(S), Len(seqs) # 0, NEW x \in S
  PROVE  FlattenSeq(Append(seqs, x)) = FlattenSeq(seqs) \o x
<1> DEFINE n == Len(seqs)
           more == Append(seqs, x)
           g == CHOOSE f : FlatOn(f, seqs, n)
           h == CHOOSE f : FlatOn(f, more, n + 1)
<1>0. /\ n \in Nat /\ n + 1 \in Nat /\ n \in 1..n /\ n + 1 \in 1..n+1 /\ n <= n /\ n <= n + 1
      /\ n + 1 # 1 /\ (n + 1) - 1 = n
  OBVIOUS
<1>1. /\ n # 0 /\ Len(more) = n + 1 /\ more[n + 1] = x
      /\ \A k \in 1..n : seqs[k] = more[k]
  OBVIOUS
<1> HIDE DEF more
<1>2. FlatOn(g, seqs, n) /\ FlatOn(h, more, n + 1)
  <2>1. (\E f : FlatOn(f, seqs, n)) /\ (\E f : FlatOn(f, more, n + 1))
    BY <1>0, FlatExists
  <2> QED BY <2>1
<1>3. FlattenSeq(seqs) = g[n]
  BY <1>1, Zenon DEF FlattenSeq, FlatOn, FlatNext
<1>4. FlattenSeq(more) = h[n + 1]
  <2> DEFINE t == CHOOSE f : FlatOn(f, more, Len(more))
  <2>1. Len(more) # 0
    BY <1>1
  <2>2. FlattenSeq(more) = t[Len(more)]
    BY <2>1, Zenon DEF FlattenSeq, FlatOn, FlatNext
  <2> QED BY <1>1, <2>2, Zenon
<1> HIDE DEF g, h, n
<1>5. g[n] = h[n]
  <2>1. \A k \in 1..n : g[k] = h[k]
    BY <1>0, <1>1, <1>2, FlatsAgree
  <2> QED BY <1>0, <2>1
<1>6. h[n + 1] = FlatNext(h, more, n + 1)
  BY <1>0, <1>2 DEF FlatOn
<1>8. h[n + 1] = h[n] \o x
  BY <1>0, <1>1, <1>6, Zenon DEF FlatNext
<1> QED BY <1>3, <1>4, <1>5, <1>8, Zenon DEF more

\* A chain is what its hops compose to, and its hops were published.
Canonicals == {x.canonical : x \in Published}
Residuals(hops) == [i \in DOMAIN hops |-> ResidualOf(hops[i].kind)]
ChainIs(c) ==
  /\ "hops" \in DOMAIN c /\ c.hops \in Seq(Canonicals) /\ Len(c.hops) \in 1..Cap
  /\ c = Composed(c.hops) /\ c.residual = FlattenSeq(Residuals(c.hops))
CInv == chain # None => ChainIs(chain)

\* An extension that is not refused.
LEMMA ThenIs ==
  ASSUME NEW c, NEW m, ~IsErr(then(c, m, Cap))
  PROVE  LET t == then(c, m, Cap)
         IN  /\ ~(Len(c.hops) + 1 > Cap) /\ "hops" \in DOMAIN t
             /\ t.hops = Append(c.hops, m) /\ t.residual = c.residual \o ResidualOf(m.kind)
<1> DEFINE t == then(c, m, Cap)
           r == [source |-> c.source, target |-> m.target, hops |-> Append(c.hops, m),
                 residual |-> c.residual \o ResidualOf(m.kind),
                 scope |-> ScopeAfter(c.scope, m.kind)]
<1>1. \A x : IsErr(Err(x))
  BY DEF IsErr, Err
<1>2. t = r /\ ~(Len(c.hops) + 1 > Cap)
  BY <1>1, Zenon DEF then
<1>3. "hops" \in DOMAIN r /\ r.hops = Append(c.hops, m) /\ r.residual = c.residual \o ResidualOf(m.kind)
  OBVIOUS
<1> HIDE DEF t, r
<1> QED BY <1>2, <1>3, Zenon DEF t

LEMMA ChainOne ==
  ASSUME NEW m \in Canonicals
  PROVE  ChainIs(single(m))
<1> DEFINE c == single(m)
<1>1. "hops" \in DOMAIN c /\ c.hops = <<m>> /\ c.residual = ResidualOf(m.kind)
  BY DEF single
<1>2. c = Composed(<<m>>)
  BY ComposedOne
<1> HIDE DEF c
<1>3. c.hops \in Seq(Canonicals) /\ Len(c.hops) \in 1..Cap
  BY <1>1, RegistryConstantsOK
<1>4. Residuals(<<m>>) = <<ResidualOf(m.kind)>>
  BY DEF Residuals
<1>5. c.residual = FlattenSeq(Residuals(c.hops))
  BY <1>1, <1>4, FlattenOne, Zenon
<1> QED BY <1>1, <1>2, <1>3, <1>5, Zenon DEF ChainIs, c

LEMMA ChainMore ==
  ASSUME NEW c, ChainIs(c), NEW m \in Canonicals, ~IsErr(then(c, m, Cap))
  PROVE  ChainIs(then(c, m, Cap))
<1> DEFINE t == then(c, m, Cap)
           S == {ResidualOf(x.kind) : x \in Canonicals}
<1>1. c.hops \in Seq(Canonicals) /\ Len(c.hops) \in 1..Cap /\ Cap \in Nat
  BY RegistryConstantsOK DEF ChainIs
<1>2. /\ ~(Len(c.hops) + 1 > Cap) /\ "hops" \in DOMAIN t
      /\ t.hops = Append(c.hops, m) /\ t.residual = c.residual \o ResidualOf(m.kind)
  BY ThenIs, Zenon
<1>3. t = Composed(Append(c.hops, m))
  <2>1. Len(c.hops) # 0
    BY <1>1
  <2>2. c = Composed(c.hops)
    BY Zenon DEF ChainIs
  <2> QED BY <1>1, <2>1, <2>2, ComposedMore, Zenon
<1> HIDE DEF t
<1>4. t.hops \in Seq(Canonicals) /\ Len(t.hops) \in 1..Cap
  BY <1>1, <1>2
<1>5. /\ Residuals(c.hops) \in Seq(S) /\ Len(Residuals(c.hops)) = Len(c.hops)
      /\ ResidualOf(m.kind) \in S
  <2>1. \A i \in 1..Len(c.hops) : c.hops[i] \in Canonicals
    BY <1>1
  <2>2. DOMAIN c.hops = 1..Len(c.hops) /\ Len(c.hops) \in Nat
    BY <1>1
  <2>3. \A i \in 1..Len(c.hops) : ResidualOf(c.hops[i].kind) \in S
    BY <2>1
  <2> HIDE DEF S
  <2>4. Residuals(c.hops) = [i \in 1..Len(c.hops) |-> ResidualOf(c.hops[i].kind)]
    BY <2>2, Zenon DEF Residuals
  <2> QED BY <2>2, <2>3, <2>4 DEF S
<1>6. Residuals(t.hops) = Append(Residuals(c.hops), ResidualOf(m.kind))
  <2> DEFINE n == Len(c.hops)
             left == Residuals(t.hops)
             right == Append(Residuals(c.hops), ResidualOf(m.kind))
  <2>1. n \in Nat /\ DOMAIN c.hops = 1..n /\ DOMAIN t.hops = 1..n+1
    BY <1>1, <1>2
  <2>2. t.hops[n+1] = m /\ \A i \in 1..n : t.hops[i] = c.hops[i]
    BY <1>1, <1>2
  <2>3. left = [i \in 1..n+1 |-> ResidualOf(t.hops[i].kind)]
    BY <2>1, Zenon DEF Residuals
  <2>4. \A i \in 1..n : Residuals(c.hops)[i] = ResidualOf(c.hops[i].kind)
    BY <2>1 DEF Residuals
  <2>5. right \in Seq(S) /\ Len(right) = n + 1
    BY <1>5
  <2>6. right[n+1] = ResidualOf(m.kind) /\ \A i \in 1..n : right[i] = Residuals(c.hops)[i]
    BY <1>5
  <2> HIDE DEF S, n, left, right
  <2>7. \A i \in 1..n+1 : right[i] = ResidualOf(t.hops[i].kind)
    BY <2>1, <2>2, <2>4, <2>6
  <2>8. right = [i \in 1..n+1 |-> right[i]]
    BY <2>1, <2>5
  <2>9. left = right
    BY <2>3, <2>7, <2>8
  <2> QED BY <2>9 DEF left, right
<1>7. t.residual = FlattenSeq(Residuals(t.hops))
  <2>1. Len(Residuals(c.hops)) # 0
    BY <1>1, <1>5
  <2>2. c.residual = FlattenSeq(Residuals(c.hops))
    BY Zenon DEF ChainIs
  <2> HIDE DEF S
  <2> QED BY <1>2, <1>5, <1>6, <2>1, <2>2, FlattenMore, Zenon
<1> QED BY <1>2, <1>3, <1>4, <1>7, Zenon DEF ChainIs, t

LEMMA CInvNext == PInv /\ MInv /\ CInv /\ [RNext]_rvars => CInv'
<1> SUFFICES ASSUME PInv, MInv, CInv, [RNext]_rvars PROVE CInv'
  OBVIOUS
<1>1. Canonicals \subseteq Canonicals'
  BY PublishedGrows DEF Canonicals
<1>2. CASE UNCHANGED chain
  <2>1. ASSUME NEW h \in Seq(Canonicals) PROVE h \in Seq(Canonicals')
    BY <1>1
  <2>2. CASE chain = None
    BY <1>2, <2>2, Zenon DEF CInv
  <2>3. CASE chain # None
    <3>1. ChainIs(chain)
      BY <2>3, Zenon DEF CInv
    <3> QED BY <1>2, <2>1, <3>1, Zenon DEF CInv, ChainIs
  <2> QED BY <2>2, <2>3
<1>3. ASSUME NEW peer \in Peers, NEW at \in DOMAIN mirrors[peer],
             Start(peer, at) \/ Extend(peer, at)
      PROVE  CInv'
  <2> DEFINE m == mirrors[peer][at].canonical
  <2>1. m \in Canonicals
    BY DEF MInv, Faithful, Canonicals
  <2>2. Canonicals' = Canonicals
    BY <1>3 DEF Start, Extend, Canonicals, Published
  <2> HIDE DEF m
  <2>3. chain' = None \/ ChainIs(chain')
    <3>1. CASE Start(peer, at)
      <4>1. chain' = single(m)
        BY <3>1 DEF Start, m
      <4> QED BY <2>1, <4>1, ChainOne, Zenon
    <3>2. CASE Extend(peer, at)
      <4>1. chain # None /\ chain' = IF IsErr(then(chain, m, Cap)) THEN None
                                                              ELSE then(chain, m, Cap)
        BY <3>2, Zenon DEF Extend, m
      <4> QED BY <2>1, <4>1, ChainMore, Zenon DEF CInv
    <3> QED BY <1>3, <3>1, <3>2
  <2>4. CASE chain' = None
    BY <2>4, Zenon DEF CInv
  <2>5. CASE ChainIs(chain')
    BY <2>2, <2>5, Zenon DEF CInv, ChainIs
  <2> QED BY <2>3, <2>4, <2>5
<1> QED BY <1>2, <1>3, Zenon DEF RNext, rvars, Onboard, Publish, Sync, Federate

LEMMA CInvAlways == RSpec => []CInv
<1>1. RInit => CInv
  BY DEF RInit, CInv
<1>2. PInv /\ MInv /\ CInv /\ [RNext]_rvars => CInv'
  BY CInvNext
<1> QED BY <1>1, <1>2, PInvAlways, MInvAlways, PTL DEF RSpec

\* The source, the target and the version of a mapping name it among all that
\* was published.
LEMMA NamedIs ==
  ASSUME PInv, NEW m \in Canonicals, NEW v, v.source = m.source, v.target = m.target,
         v.version = m.version
  PROVE  Named(v) = {m}
<1>1. Named(v) = {c \in Canonicals : /\ c.source = v.source /\ c.target = v.target
                                     /\ c.version = v.version}
  BY DEF Named, Canonicals, Published
<1>2. ASSUME NEW c \in Canonicals, c.source = v.source, c.target = v.target,
             c.version = v.version
      PROVE  c = m
  <2>1. PICK x \in Published : c = x.canonical
    BY DEF Canonicals
  <2>2. PICK y \in Published : m = y.canonical
    BY DEF Canonicals
  <2>3. Mapped(x) /\ Mapped(y)
    BY Zenon DEF PInv, Numbered
  <2>4. x.id.item = <<c.source, c.target>> /\ y.id.item = <<m.source, m.target>>
    <3>1. \A pair \in Pairs : pair = <<pair[1], pair[2]>>
      BY RegistryConstantsOK
    <3>2. /\ x.id.item \in Pairs /\ y.id.item \in Pairs
          /\ c = MappingItem(x.id.item[1], x.id.item[2], c.version, c.kind)
          /\ m = MappingItem(y.id.item[1], y.id.item[2], m.version, m.kind)
      BY <2>1, <2>2, <2>3, Zenon DEF Mapped
    <3>3. ASSUME NEW z, NEW a, NEW b, NEW n, NEW k, z = MappingItem(a, b, n, k)
          PROVE  z.source = a /\ z.target = b
      BY <3>3 DEF MappingItem
    <3>4. /\ c.source = x.id.item[1] /\ c.target = x.id.item[2]
          /\ m.source = y.id.item[1] /\ m.target = y.id.item[2]
      BY <3>2, <3>3
    <3> QED BY <3>1, <3>2, <3>4, Zenon
  <2>5. x.id.item = y.id.item /\ x.canonical.version = y.canonical.version
    BY <1>2, <2>1, <2>2, <2>4, Zenon
  <2> QED BY <2>1, <2>2, <2>5, Zenon DEF PInv, Numbered
<1> QED BY <1>1, <1>2

LEMMA Reproducible ==
  ASSUME PInv, chain # None, ChainIs(chain)
  PROVE  LET vs == versions(chain)
         IN  /\ \A i \in DOMAIN vs : Cardinality(Named(vs[i])) = 1
             /\ Recomposed(vs) = chain
<1> DEFINE hops == chain.hops
           n == Len(hops)
           vs == versions(chain)
<1>1. /\ n \in Nat /\ 1 \in 1..n /\ DOMAIN hops = 1..n
      /\ \A i \in 1..n : hops[i] \in Canonicals
  BY RegistryConstantsOK DEF ChainIs
<1>2. chain = Composed(hops)
  BY Zenon DEF ChainIs
<1>3. vs = [i \in 1..n |-> [source |-> hops[i].source, target |-> hops[i].target,
                           version |-> hops[i].version]]
  BY <1>1, Zenon DEF versions
<1> HIDE DEF hops, vs, n
<1>4. ASSUME NEW i \in 1..n PROVE Named(vs[i]) = {hops[i]}
  <2>1. /\ vs[i].source = hops[i].source /\ vs[i].target = hops[i].target
        /\ vs[i].version = hops[i].version
    BY <1>3
  <2> QED BY <1>1, <2>1, NamedIs, Zenon
<1>5. DOMAIN vs = 1..n /\ Len(vs) = n
  BY <1>1, <1>3
<1>6. \A i \in 1..n : Cardinality(Named(vs[i])) = 1 /\ The(Named(vs[i])) = hops[i]
  <2>1. \A x : Cardinality({x}) = 1
    BY FS_Singleton
  <2>2. \A x : The({x}) = x
    BY DEF The
  <2> QED BY <1>4, <2>1, <2>2, Zenon
<1>7. Recomposed(vs) = chain
  <2> DEFINE Again(g, i) == IF i = 1 THEN single(The(Named(vs[1])))
                                     ELSE then(g[i-1], The(Named(vs[i])), Cap)
             AgainOn(g) == g = [i \in 1..n |-> Again(g, i)]
  <2>1. Recomposed(vs) = (CHOOSE g : AgainOn(g))[n]
    BY <1>5, Zenon DEF Recomposed
  <2>2. \A g : AgainOn(g) <=> ChainOn(g, hops, n)
    <3> TAKE g
    <3>1. \A i \in 1..n : Again(g, i) = ChainNext(g, hops, i)
      BY <1>1, <1>6, Zenon DEF ChainNext
    <3> HIDE DEF Again
    <3> QED BY <3>1 DEF ChainOn
  <2> HIDE DEF AgainOn
  <2>3. (CHOOSE g : AgainOn(g)) = (CHOOSE g : ChainOn(g, hops, n))
    BY <2>2
  <2> QED BY <1>2, <2>1, <2>3, Zenon DEF Composed, n
<1> QED BY <1>5, <1>6, <1>7, Zenon DEF vs

\* A chain is refused if a hop is no transform, and else applied hop by hop.
LEMMA AppliedIs ==
  ASSUME NEW c, NEW hops, hops = c.hops, NEW n, n = Len(hops), n \in Nat, NEW v
  PROVE  \E g : /\ AppliedOn(g, hops, v, n) /\ apply_deterministic(c, v) = g[n]
<1> DEFINE table == CHOOSE g : AppliedOn(g, c.hops, v, Len(c.hops))
<1>1. AppliedOn(table, hops, v, n)
  <2>1. \E g : AppliedOn(g, hops, v, n)
    BY AppliedExists
  <2> QED BY <2>1, Zenon
<1>2. apply_deterministic(c, v) = table[Len(c.hops)]
  BY Zenon DEF apply_deterministic, AppliedOn, AppliedNext
<1> HIDE DEF table
<1> QED BY <1>1, <1>2, Zenon

LEMMA RefusedIs ==
  ASSUME NEW hops, NEW v, NEW n \in Nat, NEW g, AppliedOn(g, hops, v, n)
  PROVE  /\ IsErr(g[n]) <=> \E i \in 1..n : hops[i].kind.tier # 1
         /\ n # 0 /\ ~IsErr(g[n]) => g[n].value = Transforms[hops[n].kind.transform][g[n-1].value]
<1> DEFINE P == {k \in Nat : k <= n => (IsErr(g[k]) <=> \E i \in 1..k : hops[i].kind.tier # 1)}
<1>0. /\ \A x : ~IsErr([value |-> x]) /\ [value |-> x].value = x
      /\ \A x : IsErr(Err(x))
  BY DEF IsErr, Err
<1>1. ASSUME NEW k \in Nat, k + 1 <= n PROVE g[k+1] = Step(g[k], hops[k+1])
  <2>1. k + 1 \in 0..n /\ k + 1 # 0 /\ (k + 1) - 1 = k
    BY <1>1
  <2>2. g[k+1] = AppliedNext(g, hops, v, k + 1)
    BY <2>1 DEF AppliedOn
  <2> QED BY <2>1, <2>2, Zenon DEF AppliedNext
<1>2. \A x, hop : IsErr(Step(x, hop)) <=> IsErr(x) \/ hop.kind.tier # 1
  BY <1>0, Zenon DEF Step
<1>3. 0 \in P
  <2>1. g[0] = AppliedNext(g, hops, v, 0)
    <3>1. 0 \in 0..n
      OBVIOUS
    <3> QED BY <3>1 DEF AppliedOn
  <2>2. ~IsErr(g[0])
    BY <1>0, <2>1, Zenon DEF AppliedNext
  <2> QED BY <2>2
<1>4. ASSUME NEW k \in Nat, k \in P PROVE k + 1 \in P
  <2> SUFFICES ASSUME k + 1 <= n
               PROVE  IsErr(g[k+1]) <=> \E i \in 1..k+1 : hops[i].kind.tier # 1
    OBVIOUS
  <2>1. IsErr(g[k+1]) <=> IsErr(g[k]) \/ hops[k+1].kind.tier # 1
    BY <1>1, <1>2, Zenon
  <2>2. IsErr(g[k]) <=> \E i \in 1..k : hops[i].kind.tier # 1
    BY <1>4
  <2>3. 1..k+1 = (1..k) \cup {k+1}
    OBVIOUS
  <2> QED BY <2>1, <2>2, <2>3, Zenon
<1> HIDE DEF P
<1>5. Nat \subseteq P
  BY <1>3, <1>4, NatSetInduction
<1>6. IsErr(g[n]) <=> \E i \in 1..n : hops[i].kind.tier # 1
  BY <1>5 DEF P
<1>7. ASSUME n # 0, ~IsErr(g[n])
      PROVE  g[n].value = Transforms[hops[n].kind.transform][g[n-1].value]
  <2> DEFINE k == n - 1
  <2>1. k \in Nat /\ k + 1 = n /\ k + 1 <= n
    BY <1>7
  <2> HIDE DEF k
  <2>2. g[n] = Step(g[k], hops[n])
    BY <1>1, <2>1
  <2>3. g[n] = [value |-> Transforms[hops[n].kind.transform][g[k].value]]
    BY <1>0, <1>7, <2>2, Zenon DEF Step
  <2> QED BY <1>0, <2>3, Zenon DEF k
<1> QED BY <1>6, <1>7

LEMMA FrontIs ==
  ASSUME NEW S, NEW s \in Seq(S), NEW k \in Nat, Len(s) = k + 1
  PROVE  Len(Front(s)) = k /\ \A i \in 1..k : s[i] = Front(s)[i]
BY DEF Front

LEMMA Applies ==
  ASSUME NEW S, NEW c, c.hops \in Seq(S), Len(c.hops) # 0, "hops" \in DOMAIN c, NEW v
  PROVE  LET result == apply_deterministic(c, v)
             last   == c.hops[Len(c.hops)]
             front  == [c EXCEPT !.hops = Front(@)]
         IN  /\ IsErr(result) <=> \E i \in DOMAIN c.hops : c.hops[i].kind.tier # 1
             /\ ~IsErr(result) =>
                  result.value = Transforms[last.kind.transform][apply_deterministic(front, v).value]
<1> DEFINE hops == c.hops
           less == [c EXCEPT !.hops = Front(@)]
           fore == less.hops
           n    == Len(hops)
<1>1. n \in Nat /\ n # 0 /\ DOMAIN hops = 1..n /\ hops \in Seq(S)
  OBVIOUS
<1>2. fore = Front(hops)
  OBVIOUS
<1> HIDE DEF hops, less, fore, n
<1>3. PICK k \in Nat : n = k + 1
  <2>1. n - 1 \in Nat /\ n = (n - 1) + 1
    BY <1>1
  <2> QED BY <2>1
<1>4. k = Len(fore) /\ \A i \in 1..k : hops[i] = fore[i]
  BY <1>1, <1>2, <1>3, FrontIs DEF n
<1>5. /\ k + 1 \in Nat /\ k <= k /\ k <= k + 1 /\ k \in 0..k /\ n - 1 = k
  BY <1>3
<1>6. PICK g : AppliedOn(g, hops, v, n) /\ apply_deterministic(c, v) = g[n]
  <2>1. hops = c.hops /\ n = Len(hops)
    BY DEF hops, n
  <2> QED BY <1>1, <2>1, AppliedIs
<1>7. PICK h : AppliedOn(h, fore, v, k) /\ apply_deterministic(less, v) = h[k]
  <2>1. fore = less.hops
    BY DEF fore
  <2> QED BY <1>4, <2>1, AppliedIs
<1>8. g[k] = h[k]
  <2>1. n \in Nat /\ k <= n /\ k <= k
    BY <1>1, <1>3
  <2>2. AppliedOn(g, hops, v, n) /\ AppliedOn(h, fore, v, k)
    BY <1>6, <1>7
  <2>3. \A i \in 1..k : hops[i] = fore[i]
    BY <1>4
  <2>4. \A i \in 0..k : g[i] = h[i]
    BY <2>1, <2>2, <2>3, AppliedAgree
  <2> QED BY <1>5, <2>4
<1>9. /\ IsErr(g[n]) <=> \E i \in 1..n : hops[i].kind.tier # 1
      /\ ~IsErr(g[n]) => g[n].value = Transforms[hops[n].kind.transform][g[n-1].value]
  BY <1>1, <1>6, RefusedIs
<1>10. g[n-1] = h[k]
  BY <1>5, <1>8
<1> QED BY <1>1, <1>6, <1>7, <1>9, <1>10, Zenon DEF n, hops, less

\* A chain is what the items it names compose to, in its versions, its residuals
\* and what it makes of a value, whatever was published and synced since.
THEOREM ChainsAlwaysExact == RSpec => []ChainsExact
<1>1. PInv /\ CInv => ChainsExact
  <2> SUFFICES ASSUME PInv, CInv PROVE ChainsExact
    OBVIOUS
  <2>1. chain # None => ChainIs(chain)
    BY Zenon DEF CInv
  <2>2. ChainsReproducible
    BY <2>1, Reproducible, Zenon DEF ChainsReproducible
  <2>3. ResidualsComplete
    <3>1. chain # None => Len(chain.hops) <= Cap
      BY <2>1, RegistryConstantsOK DEF ChainIs
    <3> QED BY <2>1, <3>1, Zenon DEF ResidualsComplete, ChainIs, Residuals
  <2>4. ChainsApply
    <3> SUFFICES ASSUME chain # None, NEW v \in Values
                 PROVE  LET result == apply_deterministic(chain, v)
                            last   == chain.hops[Len(chain.hops)]
                            front  == [chain EXCEPT !.hops = Front(@)]
                        IN  /\ IsErr(result)
                                 <=> \E i \in DOMAIN chain.hops : chain.hops[i].kind.tier # 1
                            /\ ~IsErr(result) => result.value =
                                 Transforms[last.kind.transform]
                                   [apply_deterministic(front, v).value]
      BY Zenon DEF ChainsApply
    <3>1. /\ chain.hops \in Seq(Canonicals) /\ Len(chain.hops) # 0
          /\ "hops" \in DOMAIN chain
      BY <2>1, RegistryConstantsOK DEF ChainIs
    <3> QED BY <3>1, Applies, Zenon
  <2> QED BY <2>2, <2>3, <2>4, Zenon DEF ChainsExact
<1> QED BY <1>1, PInvAlways, CInvAlways, PTL
=============================================================================
