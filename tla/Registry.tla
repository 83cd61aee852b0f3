------------------------------- MODULE Registry -------------------------------
(***************************************************************************)
(* Peer registries: operators are onboarded from a seed bundle, publish    *)
(* versions of mapping items, and mirror one another's items in whatever   *)
(* order they arrive; a consumer composes chains of the items a mirror     *)
(* serves.  Nobody sees the registers as a whole: every mirror is behind   *)
(* in its own way.                                                         *)
(***************************************************************************)
EXTENDS Mapping, Operators, FiniteSets, TLC

CONSTANTS
  Peers,         \* the operators of registries
  Pairs,         \* the pairs <<source, target>> that mappings are registered for
  OwnerOf,       \* the peer whose register has the pair
  KindsOf,       \* the mapping kinds in play for a pair
  Bundles,       \* the seed bundles operators start from
  Applications,  \* the sets of keys a descriptor may give
  MaxVersion,    \* bound on the versions of one item
  MaxPublished,  \* bound on the publications
  Cap            \* the policy's cap on the length of a chain

ASSUME RegistryConstantsOK ==
  /\ OwnerOf \in [Pairs -> Peers] /\ None \notin Nat
  /\ MaxVersion \in Nat /\ MaxPublished \in Nat /\ Cap \in Nat \ {0}
  /\ \A pair \in Pairs : pair = <<pair[1], pair[2]>>
  /\ Bundles \subseteq [roles : Seq(Roles), tier : Tiers]
  /\ Cardinality(Roles) = 30

VARIABLES
  listed,     \* the credential of every operator that went through onboarding
  published,  \* the exchange items, in the order they were published
  mirrors,    \* Mirror::items of every peer
  chain       \* the MappingChain a consumer holds

rvars == <<listed, published, mirrors, chain>>

\* StableId::uri: an item without a version is another resource.
\* Deviation: the version is left out.
uri_unversioned(id) == <<id.register, id.item>>
uri(id) ==
  IF id.version = None THEN <<id.register, id.item>> ELSE <<id.register, id.item, id.version>>

ExchangeItem(pair, version, mapping) ==
  [id |-> [register |-> OwnerOf[pair], item |-> pair, version |-> version],
   canonical |-> mapping]

\* Mirror::sync replaces what is served under the item's URI.
sync(mirror, item) ==
  [at \in DOMAIN mirror \cup {uri(item.id)} |->
     IF at = uri(item.id) THEN item ELSE mirror[at]]

\* Mirror::serve; an unlisted URI is a stated absence.
Serves(peer, item) == uri(item.id) \in DOMAIN mirrors[peer] /\ mirrors[peer][uri(item.id)] = item

\* federate_peers: the same exchange both ways, into new mirrors.
Emptied == << >>
ItemsOf(peer) ==
  LET upto[i \in 0..Len(published)] ==
        IF i = 0 THEN << >>
        ELSE IF published[i].id.register = peer THEN Append(upto[i - 1], published[i])
        ELSE upto[i - 1]
  IN  upto[Len(published)]
Filled(items) ==
  LET upto[i \in 0..Len(items)] == IF i = 0 THEN Emptied ELSE sync(upto[i - 1], items[i])
  IN  upto[Len(items)]
federate_peers(a_items, b_items) == [a |-> Filled(b_items), b |-> Filled(a_items)]

RInit ==
  /\ listed = [p \in Peers |-> None] /\ published = << >>
  /\ mirrors = [p \in Peers |-> Emptied] /\ chain = None

-----------------------------------------------------------------------------
\* The onboarding ceremony; a refusal leaves nothing behind.
Onboard(peer, bundle, descriptor) ==
  LET application == [operator |-> peer, descriptor |-> descriptor]
  IN  /\ listed[peer] = None
      /\ onboard(bundle, application) = [state |-> "listed"]
      /\ listed' = [listed EXCEPT ![peer] = CredentialOf(bundle, peer)]
      /\ UNCHANGED <<published, mirrors, chain>>

PinnedVersions(pair) ==
  {published[i].id.version : i \in
     {j \in DOMAIN published : published[j].id.item = pair}} \ {None}

\* An operator publishes the next version of an item: the version, and the
\* floating item that stands for the latest one.
Publish(pair, kind) ==
  LET peer    == OwnerOf[pair]
      n       == 1 + Cardinality(PinnedVersions(pair))
      mapping == MappingItem(pair[1], pair[2], n, kind)
  IN  /\ listed[peer] # None /\ Permitted(listed[peer], "operate-registry")
      /\ n <= MaxVersion /\ Len(published) < 2 * MaxPublished
      /\ published' = published \o <<ExchangeItem(pair, n, mapping),
                                     ExchangeItem(pair, None, mapping)>>
      /\ UNCHANGED <<listed, mirrors, chain>>

\* An item of the exchange arrives: again, or after later ones.
Sync(peer, i) ==
  /\ i \in DOMAIN published /\ published[i].id.register # peer
  /\ mirrors' = [mirrors EXCEPT ![peer] = sync(@, published[i])]
  /\ mirrors' # mirrors
  /\ UNCHANGED <<listed, published, chain>>

\* Two peers exchange everything they have published.
Federate(a, b) ==
  LET both == federate_peers(ItemsOf(a), ItemsOf(b))
  IN  /\ a # b
      /\ mirrors' = [mirrors EXCEPT ![a] = both.a, ![b] = both.b]
      /\ mirrors' # mirrors
      /\ UNCHANGED <<listed, published, chain>>

\* A consumer starts a chain with an item a mirror serves, or extends the one
\* it has; a refused extension costs it the chain.
Start(peer, at) ==
  /\ at \in DOMAIN mirrors[peer]
  /\ chain' = single(mirrors[peer][at].canonical)
  /\ chain' # chain
  /\ UNCHANGED <<listed, published, mirrors>>

Extend(peer, at) ==
  /\ chain # None /\ at \in DOMAIN mirrors[peer]
  /\ LET longer == then(chain, mirrors[peer][at].canonical, Cap)
     IN  chain' = IF IsErr(longer) THEN None ELSE longer
  /\ UNCHANGED <<listed, published, mirrors>>

RNext ==
  \/ \E peer \in Peers, bundle \in Bundles, keys \in Applications : Onboard(peer, bundle, keys)
  \/ \E pair \in Pairs : \E kind \in KindsOf[pair] : Publish(pair, kind)
  \/ \E peer \in Peers, i \in DOMAIN published : Sync(peer, i)
  \/ \E a, b \in Peers : Federate(a, b)
  \/ \E peer \in Peers : \E at \in DOMAIN mirrors[peer] : Start(peer, at) \/ Extend(peer, at)

RSpec == RInit /\ [][RNext]_rvars

-----------------------------------------------------------------------------
(* Properties.                                                             *)

\* What a mirror serves under the URI of a version is what its origin published
\* as that version, after any order of arrivals: the floating item that travels
\* beside it is never served in its place (federation.rs:48, exports.rs:31).
MirrorsServePublished ==
  \A p \in Peers, i \in DOMAIN published :
    LET at == uri(published[i].id)
    IN  published[i].id.version # None /\ at \in DOMAIN mirrors[p] => Serves(p, published[i])

\* "Chains record every constituent mapping version" (mapping.rs:19): put
\* together again from the published items its versions name, a chain is the
\* same chain, whatever was published and synced since it was composed.
Named(v) ==
  {m \in {published[i].canonical : i \in DOMAIN published} :
     m.source = v.source /\ m.target = v.target /\ m.version = v.version}
The(items) == CHOOSE m \in items : TRUE
Recomposed(vs) ==
  LET upto[i \in 1..Len(vs)] ==
        IF i = 1 THEN single(The(Named(vs[1]))) ELSE then(upto[i - 1], The(Named(vs[i])), Cap)
  IN  upto[Len(vs)]
ChainsReproducible ==
  chain # None =>
    LET vs == versions(chain)
    IN  /\ \A i \in DOMAIN vs : Cardinality(Named(vs[i])) = 1
        /\ Recomposed(vs) = chain

\* The residuals of all correspondences of a chain are stated, in the order of
\* the hops, and the chain is no longer than the policy allows (mapping.rs:16).
ResidualsComplete ==
  chain # None =>
    /\ chain.residual = FlattenSeq([i \in DOMAIN chain.hops |-> ResidualOf(chain.hops[i].kind)])
    /\ Len(chain.hops) <= Cap

\* A chain is applied as the composition of its hops, from source to target,
\* and is refused exactly if a hop is no transform (mapping.rs:15, :199).
Values == UNION {DOMAIN Transforms[t] : t \in DOMAIN Transforms}
ChainsApply ==
  chain # None => \A v \in Values :
    LET result == apply_deterministic(chain, v)
        last    == chain.hops[Len(chain.hops)]
        front   == [chain EXCEPT !.hops = Front(@)]
    IN  /\ IsErr(result) <=> \E i \in DOMAIN chain.hops : chain.hops[i].kind.tier # 1
        /\ ~IsErr(result) =>
             result.value = Transforms[last.kind.transform][apply_deterministic(front, v).value]

\* A chain is what the items it names compose to: in its versions, its residuals
\* and what it makes of a value.
ChainsExact == ChainsReproducible /\ ResidualsComplete /\ ChainsApply

\* A further role, before or after the ones an operator has, or a higher tier,
\* takes no permission away (roles.rs:302, "the first held role that admits").
AuthorizationMonotone ==
  \A p \in Peers : listed[p] # None =>
    \A role \in {"consumer", "registrar", "trust-authority"}, a \in Actions :
      Permitted(listed[p], a) =>
        /\ Permitted([listed[p] EXCEPT !.roles = <<role>> \o @], a)
        /\ Permitted([listed[p] EXCEPT !.roles = Append(@, role)], a)
        /\ \A t \in Tiers : t >= listed[p].tier => Permitted([listed[p] EXCEPT !.tier = t], a)

\* The onboarding ceremony lists exactly the operators the role catalog lets
\* register a service, and none without the gates (onboarding.rs:132).
CeremonyMatchesCatalog ==
  /\ \A p \in Peers : listed[p] # None => Permitted(listed[p], "register-service")
  /\ \A p \in Peers, bundle \in Bundles, keys \in Applications : listed[p] = None =>
       (onboard(bundle, [operator |-> p, descriptor |-> keys]) = [state |-> "listed"]
          <=> /\ Permitted(CredentialOf(bundle, p), "register-service")
              /\ ToSet(Gates) \subseteq keys)

\* Whoever published an item was listed by then, and may operate a registry.
PublishersPermitted ==
  \A i \in DOMAIN published :
    LET operator == listed[published[i].id.register]
    IN  operator # None /\ Permitted(operator, "operate-registry")

\* The ceremony, the publications and the role catalog agree on who may do what,
\* in whatever order operators hold their roles.
RightsMatchCatalog == AuthorizationMonotone /\ CeremonyMatchesCatalog /\ PublishersPermitted

\* The level two peers relate at is bounded by the policy and by every layer, it
\* is that of what is named as the bottleneck, and a bridge never lifts it above
\* the policy (route.rs:97).  The semantic layer is bridged by a chain.
Vectors ==
  {[[l \in ToSet(LAYERS) |-> "same"] EXCEPT
      !["semantics"] = IF chain = None THEN "gap" ELSE "bridged-by",
      !["protocol"] = first, !["trust"] = second] : first, second \in LinkStates}
CompositionLaw ==
  \A vector \in Vectors, cap \in {0, 3, 5} :
    LET c      == compose(vector, cap)
        allowed == {cap} \cup {layer_caps(vector)[l] : l \in DOMAIN vector}
    IN  /\ c.level \in allowed /\ \A n \in allowed : c.level <= n
        /\ c.policy_bound <=> c.level = cap
        /\ IF c.policy_bound THEN c.bottleneck = None
                             ELSE layer_caps(vector)[c.bottleneck] = c.level

\* A version that a mirror serves it goes on serving, whatever arrives in whatever order
\* (federation.rs:46), until its peer takes a mirror that was filled by somebody else's
\* items: an exchange makes new mirrors, in which each of the two peers serves every
\* version the other has published, and nothing more (onboarding.rs:238).
Exchanged(p, i) ==
  \E q \in Peers \ {p, published[i].id.register} : mirrors'[p] = Filled(ItemsOf(q))
VersionsStayServed ==
  [][/\ \A p \in Peers, i \in DOMAIN published :
          published[i].id.version # None /\ Serves(p, published[i])
            => Serves(p, published[i])' \/ Exchanged(p, i)
     /\ \A a, b \in Peers : Federate(a, b) =>
          \A i \in DOMAIN published :
            published[i].id.version # None /\ published[i].id.register = b
              => Serves(a, published[i])']_rvars

\* What the documentation says: "any tier-3 edge in a path refuses the whole
\* composition" (mapping.rs:17), wherever in the path it is.
NoMappingNeverComposed ==
  chain # None /\ Len(chain.hops) > 1 =>
    \A i \in DOMAIN chain.hops : chain.hops[i].kind.tier # 3
=============================================================================
