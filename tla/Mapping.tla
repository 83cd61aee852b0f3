------------------------------- MODULE Mapping -------------------------------
(***************************************************************************)
(* Mapping items of the semantic layer, the chains they compose to, and    *)
(* the composition law of a relationship's layers, as functions.  An       *)
(* element is a model value; a scope is a set of qualifiers.               *)
(***************************************************************************)
EXTENDS Naturals, SequencesExt

CONSTANTS
  None,        \* Option::None
  Transforms   \* the registered transforms: name -> (value -> value)

Err(reason) == [err |-> reason]
IsErr(result) == "err" \in DOMAIN result

\* MappingKind, with the fields of its tier.
Deterministic(transform) == [tier |-> 1, transform |-> transform]
Correspondence(scope, residual) == [tier |-> 2, scope |-> scope, residual |-> residual]
NoMapping == [tier |-> 3]

MappingItem(source, target, version, kind) ==
  [source |-> source, target |-> target, version |-> version, kind |-> kind]

ResidualOf(kind) == IF kind.tier = 2 THEN <<kind.residual>> ELSE << >>

\* MappingChain::single: any item is a chain of one hop, a tier-3 one too.
single(item) ==
  [source |-> item.source, target |-> item.target, hops |-> <<item>>,
   residual |-> ResidualOf(item.kind),
   scope |-> IF item.kind.tier = 2 THEN item.kind.scope ELSE {}]

\* An empty scope stands for no restriction, also where it is what is left of
\* two scopes that have nothing in common.
ScopeAfter(scope, kind) ==
  IF kind.tier # 2 \/ kind.scope = {} THEN scope
  ELSE IF scope = {} THEN kind.scope ELSE scope \cap kind.scope

\* MappingChain::then, which consumes the chain: what it returns replaces it.
\* Deviation: the residual of the newest correspondence alone is kept.
then_keeps_last(chain, next, cap) ==
  IF chain.target # next.source THEN Err("mismatch")
  ELSE IF next.kind.tier = 3 THEN Err("no-correspondence")
  ELSE IF Len(chain.hops) + 1 > cap THEN Err("over-cap")
  ELSE [chain EXCEPT !.target = next.target, !.hops = Append(@, next),
                     !.residual = IF next.kind.tier = 2 THEN ResidualOf(next.kind) ELSE @,
                     !.scope = ScopeAfter(@, next.kind)]

then(chain, next, cap) ==
  IF chain.target # next.source THEN Err("mismatch")
  ELSE IF next.kind.tier = 3 THEN Err("no-correspondence")
  ELSE IF Len(chain.hops) + 1 > cap THEN Err("over-cap")
  ELSE [source |-> chain.source, target |-> next.target,
        hops |-> Append(chain.hops, next),
        residual |-> chain.residual \o ResidualOf(next.kind),
        scope |-> ScopeAfter(chain.scope, next.kind)]

\* apply_deterministic, with the registered transforms; they fail on no value.
Step(value, hop) ==
  IF IsErr(value) THEN value
  ELSE IF hop.kind.tier # 1 THEN Err("not-deterministic")
  ELSE [value |-> Transforms[hop.kind.transform][value.value]]

apply_deterministic(chain, value) ==
  LET after[i \in 0..Len(chain.hops)] ==
        IF i = 0 THEN [value |-> value] ELSE Step(after[i - 1], chain.hops[i])
  IN  after[Len(chain.hops)]

\* versions: the constituents of a chain.
versions(chain) ==
  [i \in DOMAIN chain.hops |->
     [source |-> chain.hops[i].source, target |-> chain.hops[i].target,
      version |-> chain.hops[i].version]]

-----------------------------------------------------------------------------
(* The layer vector of a pair and the composition law.                     *)

LAYERS == <<"transport", "protocol", "structure", "semantics", "identity", "trust">>
LinkStates == {"same", "bridged-by", "gap"}

layer_caps(vector) == [l \in DOMAIN vector |-> IF vector[l] = "gap" THEN 0 ELSE 5]

\* The layers lower the level in vector order; the first that is lowest is named.
Lower(caps, so_far, layer) ==
  IF caps[layer] < so_far.level
    THEN [level |-> caps[layer], bottleneck |-> layer, policy_bound |-> FALSE]
    ELSE so_far

LevelOver(vector, start) ==
  LET after[i \in 0..Len(LAYERS)] ==
        IF i = 0 THEN start ELSE Lower(layer_caps(vector), after[i - 1], LAYERS[i])
  IN  after[Len(LAYERS)]

\* Deviation: the level starts from the highest one, the policy cap is a layer.
compose_lifted(vector, policy_cap) ==
  LevelOver(vector, [level |-> 5, bottleneck |-> None, policy_bound |-> FALSE])
compose(vector, policy_cap) ==
  LevelOver(vector, [level |-> policy_cap, bottleneck |-> None, policy_bound |-> TRUE])
=============================================================================
