------------------------------ MODULE Operators ------------------------------
(***************************************************************************)
(* Who may do what in the federation, as functions: the role catalog, the  *)
(* federation tiers, authorization, and the onboarding ceremony with its   *)
(* listing gates and the conformance contract of a peer.                   *)
(***************************************************************************)
EXTENDS Naturals, SequencesExt

Tiers == 1..4   \* T1 .. T4, in the derived order

\* role_catalog: for every action, the roles whose row admits it.
role_catalog ==
  [a \in {"issue-type-passport"} |-> {"manufacturer"}] @@
  [a \in {"issue-instance-passport"} |->
     {"manufacturer", "importer", "batch-maker", "component-maker"}] @@
  [a \in {"append-event"} |->
     {"manufacturer", "importer", "authorized-representative", "batch-maker",
      "component-maker", "distributor", "retailer", "independent-repairer",
      "refurbisher", "recycler", "waste-operator", "logistics-operator",
      "auction-house"}] @@
  [a \in {"submit-recall-proposal"} |->
     {"manufacturer", "authorized-representative", "market-surveillance"}] @@
  [a \in {"enact-recall"} |-> {"market-surveillance"}] @@
  [a \in {"attest-conformity"} |->
     {"type-test-lab", "calibration-body", "conformity-body", "notified-body"}] @@
  [a \in {"register-service"} |->
     {"manufacturer", "registry-operator", "resolver-operator", "log-operator",
      "trust-authority", "archive-provider", "hosting-provider"}] @@
  [a \in {"operate-registry"} |-> {"registrar", "registry-operator"}] @@
  [a \in {"operate-resolver"} |-> {"resolver-operator"}] @@
  [a \in {"operate-log"} |-> {"log-operator"}] @@
  [a \in {"read-full-record"} |->
     {"auction-house", "market-surveillance", "customs-authority", "insurer", "appraiser"}] @@
  [a \in {"join-master-list"} |-> {"trust-authority"}] @@
  [a \in {"sit-dispute-panel"} |-> {"registrar", "dispute-panelist"}]

Actions == DOMAIN role_catalog
Roles == (UNION {role_catalog[a] : a \in Actions}) \cup {"consumer"}

minimum_tier(action) ==
  CASE action = "register-service"  -> 2
    [] action = "join-master-list"  -> 3
    [] action = "sit-dispute-panel" -> 4
    [] OTHER -> 1

\* authorize: the first held role that admits the action, then its tier.
AtTier(role, credential, action) ==
  IF credential.tier >= minimum_tier(action)
    THEN [permitted |-> role]
    ELSE [refused |-> "tier-too-low", role |-> role, required |-> minimum_tier(action)]

authorize(credential, action) ==
  LET first == SelectInSeq(credential.roles, LAMBDA r : r \in role_catalog[action])
  IN  IF first = 0 THEN [refused |-> "no-role-admits"]
                   ELSE AtTier(credential.roles[first], credential, action)
Permitted(credential, action) == "permitted" \in DOMAIN authorize(credential, action)

\* SeedBundle::credential.
CredentialOf(bundle, operator) ==
  [operator |-> operator, roles |-> bundle.roles, tier |-> bundle.tier]

\* The listing gates; a descriptor is the set of the keys it gives a value for.
Gates == <<"jurisdiction", "residency", "continuity">>
gate_passes(gate, application) == gate \in application.descriptor

\* onboard: the state of the ceremony, or the first reason to refuse.
FirstGateOr(application, outcome) ==
  LET failed == SelectInSeq(Gates, LAMBDA g : ~gate_passes(g, application))
  IN  IF failed # 0 THEN [refused |-> Gates[failed]] ELSE outcome

onboard_any_tier(bundle, application) ==
  IF \A i \in DOMAIN bundle.roles : bundle.roles[i] \notin role_catalog["register-service"]
    THEN [refused |-> "register-service"]
    ELSE FirstGateOr(application, [state |-> "listed"])

onboard(bundle, application) ==
  IF \A i \in DOMAIN bundle.roles : bundle.roles[i] \notin role_catalog["register-service"]
    THEN [refused |-> "register-service"]
  ELSE IF CredentialOf(bundle, application.operator).tier < minimum_tier("register-service")
    THEN [refused |-> "tier"]
  ELSE FirstGateOr(application, [state |-> "listed"])
=============================================================================
