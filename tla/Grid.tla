--------------------------------- MODULE Grid ---------------------------------
(***************************************************************************)
(* The functions of the grid, s13 and dppr crates: policy references, the  *)
(* commitment spine over the segments of a subject, and what a policy      *)
(* answers to a verifier at the S13 seam and to a client that retrieves.   *)
(*                                                                         *)
(* Segment ids are numbers, in the order of the map of a spine.  A hash is *)
(* the value that was hashed.  A policy object keeps the fields some code  *)
(* decides by; the canonical form sorts its lists, so they are sets.       *)
(***************************************************************************)
EXTENDS Integers, Sequences, FiniteSets

CONSTANTS
  AnyVerifier,   \* the entry "any-verifier" of a verifier list
  None           \* an absent optional value

RevealClass == {"open", "pairing-gated", "origin-sealed", "escrowed"}

-----------------------------------------------------------------------------
(* Policies.                                                               *)

PolicyRefOf(policy) == [policy_id |-> policy.policy_id, version |-> policy.version]

\* A deviation: the mark of a superseded object is not looked at.
status_by_version(policy, ref) ==
  CASE ref.policy_id # policy.policy_id -> "unknown-policy"
    [] ref.policy_id = policy.policy_id /\ ref.version # policy.version ->
         "version-drift"
    [] OTHER -> "current"

status_for(policy, ref) ==
  CASE ref.policy_id # policy.policy_id -> "unknown-policy"
    [] ref.policy_id = policy.policy_id /\ policy.superseded_by # None -> "stale"
    [] /\ ref.policy_id = policy.policy_id /\ policy.superseded_by = None
       /\ ref.version # policy.version -> "version-drift"
    [] OTHER -> "current"

-----------------------------------------------------------------------------
(* The spine.                                                              *)

\* The hash of the canonical state, under the domain of states: a state that
\* grew is another commitment.
commit_state(state) == <<"state", state>>

\* Pairing sorts the two hashes, so a node knows its children as a set.
NodeHash(l, r) == [node |-> {l, r}]
LeafHash(id, commitment) == [leaf |-> id, state |-> commitment]

Tree == INSTANCE Merkle WITH Pair <- NodeHash

\* The ids in their order: the i-th has i-1 before it.
SortedIds(commitments) ==
  LET ids == DOMAIN commitments
  IN  [i \in 1..Cardinality(ids) |->
         CHOOSE x \in ids : Cardinality({y \in ids : y < x}) = i - 1]

LeavesOf(commitments) ==
  LET ids == SortedIds(commitments)
  IN  [i \in 1..Len(ids) |-> LeafHash(ids[i], commitments[ids[i]])]

\* The root of no leaves; it is the hash of nothing.
ZeroHash == [zero |-> TRUE]

SpineOver(version, commitments) ==
  [version |-> version, commitments |-> commitments,
   root |-> IF DOMAIN commitments = {} THEN ZeroHash ELSE Tree!Root(LeavesOf(commitments))]

\* A deviation: the path starts one leaf too far.
proof_off_by_one(spine, id) ==
  LET ids == SortedIds(spine.commitments)
      pos == CHOOSE i \in DOMAIN ids : ids[i] = id
  IN  [segment_id |-> id, commitment |-> spine.commitments[id], root |-> spine.root,
       siblings |-> Tree!Path(LeavesOf(spine.commitments),
                              IF pos < Len(ids) THEN pos + 1 ELSE pos)]

\* The inclusion proof of a segment the spine holds.
proof(spine, id) ==
  LET ids == SortedIds(spine.commitments)
      pos == CHOOSE i \in DOMAIN ids : ids[i] = id
  IN  [segment_id |-> id, commitment |-> spine.commitments[id], root |-> spine.root,
       siblings |-> Tree!Path(LeavesOf(spine.commitments), pos)]

verifies_against(p, root) ==
  LET node[k \in 0..Len(p.siblings)] ==
        IF k = 0 THEN LeafHash(p.segment_id, p.commitment)
                 ELSE NodeHash(node[k-1], p.siblings[k])
  IN  node[Len(p.siblings)] = root /\ p.root = root

-----------------------------------------------------------------------------
(* The S13 seam.                                                           *)

Allowed(policy, verifier) ==
  verifier \in policy.verifiers \/ AnyVerifier \in policy.verifiers

\* An outcome is the token and the party it names, if it names one; a service of
\* an authority is the pair of its name and the suffix.
Outcome(token, party) == [outcome |-> token, party |-> party]

\* A deviation: a class sealed at its origin is treated as one that needs a pairing.
OutcomeFor_paired(policy, verifier) ==
  CASE ~Allowed(policy, verifier) -> Outcome("deny", verifier)
    [] Allowed(policy, verifier) /\ policy.reveal = "open" -> Outcome("permit", None)
    [] Allowed(policy, verifier) /\ policy.reveal \in {"pairing-gated", "origin-sealed"} ->
         Outcome("permit-paired", verifier)
    [] OTHER -> Outcome("escalation", <<policy.authority, "escrow">>)

OutcomeFor(policy, verifier) ==
  CASE ~Allowed(policy, verifier) -> Outcome("deny", verifier)
    [] Allowed(policy, verifier) /\ policy.reveal = "open" -> Outcome("permit", None)
    [] Allowed(policy, verifier) /\ policy.reveal = "pairing-gated" ->
         Outcome("permit-paired", verifier)
    [] Allowed(policy, verifier) /\ policy.reveal = "origin-sealed" ->
         Outcome("attestation-offer", <<policy.authority, "attestation">>)
    [] OTHER -> Outcome("escalation", <<policy.authority, "escrow">>)

\* The digest of a request is the request.
evaluate(request, policy, custodian) ==
  [request_digest |-> request, outcome |-> OutcomeFor(policy, request.verifier),
   governing_policy |-> policy.policy_id,
   governing_policy_version |-> policy.version, custodian |-> custodian]

-----------------------------------------------------------------------------
(* Retrieval: the class is served, or withheld with an offer.              *)

Served == [served |-> TRUE]
WithheldBy(policy, offer) ==
  [served |-> FALSE, governing_policy |-> policy.policy_id,
   governing_policy_version |-> policy.version, offer |-> offer]

\* A deviation: every class that is withheld points to the attestation service.
serve_class_one_offer(request, policy) ==
  CASE policy.reveal = "open" -> Served
    [] policy.reveal = "pairing-gated" /\ request.authorization # None -> Served
    [] policy.reveal = "pairing-gated" /\ request.authorization = None ->
         WithheldBy(policy, None)
    [] OTHER -> WithheldBy(policy, <<policy.authority, "attestation">>)

serve_class(request, policy) ==
  CASE policy.reveal = "open" -> Served
    [] policy.reveal = "pairing-gated" /\ request.authorization # None -> Served
    [] policy.reveal = "pairing-gated" /\ request.authorization = None ->
         WithheldBy(policy, None)
    [] policy.reveal = "origin-sealed" -> WithheldBy(policy, <<policy.authority, "attestation">>)
    [] OTHER -> WithheldBy(policy, <<policy.authority, "escrow">>)

-----------------------------------------------------------------------------
(* The route a verifier took, and the report it replays to.                *)

\* The entries of the classifying steps, in the order they were taken; every other
\* step (a stated gap stands for them here) carries no entry.
IsClassify(step) == step.step = "classify"
Classified(route) ==
  LET seen[n \in 0..Len(route)] ==
        IF n = 0 THEN << >>
        ELSE IF IsClassify(route[n]) THEN Append(seen[n-1], route[n].entry)
                                     ELSE seen[n-1]
  IN  seen[Len(route)]

replay(route, subject) ==
  [subject |-> subject, route |-> route, entries |-> Classified(route)]

=============================================================================
