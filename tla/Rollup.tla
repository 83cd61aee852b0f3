-------------------------------- MODULE Rollup --------------------------------
(***************************************************************************)
(* Roll-up attestations: a parent commits to the ordered set of children   *)
(* it aggregates over, while the children go on to be revised, units go on *)
(* to be registered, and verifiers check the attestation, or one member,   *)
(* against what they list themselves.                                      *)
(*                                                                         *)
(* Passport ids are numbers, in the order of the ids.  A hash is the value *)
(* that was hashed; a leaf covers the printed amount and the uom.          *)
(***************************************************************************)
EXTENDS Quantity, FiniteSets

CONSTANTS
  Passports,     \* ids of the children: numbers
  Labels,        \* the data points that are aggregated
  Measured,      \* the quantities a child may declare
  Initial,       \* the labelled quantities the children may start with
  Listings,      \* the ways children are listed, as sequences of their ids
  Definitions,   \* the unit definitions anybody may register
  SeedRegistry,  \* the registry to start with
  MaxRevisions,  \* bound on the revisions and new events of all children
  MaxAttests     \* bound on the attestations made

\* The labelled quantities a child may declare.
Declared == UNION {[ls -> Measured] : ls \in SUBSET Labels}

\* Amounts are decimals, and the factors of units may be divided by.
ASSUME RollupConstantsOK ==
  /\ Passports \subseteq Nat /\ IsFiniteSet(Passports)
  /\ MaxRevisions \in Nat /\ MaxAttests \in Nat
  /\ Listings \subseteq Seq(Passports)
  /\ \A q \in Measured : IsQuantity(q)
  /\ Initial \subseteq [Passports -> Declared]
  /\ \A u \in DOMAIN SeedRegistry : IsFactor(SeedRegistry[u])
  /\ \A d \in Definitions : d.def.num \in Int /\ d.def.den \in Int

VARIABLES
  registry,      \* UnitRegistry
  docs,          \* each child: version, state hash and labelled quantities
  attestation,   \* the last RollupAttestation, or Err before the first
  covered,       \* the traversal set it was built over (history)
  attests        \* how many were made

rvars == <<registry, docs, attestation, covered, attests>>

-----------------------------------------------------------------------------
(* Traversal sets.                                                         *)

MemberOf(p) == [passport |-> p, version |-> docs[p].version,
                state_hash |-> docs[p].state_hash, quantities |-> docs[p].quantities]

\* A listing of members becomes a set in the order of the ids, or is refused.
TraversalSet(members) ==
  IF \/ members = << >>
     \/ \E i, j \in DOMAIN members : i # j /\ members[i].passport = members[j].passport
    THEN Err
    ELSE [k \in 1..Len(members) |-> members[CHOOSE i \in DOMAIN members :
            Cardinality({j \in DOMAIN members : members[j].passport < members[i].passport})
              = k - 1]]

LeafHash(member) ==
  [leaf |-> [member EXCEPT !.quantities =
     [l \in DOMAIN member.quantities |->
        [amount |-> text(member.quantities[l].amount), uom |-> member.quantities[l].uom]]]]
NodeHash(l, r) == [left |-> l, right |-> r]

Tree == INSTANCE Merkle WITH Pair <- NodeHash

LeavesOf(set) == [i \in DOMAIN set |-> LeafHash(set[i])]
root(set) == Tree!Root(LeavesOf(set))

\* Indices count from 0, as in the code.
inclusion_proof(set, index) == Tree!Path(LeavesOf(set), index + 1)

\* A deviation: the sibling is always taken for the right one.
verify_inclusion_left(member, index, set_size, proof, r) ==
  LET node[k \in 0..Len(proof)] ==
        IF k = 0 THEN LeafHash(member) ELSE NodeHash(node[k-1], proof[k])
      size[k \in 0..Len(proof)] == IF k = 0 THEN set_size ELSE Tree!HalfUp(size[k-1])
  IN  size[Len(proof)] = 1 /\ node[Len(proof)] = r

verify_inclusion(member, index, set_size, proof, r) ==
  LET place[k \in 0..Len(proof)] == IF k = 0 THEN index ELSE place[k-1] \div 2
      node[k \in 0..Len(proof)] ==
        IF k = 0 THEN LeafHash(member)
        ELSE IF place[k-1] % 2 = 0 THEN NodeHash(node[k-1], proof[k])
                                   ELSE NodeHash(proof[k], node[k-1])
      size[k \in 0..Len(proof)] == IF k = 0 THEN set_size ELSE Tree!HalfUp(size[k-1])
  IN  size[Len(proof)] = 1 /\ node[Len(proof)] = r

-----------------------------------------------------------------------------
(* Attestations.                                                           *)

LabelsIn(set) == UNION {DOMAIN set[i].quantities : i \in DOMAIN set}

\* The quantities of the members that have a label, in the order of the set.
Contributions(set, label) ==
  LET found[k \in 0..Len(set)] ==
        IF k = 0 THEN << >>
        ELSE IF label \in DOMAIN set[k].quantities
               THEN Append(found[k-1], set[k].quantities[label]) ELSE found[k-1]
  IN  found[Len(set)]

\* The sum of every label on any member, or one error.
aggregate_set(set, units) ==
  LET sums == [l \in LabelsIn(set) |-> sum(Contributions(set, l), units)]
  IN  IF \E l \in DOMAIN sums : sums[l] = Err THEN Err ELSE sums

\* The fields the signature covers.
canonical_body(a) ==
  [traversal_set_root |-> a.traversal_set_root, member_count |-> a.member_count,
   aggregates |-> [l \in DOMAIN a.aggregates |->
     [amount |-> text(a.aggregates[l].amount), uom |-> a.aggregates[l].uom]]]

\* The attestation with its signature slot filled over the body.
build(set, units) ==
  LET aggregates == aggregate_set(set, units)
      unsigned   == [traversal_set_root |-> root(set), member_count |-> Len(set),
                     aggregates |-> aggregates, signature |-> Err]
  IN  IF aggregates = Err THEN Err
      ELSE [unsigned EXCEPT !.signature = canonical_body(unsigned)]

AggregatesAgree(attested, computed) ==
  /\ DOMAIN attested = DOMAIN computed
  /\ \A l \in DOMAIN attested : eq_qty(attested[l], computed[l])

\* A deviation: the root is taken from the attestation.
verify_rollup_trusting(a, set, units) ==
  LET computed == aggregate_set(set, units)
  IN  CASE a.member_count # Len(set) -> "member-count-mismatch"
        [] computed = Err \/ ~AggregatesAgree(a.aggregates, computed) ->
             "aggregate-mismatch"
        [] a.signature # canonical_body(a) -> "signature-rejected"
        [] OTHER -> "verified"

verify_rollup(a, set, units) ==
  LET computed == aggregate_set(set, units)
  IN  IF a.traversal_set_root # root(set) THEN "root-mismatch"
      ELSE IF a.member_count # Len(set) THEN "member-count-mismatch"
      ELSE IF computed = Err THEN "aggregate-mismatch"
      ELSE IF ~AggregatesAgree(a.aggregates, computed) THEN "aggregate-mismatch"
      ELSE IF a.signature # canonical_body(a) THEN "signature-rejected"
      ELSE "verified"

-----------------------------------------------------------------------------
(* Children, registries and attesters.                                     *)

RInit ==
  /\ registry = SeedRegistry
  /\ \E quantities \in Initial :
       docs = [p \in Passports |-> [version |-> 1, state_hash |-> 0,
                                    quantities |-> quantities[p]]]
  /\ attestation = Err /\ covered = << >> /\ attests = 0

Register(uom, def) ==
  LET outcome == register(registry, uom, def)
  IN  /\ outcome # Err /\ outcome # registry
      /\ registry' = outcome
      /\ UNCHANGED <<docs, attestation, covered, attests>>

Revisions == {p \in Passports : docs[p].version > 1 \/ docs[p].state_hash > 0}

\* A child declares other quantities in a new version of its document.
Revise(p, quantities) ==
  /\ Cardinality(Revisions) < MaxRevisions /\ docs[p].version = 1
  /\ docs' = [docs EXCEPT ![p].version = @ + 1, ![p].quantities = quantities]
  /\ UNCHANGED <<registry, attestation, covered, attests>>

\* An event is appended to the log of a child.
Advance(p) ==
  /\ Cardinality(Revisions) < MaxRevisions /\ docs[p].state_hash = 0
  /\ docs' = [docs EXCEPT ![p].state_hash = @ + 1]
  /\ UNCHANGED <<registry, attestation, covered, attests>>

\* The attester lists children, in any order, builds and signs.
Attest(listing) ==
  LET set == TraversalSet([i \in DOMAIN listing |-> MemberOf(listing[i])])
  IN  /\ attests < MaxAttests /\ set # Err
      /\ attestation' \in {build(set, registry)} \ {Err}
      /\ covered' = set /\ attests' = attests + 1
      /\ UNCHANGED <<registry, docs>>

RNext ==
  \/ \E d \in Definitions : Register(d.uom, d.def)
  \/ \E p \in Passports : Advance(p) \/ \E qs \in Declared : Revise(p, qs)
  \/ \E listing \in Listings : Attest(listing)

RSpec == RInit /\ [][RNext]_rvars

-----------------------------------------------------------------------------
(* Properties.                                                             *)

Attested == attestation # Err
Set(listing) == TraversalSet([i \in DOMAIN listing |-> MemberOf(listing[i])])
SetsNow == {Set(listing) : listing \in Listings} \ {Err}
Amounts ==
  (UNION {{docs[p].quantities[l].amount : l \in DOMAIN docs[p].quantities} : p \in Passports})
  \cup (IF Attested THEN {attestation.aggregates[l].amount :
                           l \in DOMAIN attestation.aggregates} ELSE {})

\* A verified roll-up is over exactly the set that was attested: a revised
\* child, another event, a missing or an extra member is noticed, and so is an
\* attestation rewritten to fit the other set under the old signature.
VerifiedMeansCovered ==
  \A set \in SetsNow :
    LET rewritten == build(set, registry)
        forged    == [rewritten EXCEPT !.signature = attestation.signature]
    IN  /\ Attested /\ verify_rollup(attestation, set, registry) = "verified"
             => set = covered
        /\ Attested /\ rewritten # Err /\ verify_rollup(forged, set, registry) = "verified"
             => set = covered

\* An attestation keeps verifying against its set, whatever units are
\* registered later.
AttestationStands ==
  Attested => verify_rollup(attestation, covered, registry) = "verified"

\* Each aggregate is the exact sum over the members, in canonical units, with
\* no place lost to conversions and no wrap-around.
Exact(q) == (Value(q.amount) * registry[q.uom].num * 10) \div registry[q.uom].den
AggregatesExact ==
  \A l \in (IF Attested THEN DOMAIN attestation.aggregates ELSE {}) :
    LET qs    == Contributions(covered, l)
        total == attestation.aggregates[l]
    IN  total.uom \in DOMAIN registry =>
          Exact(total) = SumFunction([i \in DOMAIN qs |-> Exact(qs[i])])

\* Every member of a set can be spot-checked with its own proof, for every set
\* size, levels of odd length included.
SpotChecksComplete ==
  \A set \in SetsNow : \A i \in DOMAIN set :
    verify_inclusion(set[i], i - 1, Len(set), inclusion_proof(set, i - 1), root(set))

\* Whatever proof, index and size it comes with, a spot check against the
\* attested root only passes for a member of the attested set.  (The index is not
\* bound: the last member of an odd level also passes at the place of its copy.)
SpotChecksSound ==
  Attested =>
    LET full    == Set(SetToSeq(Passports))
        proofs  == {inclusion_proof(covered, i - 1) : i \in DOMAIN covered}
                   \cup {inclusion_proof(full, i - 1) : i \in DOMAIN full}
        members == {MemberOf(p) : p \in Passports} \cup {covered[i] : i \in DOMAIN covered}
    IN  \A member \in members, index \in 0..Len(covered),
           size \in Len(covered) - 1 .. Len(covered) + 1, proof \in proofs :
          verify_inclusion(member, index, size, proof, attestation.traversal_set_root)
            => \E i \in DOMAIN covered : covered[i] = member

\* Spot checks pass for the members of the attested set, and only for them.
SpotChecksExact == SpotChecksComplete /\ SpotChecksSound

\* A conversion is exact or refused: the result compares equal and converts
\* back to the same quantity, the lower bound of the mantissa included.
ConversionsExact ==
  \A q \in Measured, u \in DOMAIN registry :
    LET there == convert_to(q, u, registry)
    IN  there # Err =>
          /\ cmp_qty(q, there, registry) \in {0, Err}
          /\ \/ convert_to(there, q.uom, registry) = Err
             \/ eq_qty(convert_to(there, q.uom, registry), q)

\* Sums and products are exact or refused.  So are differences, and what was added
\* in another unit can be taken away again, unless what is taken away sits on the
\* lower bound: its negation wraps around, and taking it away adds it
\* (quantity.rs:320, :341, decimal.rs:121, :164).
OperationsExact ==
  /\ \A a, b \in Amounts :
       /\ add(a, b) # Err => Value(add(a, b)) = Value(a) + Value(b)
       /\ sub(a, b) # Err =>
            Value(sub(a, b)) = Value(a) + (IF b.mant = Lowest THEN Value(b) ELSE -Value(b))
       /\ mul(a, b) # Err => Value(mul(a, b)) * TenTo[MaxExp] = Value(a) * Value(b)
  /\ \A q, r \in Measured :
       LET total == plus(q, r, registry)
       IN  total # Err /\ r.amount.mant # Lowest =>
             minus(total, r, registry) = Err \/ eq_qty(minus(total, r, registry), q)

\* Both are negative, and the magnitude of just one of them wraps around.
OneWraps(a, b) ==
  a.mant < 0 /\ b.mant < 0 /\ (a.mant = Lowest) # (b.mant = Lowest)

\* Amounts are equal exactly when they stand for one number, whatever their
\* exponents, and other than zero they then hash alike.  They are ordered as those
\* numbers, but for a negative amount beside one on the lower bound, whose magnitude
\* wraps around (decimal.rs:135).
OrderIsOfValues ==
  \A a, b \in Amounts :
    /\ eq(a, b) <=> Value(a) = Value(b)
    /\ eq(a, b) /\ a.mant # 0 => hash(a) = hash(b)
    /\ cmp(a, b) = Sign(Value(a) - Value(b)) \/ OneWraps(a, b)

\* A printed amount is read back as the same number or refused, and it is refused
\* only when trailing zeros take it beyond the width or it is the lower bound, which
\* prints two signs (decimal.rs:243).
TextIsOfValues ==
  \A a \in Amounts :
    /\ parse(text(a)) = Err \/ eq(parse(text(a)), a)
    /\ a.exp <= 0 => (parse(text(a)) = Err <=> a.mant = Lowest)

\* Units that were registered have a factor that divides, and every amount that a
\* document or an attestation holds is within the width and the exponents.
FactorsAndWidths ==
  /\ \A u \in DOMAIN registry : IsFactor(registry[u])
  /\ \A d \in Amounts : IsDecimal(d)

\* Amounts near the width of the mantissa, in any registered unit, are converted,
\* calculated with, ordered, hashed and printed as the numbers they stand for, or
\* refused; on the lower bound itself the negation, the order among negative amounts
\* and the text are not, in the ways stated above, and nothing else is lost
\* (decimal.rs:121, :135, :155, :173, :243, quantity.rs:272).
ArithmeticExact ==
  /\ FactorsAndWidths /\ ConversionsExact /\ OperationsExact
  /\ OrderIsOfValues /\ TextIsOfValues

=============================================================================
