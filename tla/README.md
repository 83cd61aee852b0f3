# Verification of unidpp-core

TLA+ models of the core of `unidpp-core`, a Rust library for digital product
passports, with TLC runs over small instances and TLAPS proofs for all
instances. Paths are those of the repository, under `src/crates/`.

## 1. The system

The library is a set of pure crates. It has no threads, no I/O, no scheduler
and no network: state lives in values (`EventLog`, `SaltStore`,
`ProvenanceGraph`, `Spine`, `Mirror`, ...) that callers own, hand around as
serialized copies, and change by calling methods. The hard behaviour is in what
happens *between* the calls, and to the copies.

| component | crate | state | operations |
|---|---|---|---|
| event log | `event` | `EventLog.sealed`, a hash chain; `SaltStore.salts` | `TypedEvent::new`, `append`, `remember`; `verify`, `verify_with_salts`, `verify_against_anchor`; `as_of`, `state_hash_at`, `current_status`, `safety_flag`, `custodian` |
| verdict | `verdict`, `model/trust` | none; reads a log and evidence | `evaluate_freshness`, the readings, `VerdictBuilder::build` |
| material | `transform` | live amounts, kept by callers | `split`, `combine`, unit registry, exact conversion |
| provenance | `transform` | `ProvenanceGraph` in two maps, a taint index | `record_split`, `record_combine`, `recall_set`, `taints_of` |
| roll-ups | `transform/rollup` | a traversal set and its attestation | `root`, `inclusion_proof`, `verify_inclusion`, `build`, `verify_rollup` |
| grid | `grid` | segments, policy versions, spines | `Spine::over`, `proof`, `proves_prefix`, `status_for` |
| seam and retrieval | `s13`, `dppr` | routes, coverage reports | `evaluate`, `compose`, `replay`, retrieval |
| registry | `semantics` | mirrors, mapping chains, credentials | `onboard`, `authorize`, `sync`, `federate_peers`, `then`, `apply_deterministic` |
| subject record | `semantics` | segments and their keys, archival packages, productness ledgers | `intake`, `minimization_ok`, `erase_by_shredding`, `export`, `refresh_media`, `record`, `classify_re_entry`, `resolve`, `get` |
| carrier | `tier_a` | the card that was printed | `from_log`, `encode`, `decode`, `pack` |
| values | `model` | none | decimals, times, links, facts, identifiers |
| demo | `unidpp-demo` | local to each script | fixed scripts over the other crates |

How they interact. An author (a custodian, a repairer, a recycler) reads a log,
builds an event with the next sequence number and appends it; a salted event
leaves a salt the author has to store by itself. The head of the log is witnessed
by a transparency log outside the library. A verifier receives a copy of the
log, perhaps the witnessed head, perhaps signatures and a profile, and builds a
verdict. Transforms compute new amounts from what the caller says is available,
the caller applies the outcome and records the edges in a provenance graph, and
recalls and taints are read off that graph later.

What is hard, by component, and what makes it correct:

* **event log**: readings that are stale when the event built from them is
  appended; a salt lost between two calls; dates out of order. Correct when the
  log it produces always verifies, an event was decided by somebody who had read
  all before it, salts stay with their entries, and views of the past settle.
* **copies and anchors**: truncated, edited, forked and outdated copies. Correct
  when a copy that passes against the anchor is the witnessed history.
* **verdict**: several defects at once, future dates, missing evidence. Correct
  when a pass is only given with the evidence it stands for.
* **material and provenance**: long chains of steps, refused requests, taints
  raised late. Correct when nothing is created or overdrawn and recalls and
  taints reach exactly what they must.

* **roll-ups**: children that are revised after the attestation, odd levels of the
  tree, amounts near the width of the mantissa. Correct when an attestation
  verifies for the set it was built over and for no other, and its sums are exact.
* **grid, seam, retrieval**: policies superseded while others act on older
  objects. Correct when what was pinned, cited or reported can be checked against
  what is published, and old versions show.
* **registry**: mirrors that receive versions in any order, chains kept while
  items change. Correct when a version is what its origin published, is served for
  good once it was mirrored, and a chain is what its recorded versions compose to.
* **subject record**: facts that arrive between sealing and erasing, media that
  decay in any part of a package. Correct when what must go is gone, what must stay
  proves, and decay shows where the code can tell it.
* **carrier**: cards sized before they are signed and read after the log went on.
  Correct when every form fits, reads back if its dates can be read at all, and shows
  one prefix of the log.

The hazards are listed one by one, at their lines, in `PROJECT.json`.

## 2. Modules

| module | what it is |
|---|---|
| `EventChain` | values and pure functions of the `event` crate |
| `Ledger` | what the log promises: an atomic list |
| `EventLog` | a log and a salt store under several authors |
| `WitnessedLog` | `EventLog` with a witness and a verifier's copy |
| `Verdict` | functions of the `verdict` crate |
| `Verification` | `WitnessedLog` with a clock and verdicts on the copy |
| `Transform` | functions of the `transform` crate |
| `MaterialFlow` | callers that issue, split, combine and taint |
| `Merkle` | trees with odd nodes paired with themselves, for `rollup` and `grid` |
| `Decimal`, `Quantity` | checked decimals; the unit registry and quantities |
| `Rollup` | children that are revised, attesters and verifiers of roll-ups |
| `Grid` | functions of the `grid`, `s13` and `dppr` crates |
| `GridSeam` | custodians, an authority, readers and verifiers around one policy |
| `Mapping`, `Operators` | chains and the composition law; roles, onboarding |
| `Registry` | peers that publish, mirror and compose |
| `Units`, `Lookup`, `Lifecycle` | functions of the other `semantics` files |
| `SubjectRecord` | the life of one subject's record |
| `Calendar`, `Identifier`, `TierA` | timestamps, identifiers, the card format |
| `Carrier` | `EventLog` with an operator that prints and signs cards |
| `MC...` | values of the constants for TLC, one per run module |
| `InductionProofs`, `MerkleProofs` | theorems about sets, sums and trees that the others rest on |
| `VerificationProofs` | theorems of `EventLog`, `WitnessedLog`, `Verification` and of the cards of `Carrier` |
| `TextProofs` | theorems of `Calendar` and `Identifier`, and of the texts of `Carrier` |
| `MaterialFlowProofs`, `RollupProofs`, `RegistryProofs` | theorems of `MaterialFlow`, `Rollup`, `Registry` |
| `GridProofs` | theorems of `GridSeam` and `SubjectRecord` |

`EventLog` extends `EventChain` and instantiates `Ledger` as its abstraction;
`WitnessedLog` and `Carrier` extend `EventLog`; `Verification` extends
`WitnessedLog` and `Verdict`; `MaterialFlow` extends `Transform`; `Rollup` and `Grid`
instantiate `Merkle`, each with its own way to hash a pair; `SubjectRecord`
extends `Lifecycle`, which extends `Grid` for its spine, and instantiates `Units` and
`Verdict`; `Registry` extends `Mapping` and `Operators`.

### From code to model

* A log is a sequence of records with the fields of `SealedEvent`; entry `i`
  of the sequence is element `i-1` of the `Vec`.
* SHA-256 is an injective constructor: a commitment is the record of what was
  hashed (body, previous commitment, salt). The canonical body is the whole
  typed event, so the event stands for it. Actor and trust marker, which the
  body also covers, are not told apart.
* A payload has a type, which stands for the event class that `TypedEvent::new`
  forces to agree with it, and the fields a replay reads.
* Recording an event is four calls. `Prepare` is reading the log and
  `TypedEvent::new`; `AppendEvent` and `RefuseEvent` are the two outcomes of
  `append`; `Remember` is `SaltStore::remember`; `LoseSalt` is the author that
  fails before it. Calls of different authors interleave freely. The history
  variable `grounds` keeps, for every entry, what its author had read.
* `Witness` is external. `Serve` is the log serialized and read back,
  `Truncate` is `truncate_for_test`, `EditInPlace` is the edit of a serialized
  copy that the tests perform, `Fork` is `append` on a copy.
* A verdict changes nothing, so `Verification` has no action for it: the
  properties quantify over every piece of evidence in every state. Taints,
  status and links are reported beside the outcome and do not enter it.
* A quantity is an integer of the canonical unit of its dimension, because
  conversion is exact or an error. The errors of `split` and `combine` are one
  value, `Refused`, and a refused call changes nothing.
* The worklist of `ProvenanceGraph::walk` is given by what it has seen when it
  runs empty: the least set closed under the adjacency.
* `MaterialFlow` follows the callers of the crate: the chain of
  `transform/tests/property_conservation.rs` (issue, then splits and combines on
  the live amounts, with new ids handed out in order) and the taints and recalls
  of the battery loop. Its history variable `lineage` is the set of passports
  whose material is in a passport, kept without the graph. Requests that must be
  refused (negative carve-outs, wrong dimension, too much) are enumerated too.
* `Decimal` keeps the mantissa within a width that is a parameter (eight bits in
  the run, 128 in the code). Sums, products and scalings refuse exactly where the
  code's checked operations do. Negation and absolute value are not checked
  (`model/src/decimal.rs:115`, `:123`): at the lowest mantissa they wrap around to it
  (`negated`, `magnitude`), as a release build does, and with them differences, the
  order of negative amounts and the text. A build with overflow checks stops there
  instead. The lowest mantissa is no multiple of ten (`DecimalConstantsOK`), as that of
  an `i128` is not.
* A Merkle hash is the value hashed; the spine sorts a pair, so its node is a set
  of children, and the roll-up does not.
* `GridSeam`: `held` is the policy object a reader fetched last, together with
  what was newest then (for the properties only). An authority marks a version as
  superseded and publishes its successor in one step. An answer is recorded with the
  request it answers, which stands for its digest. What is offered in place of a class
  is a service, the pair of its authority and its suffix: the seam and the retrieval
  interface put `{authority}-attestation` and `{authority}-escrow` together each for
  itself (`s13/src/lib.rs:183`, `:186`, `dppr/src/lib.rs:196`, `:203`).
* A verifier records steps of a route. The code lets it put down any entry, so what it
  may claim is modelled (`Evidence`, external): having seen a class that it was let
  see, an attestation that it was offered, or, of any answer, that there is no evidence
  it accepts (`ExplicitlyUnavailable`). A stated gap is a step without an entry and
  stands for the other steps that carry none.
* `Registry`: an item travels twice, under its version and as the floating item of
  the newest one, because `StableId::version` is optional and a mirror keys by
  URI. A peer that is listed keeps its credential. An origin publishes one content for
  a version; one that sent a version again with another would have it replaced, as
  `Mirror::sync` inserts without a look at what is there, although its comment says
  "never rewrites" (`semantics/src/federation.rs:46`).
* The medium of an archival package may alter each of its parts once (`Decay`): the
  core state loses a fact or gets one, the subject becomes another, the manifest a hash
  of nothing. The parts decay in any order, before and after refreshes.
* Amounts of `Units` are integers on which the operations are exact; the code uses
  `f64`, whose rounding is not modelled, nor are negative uncertainties. A clock's drift
  is above the lowest `i64`, whose absolute value overflows
  (`semantics/src/lifecycle.rs:179`).
* The questions of `SubjectRecord` and `Carrier`: a function that neither reads nor
  changes the state is asked in an initial state of its own (`asked`), from which
  nothing happens, so that every input is enumerated once.
* In `Identifier` a text is the sequence of what stands between its plus signs, each
  the sequence of what stands between colons: what the parser splits at is kept,
  characters are not. In `TierA` bytes are the sequence of the fields they frame,
  with the number of bytes of each, because fitting a symbol is about lengths. A local
  tag that has a colon in it is outside this abstraction.
* The dates of a card are printed when it is encoded and parsed when it is decoded,
  with the texts of `Calendar`. Events are dated by whole days; the validity of a card
  is a pair of instants. The length of a year is that of its digits, up to nine.
* Operators marked "deviation" are variants of the operator after them. No
  specification uses them; they show that a property notices such a change.

## 3. Runs

| run | question | bounds |
|---|---|---|
| `event_log` | do log and salt store verify under all interleavings, do honest claims stay true, and is the log an atomic `Ledger`? | 2 authors, 2 salts, 3 entries, 13 payloads |
| `verification` | what are an anchored copy and a pass worth; does waiting ever help; does a past reading stand? | 2 entries, 1 salt, 1 edit per copy, dates 0 and 2, clock to 2, every evidence |
| `material_flow` | conservation, availability, recalls and taints | 4 passports, 2 parts per step, amounts -1..2, 2 dimensions, 1 taint |
| `rollup` | do attestations, spot checks and arithmetic hold against revised children and new units? | 5 children, 11 listings, 9 amounts, one of them the lowest, mantissa -128..127, 1 revision, 1 attestation |
| `grid_seam` | is everything pinned, cited, offered or reported checkable after a supersession? | 3 segments, 2 versions, 2 terms, 1 spine, 1 answer, routes of 2 steps |
| `registry` | are mirrors and chains faithful in any order of arrival, and does a version stay served? | 2 peers, 2 pairs, 5 kinds, 3 publications, chains of 2 |
| `subject_record` | erasure, archiving on media that decay, and the questions of units, labels, links and clocks | 2 segments, 2 notes, 5 offers, 2 spines, 2 refreshes, 2 records |
| `carrier` | do cards fit, read back and show one prefix of the log; do views and the flag stand? | 3 entries, events of 1970 and of the year before 0000, 6 orders with up to 2 slots and ends up to the year 10000, the questions of texts |
| `event_log_as_of` | *violated*: the as-of view holds all that had occurred | 2 entries |
| `salted_edit` | *violated*: any edit in place breaks `verify` | 2 entries, 1 salt |
| `material_flow_twice` | *violated*: `combine` checks availability | inputs listed freely |
| `registry_no_mapping` | *violated*: no path through a tier-3 edge is composed | 2 peers, 2 publications |

The properties with several parts (`ProofsExact`, `VersionsPinned`, `SpotChecksExact`,
`ArithmeticExact`, `ChainsExact`, `RightsMatchCatalog`, `ErasureExact`,
`MeasurementsSound`, `LookupsFit`, `TextsReadBack`) are conjunctions of named
invariants, each with its own comment in the module.

Why the bounds are enough. Two authors show every race of a stale reading
against an append; a third entry lets a stale author be two behind. A status
change is judged from the status the prefix replays to, and three entries
put every two changes of the run's payloads one after the other. Forks, edits and
truncations differ from the witnessed log at the head or before it, which two
entries tell apart; the proofs lift this to any length. Dates 0 and 2 with a
window of 1 and a clock from 0 to 2 give an age below, inside and beyond the
window and dates in the future. Four passports are enough for a combine of two
split or issued passports, a split of the result, and a diamond in the graph.
Amounts to 2 give empty, partial and complete use, and -1 the refused ones.
Sets of one to five children give trees with no, one and two odd levels; the
amounts reach the width of eight bits by addition and by conversion, so every
overflow check is met from both sides. Two versions of a policy give a pin and an
object each older, equal and newer than the other; three segments give a spine
with a dangling leaf. Two steps of a route put a gap before and behind an entry, and a
report between them; the open and the escrowed terms enter through `SeamsAgree`, which
asks about every reveal class. Three publications over two pairs give two versions of one
item that arrive in either order, with the floating item between them. Two seals
put a fact before, between and after a seal and an erasure. The orders for cards
are sized to fit with and without their signatures, only without, and not at all, and
end in 1970, with the last second of 9999, with the first of 10000, or never;
the days asked for surround the leap days and ends of the years 0000, 1900, 1970,
2000, 2100 and 9999.

All runs switch the deadlock check off: a log at `MaxLen` or a flow that used
its passports stops, as the bounds say it must.

**Liveness.** The library has no scheduler, no retries and no timeouts: an author
may stop between any two calls, and nothing ever has to be appended, witnessed,
split, published or mirrored. `federate_peers` (`semantics/src/onboarding.rs:238`) is
one loop over the items its caller hands in, and nothing calls it again for what is
published later. No specification therefore assumes fairness, and no property says
that something happens in the end. What the code does give is a matter of steps, and
`VersionsStayServed` states it: a version that is served stays served whatever arrives
after it, and one exchange brings each of the two peers every version that the other
had published by then. Its exception is for a third peer, whose items an exchange of
two drops, because `federate_peers` fills new mirrors; with two peers, as in the run, the
exception is empty, and the proof is for any number.

### What the violations show

* `EventLog::as_of` stops at the first entry dated later, and `append` does not
  order dates, so the view at `t` is not "all events that had occurred by `t`"
  (`event/src/log.rs:187`). What does hold is `SettledViewsStay`: once the log
  reaches past `t`, the view at `t` never changes again.
* `EventLog::verify` cannot detect an edited salted entry, though the module's
  documentation promises it for "any historical event" (`event/src/log.rs:3`).
  `AnchoredCopyIsGenuine` therefore speaks of unsalted copies, and
  `AnchoredCopyIsGenuineToOwner` of the owner's salts. `PassIsGenuine` carries
  the same restriction: a pass on a copy with salted entries does not rule out
  that their events were edited.
* `combine` compares each input with the available amount by itself
  (`transform/src/combine.rs:95`): listing a passport twice overdraws it. The
  callers in the repository never do (`Careful = TRUE`), and then
  `NothingOverdrawn` holds. The dimension of the available amount is not
  compared either.
* `MappingChain::single` makes a chain of a declared no-correspondence and `then`
  looks at the next hop only, so a path that begins with one is composed, although
  "any tier-3 edge in a path refuses the whole composition"
  (`semantics/src/mapping.rs:17`). `apply_deterministic` still refuses such a chain
  (`ChainsApply`).

Weaknesses the properties had to be stated around: the index of a spot check is not
bound by the root (`SpotChecksSound`); an identifier whose scheme and serial
disagree, or whose lot or serial contains a plus sign, prints as another one
(`RoundTripExact` says exactly when); a year beyond 9999 does not read back, so a card
with such a date is packed, signed and printed, and no reader can decode it
(`CardReadsBack`); the lowest mantissa has no negation (`OperationsExact`,
`OrderIsOfValues`, `TextIsOfValues`); the manifest of an archival package covers its core
state only, so an altered subject verifies and shows in a render alone, and an altered
manifest condemns a state that is intact (`ArchiveTellsDecay`).

A linkset is looked up under six contexts in a fixed order: the language is widened
before the role, the region only with both, the profile last
(`semantics/src/resolution.rs:92`). The header of that file (`:9`) and the comment at `:68`
have each dimension fall back by itself; a linkset that is keyed by the exact role in
any region fits a request and is not reached. `LinksFit` states what is served, and says
of these contexts that they never are; the run enumerates them. A label falls back to
English and then to any label (`semantics/src/multilingual.rs:136`), and `LabelsFound`
asks for tags under which there is none.

## 4. Proofs

The theorems hold for every set of authors, payloads, dates, salts, evidence,
children, segments, peers, orders, amounts and questions and for every bound. Every
invariant of the passing runs is stated by one of them; so is every action property
and the refinement.

**Groundwork.** No proof uses an induction theorem that takes an operator as a
parameter. `InductionProofs` states induction over sets instead: a set of naturals
that holds 0 and with every number its successor is all of them
(`NatSetInduction`), and the same for finite sets, from the well-foundedness facts of the
library. On it rest that a finite set of integers has a greatest member, that
recursive functions over naturals exist, and the laws of sums over a finite set
(`SumOver`, the form the folds of the models are shown to have).

`MerkleProofs` is about trees with odd nodes paired with themselves, for any way to
hash a pair: every level has the length halving gives it, a path has the height's
length, recomputing a path gives the root, and, where the hash of a pair tells the
pair, two trees with one root have the same leaves or differ in height. It is
instantiated by `GridProofs` (a pair is a set) and `RollupProofs` (a pair is ordered).

**`VerificationProofs`.**

* *The log.* `IInv` strengthens the properties to something inductive: each entry
  is *chained* (number, back pointer, a commitment over both with a salt that is
  there exactly when the entry says so); the store *and the salts not yet
  remembered* match the entries they refer to; a draft carries a prefix of the log
  and the number after it; so does every entry's history. None of the checked
  invariants is inductive alone: that the log verifies needs to know how each entry
  was made, and that the store matches needs the unsaved salts. From it:
  `TypeCorrect`, `ChainAlwaysVerifies`, `StoreAlwaysMatches`, `OwnerAlwaysVerifies`, the
  refinement `LedgerImplemented`, and `HonestClaimsAlwaysHold`, which adds lemmas on
  replays: they depend only on the events, and a status change at the end decides
  the status. `SettledViewsAlwaysStay` and `FlagNeverClearedBySteps` are about steps:
  the log only grows, and the view at a time ends before the first event after it
  (`AsOfLenSettled`), so whatever comes behind that event does not count.
* *Copies.* `SameHeadSameEvents`: two logs whose commitments cover their events and
  predecessors and whose heads agree record the same events (at the last position
  where they differ, the next commitment covers both). With it, anchored copies are
  genuine whatever was done to them.
* *Verdicts.* `PassAlwaysGenuine` walks down the ladder and combines the rungs with
  the previous theorem; it needs that all dates are times. `DiligenceAlwaysStands` adds
  that the log still begins with what was witnessed and reads copy and log up to the
  same place. `VerdictsAlwaysOnlyWeather`: of the rungs only freshness looks at the
  clock, and the one thing time does to it is to turn fresh into stale, which ranks
  above no failure and below no pass.
* *Cards.* `KInv` says that a card shows some prefix of the log, which gives
  `CardsAlwaysProveLog`: later events only lengthen the log, and the severity of the
  flag only rises. `FInv` says that the payload was packed with the budget of its
  fully signed form, so filling a slot changes neither the symbol nor the budget
  (`SignedAlwaysFits`). `CardsAlwaysReadBack` decodes what encoding laid out, field by
  field, and by `InstantsReadBack` of `TextProofs` it says of every card whether it reads
  back: its payload if all its dates have years of four digits, and nothing otherwise.
  The last two are stated under hypotheses: a refusal is no record of bytes
  (`InvalidApart`, true of a model value), and for reading back that ordered ids read
  back from their text and orders have at most 255 slots (`OrdersReadBack`: beyond
  that the code drops slots without an error, which is listed as a hazard).

**`MaterialFlowProofs`.** `MInv` relates what was consumed, what is live and what
was issued; `FlowTypesAlwaysHold` follows, and by the laws of sums
`MatterAlwaysConserved` and `NothingEverOverdrawn`. These two have the hypothesis
`Careful`, that callers list each input once and in its dimension; the run
`material_flow_twice` shows that it is needed. For
`RecallAlwaysExact` and `TaintsAlwaysMatchRecall` the invariant says that an edge leads
from a member of the lineage, that lineages are transitively closed, and that any
set closed under the adjacency and holding the neighbours of a passport holds its
whole offspring (its whole ancestry). One lemma, `GrowStep`, covers issue, split and
combine, which differ only in their sources and targets.

**`RollupProofs`.** Its first part is about numbers: every operation on decimals and
quantities returns the number it stands for or an error (addition, comparison,
scaling by powers of ten, conversion), but for what negation does to the lowest
mantissa: there a difference is a sum, two negative amounts may be ordered the wrong
way round (never found equal), and the text is refused. Powers of ten are given by their recursion,
because the prover knows nothing of `^`. A sum of quantities is not changed by units
that are registered later. `ArithmeticAlwaysExact` puts this into the questions asked.

Of roots, `RootTellsLeaves`: two trees of as many leaves with the same root have the
same leaves; an attestation holds the number of its leaves, so it is for one set.
`RInv` says that an attestation in force is signed over the set it covers, and that
this set is one of passports that are known: each member is a version a child has
reached and, where that is the present one, has its amounts. `AInv` says that the
attested sums are what would be added up now, whatever units have been registered
since. From them `AttestationAlwaysStands`, `VerifiedAlwaysMeansCovered`,
`AggregatesAlwaysExact` and `SpotChecksAlwaysExact`.

**`GridProofs`.**

* *The seam.* `GInv` says what a published version may still change (its mark,
  nothing else), that a fetched object is a published version with the mark it had
  when it was fetched, and that an answer is what the version it cites says. An
  answer does not depend on the mark, which is why superseding a policy leaves
  answers reproducible; a reference found current was checked by an unmarked object
  of its own version, and that one was the newest when it was fetched. This gives
  `VersionsAlwaysPinned`. `SeamsAlwaysAgree` is about every reveal class and
  compares the services offered. `OInv` says that what is handed
  around is made of what was published: every entry of a route claims what some answer
  lets its verifier claim, gaps aside, and a report is the replay of such a route. On it,
  and on what `GInv` says of the policy version an answer cites, rests
  `ReportsAlwaysBacked`; on it also rests `ProofsAlwaysExact`, which is `MerkleProofs` on
  the sorted leaves of a spine.
* *The record.* `SpineOK` says that the spine is built over what is sealed or
  survived, so `ErasureAlwaysExact` can speak of its paths: personal data is only where
  the owner holds the keys, keys and surviving commitments go together, and the
  surviving commitment is proved by the newest spine. `ArchiveAlwaysTellsDecay` rests on
  each part of a package being what was archived exactly until it decays, which a
  refresh keeps because it copies.
* *Its questions.* `LookupsAlwaysFit` and `MeasurementsAlwaysSound` state the run's
  invariants. The laws below them are not about the questions the run enumerates
  but about all arguments: `LabelsFoundAsWritten` and `ClosestLabelFound` for all tags and
  values, `ResolveServesFirstHeld` for all linksets and requests, `WiderBandsWithhold`,
  `ScalingDecidesAlike` and `SharesConformTogether` for all rules, amounts and limits
  (the last one where the root of the squares is a number, since roots are taken of
  integers here), `DriftMisjudgesLittle` for all times. A conversion is shown to keep
  what an amount is worth for every entry of the unit table.

**`RegistryProofs`.** `PInv`: the versions of an item are numbered without gaps and
of each there is one content; `LInv`: who is listed holds a credential of a permitted bundle, and
who published may operate a registry; `MInv`: a mirror serves under a URI an item
that was published under it; `CInv`: a chain is composed of published hops whose
numbers it has recorded. From them `MirrorsAlwaysServe`, `ChainsAlwaysExact`,
`RightsAlwaysMatchCatalog`, `CompositionAlwaysBounded`. `VersionsAlwaysStayServed` is about
steps: what arrives under the URI of a version is that version, and the loop of an
exchange ends with every item it went through under its URI. The tables that the models write
as local recursions are shown to exist by set induction.

**`TextProofs`.** The state hardly matters here: `QInv` says that the question asked is
one of `Questions` and stays the same. The work is in what holds of all questions.

* *Time.* Days and dates correspond one to one over all of time (`DatesReadBack`), by
  the year within its era of 400 years and the day within its year; a day more is the
  next date of the calendar; a fraction without its trailing zeros keeps its value.
  Hence `InstantsReadBack`: an instant reads back from its UTC text, and from the text of
  any zone, exactly when the year written there has four digits.
* *Identifiers.* What the extensions of a text give is followed through the parser's
  search for the last value of each application identifier. `SpellingsAgree`: every
  accepted spelling of a GTIN or of an issuer-local key, with or without lot and
  serial, gives one identifier. `RoundTrip`: a built identifier reads back from what it
  displays exactly when its scheme agrees with its having a serial and its lot and
  serial are single words (no plus sign in them). Blanks at the ends of a text, which
  the code trims, and the characters of a key are outside the model.
* *Check digits.* Of a key of any length that ends in its check digit, every change of
  one digit is noticed (`WrongTold`: the weights 1 and 3 have no common divisor with
  ten), and a leading zero changes nothing (`PaddedTotal`).

`TextsAlwaysReadBack` combines them. `QuestionsOK` says what may be asked: keys the
scheme accepts, schemes in the spelling the library normalizes them to, instants with
fewer than 10^9 nanoseconds, offsets of whole minutes and less than a day (others
cannot be written in a zone), digits from 0 to 9. A lot or serial of a question about
spellings is one word; of one about the round trip it is any sequence of words.

**Assumptions.** The named ones on constants, which TLC evaluates in the runs:
`ConstantsOK`, `VerificationConstantsOK`, `FlowConstantsOK`, `GridConstantsOK`,
`SubjectConstantsOK`, `FactsOK`, `RollupConstantsOK`, `DecimalConstantsOK`,
`RegistryConstantsOK`, `CarrierConstantsOK`, `QuestionsOK`. They say that bounds are naturals and
dates integers, that the markers for "none" are not values, that a note is no
measurement, that uncertainties are not negative and conversions of what is offered
exact, that a catalogued pair has two sides, that texts have lengths and instants their fields. That
commitments are injective is built into their definition.

**Only model-checked.** No property of a passing run: each is a theorem. What the
expected violations show is shown by their runs. Nothing is claimed about liveness,
which is out of the prover's reach and which the code leaves to its callers.

## 5. Plan and what is left

Modelled: every crate but the demonstrations, at the depth the components in
`PROJECT.json` state. Left, in this order:

1. Several callers of `combine` with their own views; a provenance graph driven
   with arbitrary ids; `inherit_taints`.
2. Links over time and supersession of facts.
3. Keys of the remaining schemes and digital-link texts among the questions of
   `Carrier`.

Not modelled, and why:

* the demonstrations: fixed scripts with printed traces; the way they call the
  library is what the callers of the models follow;
* serialization, canonical bytes and wording: a hash or a signature stands for the
  value it covers;
* `proves_prefix` of spines: it compares two maps, and no code produces a chain of
  spines that it could be asked about;
* blind parent commitments, retroactivity and windows of taints, links, facts and
  profiles beyond what verdicts read: constructors that check their own fields,
  which unit tests reach.
