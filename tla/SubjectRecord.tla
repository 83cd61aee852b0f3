---------------------------- MODULE SubjectRecord ----------------------------
(***************************************************************************)
(* The record of one subject over its life: facts enter its segments       *)
(* through intake and minimization, the segments are committed in a spine, *)
(* the owner erases by destroying keys, the subject is decommissioned to   *)
(* an archival package that is moved from medium to medium, and waste      *)
(* re-enters commerce.  Beside the life of a record there are the questions*)
(* asked of the functions that read and write it (units, decision rules,   *)
(* labels, linksets, clocks): an initial state holds one of them, or none. *)
(***************************************************************************)
EXTENDS Lifecycle, Lookup

CONSTANTS
  Segs,          \* the segments, numbers in the order of their ids
  OwnerHeld,     \* the owner-push and consumer-held ones
  Offers,        \* what is offered to intake: [kind, value, unit, uncertainty]
  Notes,         \* other facts: [note, personal]
  MaxSeals,      \* bound on the versions of the spine
  MaxRefreshes,  \* bound on the media refreshes
  MaxRecords     \* bound on the productness records

ASSUME SubjectConstantsOK ==
  /\ Segs \subseteq Nat /\ IsFiniteSet(Segs) /\ OwnerHeld \subseteq Segs
  /\ MaxSeals \in Nat /\ MaxRefreshes \in Nat /\ MaxRecords \in Nat

VARIABLES
  contents,      \* the plaintext of every segment, a set of facts
  sealed,    \* the state of every segment the latest spine commits to
  keys,      \* whether the keys of a segment still exist
  spine,     \* the latest spine
  shredded,  \* the commitment that survives the erasure of a segment
  package,   \* the archival package once the subject is decommissioned
  archived,  \* what was put into it (kept for the properties)
  decayed,   \* the parts of it that its medium has altered (kept for the properties)
  ledger,    \* the productness records, under one regime
  issued,    \* the derived passports of scrap
  asked      \* the question asked, None in the life of a record

store   == <<contents, sealed, keys, spine, shredded>>
archive == <<package, archived, decayed>>
market  == <<ledger, issued>>
svars   == <<store, archive, market, asked>>

Un == INSTANCE Units
Vd == INSTANCE Verdict WITH NoHash <- None, NoSalt <- None, NoRef <- None,
                            NoActor <- None, NoTime <- None

Regimes == {"eu-wfd"}

\* The questions: how a label is found, a linkset, a conformity decision, an amount
\* at intake, and freshness by a clock that drifts.
Tags == {t \in SeqOf(Subtags, 2) : t # << >> /\ validate(t)}
InPlay == {t \in Tags : IF Len(t) = 2 THEN t[1].name = "zh" /\ t[2].name \in {"hans", "cn"}
                                    ELSE t[1].name \in {"zh", "en", "el"}}
Contexts == [profile : {"p", "*"}, role : {"r", "*"}, language : {"de", "fr", "*"},
             region : {"EU", "*"}]
Bands == {Un!SharedRisk} \cup {Un!GuardBanded(k) : k \in 0..2}
Questions ==
  [about : {"label"}, tag : InPlay, other : InPlay]
    \cup [about : {"links"}, one : Contexts, two : Contexts]
    \cup [about : {"decision"}, rule : Bands, value : 0..8, u : {0, 3}, limit : {4, 6}]
    \cup [about : {"amount"}, offer : Offers]
    \cup [about : {"clock"}, drift : -4..4, bound : 0..2]
About(topic) == asked # None /\ asked.about = topic

SInit ==
  /\ contents = [s \in Segs |-> {}] /\ sealed = [s \in Segs |-> None]
  /\ keys = [s \in Segs |-> TRUE] /\ spine = SpineOver(0, << >>)
  /\ shredded = [s \in Segs |-> None]
  /\ package = None /\ archived = None /\ decayed = {}
  /\ ledger = [regime \in Regimes |-> << >>] /\ issued = {}
  /\ asked \in Questions \cup {None}

Admit(s, fact) ==
  /\ package = None /\ keys[s] /\ contents' = [contents EXCEPT ![s] = @ \cup {fact}]
  /\ UNCHANGED <<sealed, keys, spine, shredded, archive, market>>

\* A measured value goes through intake; a refusal that offers the conversion is
\* answered with the converted value.
Result(offer) ==
  LET first == Un!intake(offer.kind, offer, offer.uncertainty)
      again == Un!convert(offer, offer.uncertainty)
  IN  IF "refused" \in DOMAIN first /\ first.refused = "re-offer"
        THEN Un!intake(offer.kind, again, again.uncertainty) ELSE first
Stored == {Result(o).stored : o \in {o \in Offers : "stored" \in DOMAIN Result(o)}}

\* A note is no measurement, neither a hash nor a number is the absent value, and the
\* magnitudes offered are such that every conversion is exact.
ASSUME FactsOK ==
  /\ \A fact \in Notes : DOMAIN fact = {"note", "personal"}
  /\ \A state \in SUBSET (Notes \cup Stored) : None # state /\ None # commit_state(state)
  /\ None \notin Int
  /\ \A o \in Offers :
       /\ o.value \in Int /\ o.uncertainty \in Nat \cup {None}
       /\ o.unit \in DOMAIN Un!conversions =>
            \A x \in {o.value, o.uncertainty} \ {None} :
              (x * Un!conversions[o.unit].num) % Un!conversions[o.unit].den = 0

Measure(s, offer) ==
  "stored" \in DOMAIN Result(offer) /\ Admit(s, Result(offer).stored)

\* Any other fact enters where minimization lets it.
Note(s, fact) == minimization_ok(fact.personal, s \in OwnerHeld) /\ Admit(s, fact)

\* A new spine over the segments; of an erased one only the commitment is left.
Seal ==
  /\ package = None /\ spine.version < MaxSeals
  /\ sealed' = [s \in Segs |-> IF shredded[s] = None THEN contents[s] ELSE sealed[s]]
  /\ spine' = SpineOver(spine.version + 1,
                [s \in Segs |-> IF shredded[s] = None THEN commit_state(contents[s])
                                                      ELSE shredded[s]])
  /\ UNCHANGED <<contents, keys, shredded, archive, market>>

\* The custodian gives the sealed state of the segment and its keys.
\* Deviation: it gives the state as it is now.
Erased(s, erasure) ==
  /\ keys' = [keys EXCEPT ![s] = erasure.keys]
  /\ contents' = [contents EXCEPT ![s] = IF erasure.keys THEN @ ELSE {}]
  /\ shredded' = [shredded EXCEPT ![s] =
       IF erasure.outcome.outcome = "shredded" THEN erasure.outcome.commitment ELSE @]
  /\ UNCHANGED <<sealed, spine, archive, market>>
Erase_as_held(s) ==
  package = None /\ sealed[s] # None /\ keys[s]
    /\ Erased(s, erase_by_shredding(s, contents[s], keys[s], s \in OwnerHeld))
Erase(s) ==
  package = None /\ sealed[s] # None /\ keys[s]
    /\ Erased(s, erase_by_shredding(s, sealed[s], keys[s], s \in OwnerHeld))

\* Decommissioning archives what is still readable.
Archive ==
  /\ package = None
  /\ archived' = UNION {contents[s] : s \in Segs}
  /\ package' = export("subject", archived', 0) /\ decayed' = {}
  /\ UNCHANGED <<store, market>>

RefreshMedia ==
  /\ package # None /\ package.archived_at < MaxRefreshes
  /\ package' = refresh_media(package, package.archived_at + 1)
  /\ UNCHANGED <<store, archived, decayed, market>>

\* A medium alters a part of the package: the state loses a fact or holds one that was
\* not archived, the subject is another, the manifest is a hash that no state has.
Misread(part) ==
  CASE part = "subject"            -> {"another"}
    [] part = "integrity_manifest" -> {None}
    [] part = "core_state"         ->
         {IF fact \in package.core_state THEN package.core_state \ {fact}
                                         ELSE package.core_state \cup {fact} : fact \in Notes}
Decay(part) ==
  /\ package # None /\ part \notin decayed
  /\ \E read \in Misread(part) : package' = [package EXCEPT ![part] = read]
  /\ decayed' = decayed \cup {part}
  /\ UNCHANGED <<store, archived, market>>

\* A regime evaluates its predicate; waste re-enters commerce in one of two ways.
Evaluate(regime, is_product) ==
  /\ Len(ledger[regime]) < MaxRecords
  /\ ledger' = record(ledger, ProductnessRecord(regime, Len(ledger[regime]), is_product))
  /\ UNCHANGED <<store, archive, issued>>

ReEnter(mode, regime, derived) ==
  LET r == classify_re_entry(mode, "subject", regime, Len(ledger[regime]), derived)
  IN  /\ Len(ledger[regime]) < MaxRecords /\ regime \notin product_regimes(ledger)
      /\ CASE r.re_entry = "same-identity" -> ledger' = record(ledger, r.record) /\ issued' = issued
           [] r.re_entry = "derived-identity" ->
                issued' = issued \cup {r.derived_passport} /\ ledger' = ledger
           [] OTHER -> UNCHANGED market
      /\ UNCHANGED <<store, archive>>

Live ==
  \/ \E s \in Segs, offer \in Offers : Measure(s, offer)
  \/ \E s \in Segs, fact \in Notes : Note(s, fact)
  \/ Seal \/ \E s \in Segs : Erase(s)
  \/ Archive \/ RefreshMedia
  \/ \E part \in {"subject", "core_state", "integrity_manifest"} : Decay(part)
  \/ \E regime \in Regimes, is_product \in BOOLEAN : Evaluate(regime, is_product)
  \/ \E mode \in {"end-of-waste", "scrap"}, regime \in Regimes, derived \in {None, "lot"} :
       ReEnter(mode, regime, derived)

SNext == asked = None /\ Live /\ UNCHANGED asked

SSpec == SInit /\ [][SNext]_svars

-----------------------------------------------------------------------------
(* Properties.                                                             *)

\* Wherever personal data was let in, it can be erased (PD-1 and PD-2 draw the
\* same boundary, lifecycle.rs:82 and :62).
PersonalDataErasable ==
  \A s \in Segs :
    (\E fact \in contents[s] \cap Notes : fact.personal) =>
      erase_by_shredding(s, contents[s], TRUE, s \in OwnerHeld).outcome.outcome = "shredded"

\* Keys are destroyed only by an erasure that reports so: a refused one leaves the
\* plaintext readable (lifecycle.rs:62).
KeysLostOnlyByErasure ==
  \A s \in Segs : ~keys[s] <=> shredded[s] # None

\* "The spine still proves the history's shape" (lifecycle.rs:7): the commitment
\* that survived an erasure is the one the latest spine includes and proves, also
\* when facts came in after the segment was sealed and when it is sealed again.
SurvivingCommitmentProves ==
  \A s \in Segs : shredded[s] # None =>
    LET inclusion == proof(spine, s)
    IN  inclusion.commitment = shredded[s] /\ verifies_against(inclusion, spine.root)

\* Erasure takes the plaintext of personal data, all of it that was let in, and
\* nothing of what proves the history, wherever in a life it happens.
ErasureExact == PersonalDataErasable /\ KeysLostOnlyByErasure /\ SurvivingCommitmentProves

\* A package verifies exactly while its medium has altered neither the state nor the
\* manifest, through any number of refreshes before and after: nothing mends an altered
\* package.  The manifest does not cover the subject (lifecycle.rs:233): that one was
\* altered shows only in a render, which is equal to a render of the package as it was
\* archived exactly while subject and state are what they were (lifecycle.rs:220, :242).
ArchiveTellsDecay ==
  package # None =>
    /\ verify_manifest(package) <=> decayed \subseteq {"subject"}
    /\ render(package) = render(export("subject", archived, 0))
         <=> decayed \subseteq {"integrity_manifest"}

\* Intake keeps amounts: a value is stored as offered, and when a conversion is
\* offered instead, the converted value is accepted at once and stands for the same
\* amount with the same uncertainty (units.rs:100, :142).
Worth == [mWh |-> 1, Wh |-> 1000, kWh |-> 1000000, MWh |-> 1000000000,
          g |-> 1, kg |-> 1000, t |-> 1000000, mm |-> 1, cm |-> 10, m |-> 1000,
          W |-> 1, kW |-> 1000, Ah |-> 1]
AmountsKept ==
  About("amount") =>
    LET offer == asked.offer
        first == Un!intake(offer.kind, offer, offer.uncertainty)
        again == Un!convert(offer, offer.uncertainty)
    IN  /\ "stored" \in DOMAIN first =>
             first.stored = Un!Measured(offer.value, offer.unit, offer.uncertainty)
        /\ first = [refused |-> "re-offer"] =>
             /\ Un!intake(offer.kind, again, again.uncertainty) = [stored |-> again]
             /\ again.value * Worth[again.unit] = offer.value * Worth[offer.unit]
             /\ again.uncertainty * Worth[again.unit] = offer.uncertainty * Worth[offer.unit]

\* A guard band never turns a verdict over, it only withholds it; a wider one
\* withholds more; shares that conform to their limits conform together, and scaling
\* a measurement with its limit decides alike (UN-2, UN-3, units.rs:164, :174, :239).
WidthOf(rule) == IF rule = Un!SharedRisk THEN 0 ELSE rule.k
DecisionsAgree ==
  About("decision") =>
    LET x       == Un!Measured(asked.value, "kg", asked.u)
        other   == Un!Measured(5, "kg", 4)
        verdict == Un!classify_upper(asked.rule, x, asked.limit)
    IN  /\ \A wider \in Bands : WidthOf(asked.rule) <= WidthOf(wider) =>
             Un!classify_upper(wider, x, asked.limit) \in {verdict, "inconclusive"}
        /\ verdict = "conforms" /\ Un!classify_upper(asked.rule, other, 9) = "conforms" =>
             Un!classify_upper(asked.rule, Un!sum(x, other), asked.limit + 9) = "conforms"
        /\ verdict = "conforms" =>
             Un!classify_upper(Un!SharedRisk, Un!difference(x, other), asked.limit) = "conforms"
        /\ Un!classify_upper(asked.rule, Un!scale(x, 2), 2 * asked.limit) = verdict

\* A label that is asked for is one that was added, of a tag that is as close to the one
\* asked for as any that was added, however both are written: the same tag, a longer one,
\* English, and only then any; the last one added under a tag (multilingual.rs:127, :136).
Written(t) == [i \in DOMAIN t |-> t[i].name]
Extends(kept, want) == Len(want) < Len(kept) /\ \A i \in DOMAIN want : kept[i].name = want[i].name
Distance(kept, want) ==
  IF Written(kept) = Written(want) THEN 0
  ELSE IF Extends(kept, want) THEN 1
  ELSE IF Written(kept) = <<"en">> THEN 2 ELSE 3
LabelsFound ==
  About("label") => \A again \in InPlay :
    LET added(v) == IF v = 1 THEN asked.tag ELSE asked.other
        found    == get(add(add(<< >>, asked.tag, 1), asked.other, 2), again)
    IN  \E v \in 1..2 :
          /\ found = {v} /\ \A w \in 1..2 : Distance(added(v), again) <= Distance(added(w), again)
          /\ Written(asked.tag) = Written(asked.other) => v = 2

\* What is served to a request fits it in every dimension and is widened in as few as can
\* be, the language before the role, the region only with both, the profile last: one that
\* is keyed by the exact role or language in any region is never served, nor one of any
\* profile that names a role, a language or a region.  A dark subject serves none
\* (resolution.rs:92; the comment at :68 has each dimension fall back).
Request == [profile |-> "p", role |-> "r", language |-> "de", region |-> "EU"]
Fits(key) == \A d \in DOMAIN key : key[d] \in {Request[d], Star}
Reached(key) ==
  /\ Fits(key)
  /\ key.region = Star => key.role = Star /\ key.language = Star
  /\ key.profile = Star => key.region = Star
Weight == [language |-> 1, role |-> 2, region |-> 4, profile |-> 8]
Widening(key) ==
  LET w(d) == IF key[d] = Star THEN Weight[d] ELSE 0
  IN  w("language") + w("role") + w("region") + w("profile")
Linksets(keyed, dark) == [contexts |-> [key \in keyed |-> key], dark |-> dark]
LinksFit ==
  About("links") =>
    LET both   == {asked.one, asked.two}
        served == resolve(Linksets(both, FALSE), Request)
    IN  /\ served = {} <=> \A key \in both : ~Reached(key)
        /\ \A key \in served, other \in both :
             Reached(key) /\ (Reached(other) => Widening(key) <= Widening(other))
        /\ resolve(Linksets(both, TRUE), Request) = {}

\* Lookups that fall back return the closest of what they fall back to.
LookupsFit == LabelsFound /\ LinksFit

\* Freshness computed by a clock within its declared bound is off by no more than
\* the bound, fast or slow: what passes is no older than the window and the bound
\* together (lifecycle.rs:168, verdict/src/freshness.rs:33).
DriftIsBounded ==
  About("clock") /\ freshness_under(asked.bound, asked.drift) =>
    \A time, stamp \in 0..4, window \in 0..2 :
      LET judged == Vd!evaluate_freshness(time + asked.drift, stamp,
                      [kind |-> "fresh-within", max_age |-> window])
      IN  /\ judged = "fresh" => time - stamp <= window + asked.bound
          /\ judged = "stale" => time - stamp > window - asked.bound

\* What is stored as a measurement is in the canonical unit of its kind, with its
\* uncertainty, whatever unit it was offered in (units.rs:100).
StoredCanonical ==
  \A s \in Segs : \A fact \in contents[s] \ Notes :
    fact.unit \in {Un!canonical[k] : k \in DOMAIN Un!canonical} /\ fact.uncertainty \in Nat

\* A measurement keeps its amount and its uncertainty on the way in, and what is
\* decided by it, or by a clock within its bound, is off by no more than they allow.
MeasurementsSound == StoredCanonical /\ AmountsKept /\ DecisionsAgree /\ DriftIsBounded
=============================================================================
