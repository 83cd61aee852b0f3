------------------------------ MODULE Verdict -------------------------------
(***************************************************************************)
(* The verdict crate: how VerdictBuilder grades a log at a time, given the *)
(* evidence the verifier has beside it.  Evidence is a record              *)
(*   requirement  freshness requirement of the profile, "static" if none   *)
(*   sigs         the signature slots, as a set of [suite, key, signed]    *)
(*   attested     whether a third party attests                            *)
(*   required     data points the profile binds                            *)
(*   provided     data points the render provides                          *)
(*   anchor       the witnessed head the verifier supplies, NoHash offline *)
(* Taints and active links are reported beside the outcome and do not      *)
(* enter it; the same holds for the status and the safety flag.            *)
(***************************************************************************)
EXTENDS EventChain, FiniteSets

CONSTANT NoTime   \* the `None` of last_event_at

last_event_at(log) == IF log = << >> THEN NoTime ELSE log[Len(log)].event.at

\* A requirement is [kind |-> "none" | "static"] or
\* [kind |-> "fresh-within", max_age |-> seconds].
\* A deviation: an event dated after the verification is no evidence yet.
freshness_distrusts_future(time, stamp, requirement) ==
  IF stamp = NoTime \/ stamp > time THEN "indeterminate"
  ELSE IF requirement.kind = "fresh-within"
            /\ time - stamp > requirement.max_age
       THEN "stale"
       ELSE "fresh"

evaluate_freshness(time, stamp, requirement) ==
  IF stamp = NoTime THEN "indeterminate"
  ELSE IF requirement.kind = "fresh-within"
            /\ time - stamp > requirement.max_age
       THEN "stale"
       ELSE "fresh"

missing(evidence) == evidence.required \ evidence.provided

\* A deviation: any anchor will do.
AnchorGiven(log, evidence) == evidence.anchor # NoHash

AnchorOk(log, evidence) ==
  evidence.anchor # NoHash /\ verify_against_anchor(log, evidence.anchor)

FramedOnly(slot) == ~slot.signed

trust_marker(log, evidence) ==
  LET present == {slot \in evidence.sigs : slot.signed}
      suites  == {slot.suite : slot \in present}
  IN  CASE AnchorOk(log, evidence) -> "log-anchored"
        [] ~AnchorOk(log, evidence) /\ Cardinality(suites) >= 2 -> "multi-signed"
        [] ~AnchorOk(log, evidence) /\ Cardinality(suites) = 1 ->
             IF evidence.attested THEN "attested" ELSE "self-declared"
        [] OTHER -> "unsigned"

\* The degradation ladder: the first rung that applies decides.
outcome(log, time, evidence) ==
  LET freshness == evaluate_freshness(time, last_event_at(log),
                                      evidence.requirement)
  IN  IF ~verify(log)                          THEN "broken-chain"
      ELSE IF evidence.anchor # NoHash
              /\ ~AnchorOk(log, evidence)      THEN "anchor-mismatch"
      ELSE IF freshness = "stale"              THEN "stale-data"
      ELSE IF freshness = "indeterminate"      THEN "no-freshness-evidence"
      ELSE IF evidence.anchor = NoHash         THEN "offline-no-anchor"
      ELSE IF evidence.sigs # {}
              /\ \A s \in evidence.sigs : FramedOnly(s)
                                               THEN "signatures-framed-only"
      ELSE IF missing(evidence) # {}           THEN "coverage-incomplete"
      ELSE "pass"

Failures == {"broken-chain", "anchor-mismatch"}

\* Fail below degraded below pass.
Grade(o) == CASE o = "pass" -> 2 [] o \in Failures -> 0 [] OTHER -> 1

\* The evidentiary reading at a time: the counts over the as-of view.
\* A deviation: every entry dated by `at` counts.
CountByDate(log, at, type) ==
  Cardinality({i \in 1..Len(log) : log[i].event.at <= at
                                   /\ log[i].event.payload.type = type})

CountAsOf(log, at, type) ==
  Cardinality({i \in 1..AsOfLen(log, at) : log[i].event.payload.type = type})

evidentiary(log, at) ==
  [as_of          |-> IF AsOfLen(log, at) = 0 THEN NoTime ELSE at,
   chain_verified |-> verify(log),
   events_total   |-> AsOfLen(log, at),
   corrections    |-> CountAsOf(log, at, "correction"),
   recalls        |-> CountAsOf(log, at, "recall.campaign"),
   security_flags |-> CountAsOf(log, at, "flag.security"),
   stamps         |-> CountAsOf(log, at, "inspection.stamp")]

=============================================================================
