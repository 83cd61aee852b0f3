---------------------------- MODULE Verification ----------------------------
(***************************************************************************)
(* A verifier at work: the witnessed log of WitnessedLog, a clock, and the *)
(* verdicts of Verdict over the verifier's copy.  A verdict is a value the *)
(* builder computes and changes nothing, so the properties quantify over   *)
(* every verdict the verifier could ask for in each state.                 *)
(***************************************************************************)
EXTENDS WitnessedLog, Verdict

CONSTANTS
  Requirements,   \* freshness requirements of the profiles in use
  SlotSets,       \* the sets of signature slots a passport comes with
  Points,         \* data points
  MaxNow          \* bound on the clock

ASSUME VerificationConstantsOK ==
  /\ MaxNow \in Nat /\ NoTime \notin Times
  /\ \A r \in Requirements : r.kind = "fresh-within" => r.max_age \in Int

VARIABLE now   \* verification time

nvars == <<wvars, now>>

NInit == WInit /\ now = 0

Tick == now < MaxNow /\ now' = now + 1 /\ UNCHANGED wvars

NNext == (WNext /\ UNCHANGED now) \/ Tick

NSpec == NInit /\ [][NNext]_nvars

\* All that a verifier may have beside its copy.
Evidence ==
  [requirement : Requirements, sigs : SlotSets, attested : BOOLEAN,
   required : SUBSET Points, provided : SUBSET Points,
   anchor : {NoHash, anchor}]

-----------------------------------------------------------------------------

\* "Never silently pass" (verdict.rs:150): whatever became of the copy on its
\* way, a pass on a copy without salted entries says that the copy records
\* what was witnessed, that the newest event is within the profile's window,
\* that a signature is there unless none was asked, that no required data
\* point is missing, and that the marker shown is the highest.
PassIsGenuine ==
  \A e \in Evidence :
    outcome(copy, now, e) = "pass" =>
      /\ AllUnsalted(copy) => EventsOf(copy) = EventsOf(witnessed)
      /\ e.requirement.kind = "fresh-within" =>
           now <= last_event_at(copy) + e.requirement.max_age
      /\ e.sigs = {} \/ \E s \in e.sigs : s.signed
      /\ e.required \subseteq e.provided
      /\ trust_marker(copy, e) = "log-anchored"

\* Time alone never mends a verdict: on the same copy and the same evidence a
\* later verification is never graded better than an earlier one.
VerdictsOnlyWeather ==
  [][copy' = copy /\ anchor' = anchor =>
       \A e \in Evidence :
         Grade(outcome(copy', now', e)) <= Grade(outcome(copy, now, e))]_nvars

\* What a diligent verifier could know at T (readings.rs:75) stands: once an
\* anchored, unsalted copy reaches past T, its evidentiary reading at T is the
\* reading the full log gives at T, however the log has grown since.
DiligenceStands ==
  verify(copy) /\ AllUnsalted(copy) /\ HeadWitnessed(copy) =>
    \A t \in Times :
      (\E i \in 1..Len(copy) : copy[i].event.at > t)
        => evidentiary(copy, t) = evidentiary(log, t)

=============================================================================
