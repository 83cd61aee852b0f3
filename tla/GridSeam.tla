------------------------------- MODULE GridSeam -------------------------------
(***************************************************************************)
(* A subject's segments under policies that are superseded while others    *)
(* still use older objects: custodians extend their segments and re-pin    *)
(* them, an authority supersedes its policy, somebody publishes spines,    *)
(* readers fetch policy objects, and a custodian answers verifiers from    *)
(* the object it holds.  The calls are pure; what is hard is that each     *)
(* party acts on an object it obtained at some other time.                 *)
(***************************************************************************)
EXTENDS Grid, FiniteSets

CONSTANTS
  MaxSegments,    \* the segments are 1 .. MaxSegments
  MaxSequence,    \* bound on the extensions of one segment
  MaxVersions,    \* bound on the versions of one policy
  MaxSpines,      \* bound on the spines published
  MaxAnswers,     \* bound on the answers given
  MaxSteps,       \* bound on the steps of a route
  Asked,          \* the segments somebody asks for and extends; the others fill the spine
  Policies,       \* the ids of the policies: an authority each
  Readers,        \* who fetches policy objects
  Custodian,      \* the reader that answers at the seam
  Verifiers,      \* who asks
  Terms           \* what a policy may say: [verifiers, reveal]

ASSUME GridConstantsOK ==
  /\ MaxSegments \in Nat /\ MaxSequence \in Nat /\ MaxVersions \in Nat \ {0}
  /\ MaxSpines \in Nat /\ MaxAnswers \in Nat /\ MaxSteps \in Nat
  /\ Custodian \in Readers /\ Asked \subseteq 1..MaxSegments
  /\ None \notin Nat /\ None \notin Verifiers
  /\ \A t \in Terms : /\ t.verifiers \subseteq Verifiers \cup {AnyVerifier}
                       /\ t.reveal \in RevealClass

VARIABLES
  policies,   \* the published versions of every policy, in order
  segments,   \* the segments that exist, by id
  spines,     \* the published spines, in order
  held,       \* what each reader fetched last, and what was newest then
  answers,    \* the responses given at the seam
  route,      \* VerificationRoute: what the verifier did
  report      \* the CoverageReport the route was last replayed to

gvars == <<policies, segments, spines, held, answers, route, report>>

SegmentIds == 1..MaxSegments
PolicyObject(id, version, terms) ==
  [policy_id |-> id, version |-> version, authority |-> id,
   verifiers |-> terms.verifiers, reveal |-> terms.reveal, superseded_by |-> None]

Newest(id) == policies[id][Len(policies[id])]
Requests == [verifier : Verifiers, segment : Asked]

GInit ==
  /\ \E first \in [Policies -> Terms] :
       policies = [id \in Policies |-> <<PolicyObject(id, 1, first[id])>>]
  /\ segments = << >> /\ spines = << >> /\ answers = {}
  /\ held = [r \in Readers |-> None]
  /\ route = << >> /\ report = None

-----------------------------------------------------------------------------
(* Custodians and authorities.                                             *)

\* A custodian opens a segment, pinned at the newest version of its policy.
OpenSegment(s, id) ==
  /\ s \notin DOMAIN segments
  /\ segments' = [x \in DOMAIN segments \cup {s} |->
       IF x = s THEN [policy |-> PolicyRefOf(Newest(id)),
                      state_commitment |-> commit_state(0), sequence |-> 0]
                ELSE segments[x]]
  /\ UNCHANGED <<policies, spines, held, answers, route, report>>

\* New facts are sealed: commitment n+1 extends commitment n.
Extend(s) ==
  LET n == segments[s].sequence + 1
  IN  /\ s \in Asked /\ n <= MaxSequence
      /\ segments' = [segments EXCEPT ![s].sequence = n,
                                      ![s].state_commitment = commit_state(n)]
      /\ UNCHANGED <<policies, spines, held, answers, route, report>>

\* The custodian pins its segment at the policy object it holds.
Repin(s) ==
  /\ s \in Asked /\ held[Custodian] # None
  /\ held[Custodian].policy.policy_id = segments[s].policy.policy_id
  /\ segments' = [segments EXCEPT ![s].policy = PolicyRefOf(held[Custodian].policy)]
  /\ segments' # segments
  /\ UNCHANGED <<policies, spines, held, answers, route, report>>

\* The authority publishes a new version and marks the one it replaces.
Supersede(id, terms) ==
  LET n == Len(policies[id])
  IN  /\ n < MaxVersions
      /\ policies' = [policies EXCEPT ![id] =
           Append([@ EXCEPT ![n].superseded_by = n + 1],
                  PolicyObject(id, n + 1, terms))]
      /\ UNCHANGED <<segments, spines, held, answers, route, report>>

Publish ==
  /\ Len(spines) < MaxSpines
  /\ spines' = Append(spines,
       SpineOver(Len(spines) + 1,
                 [s \in DOMAIN segments |-> segments[s].state_commitment]))
  /\ UNCHANGED <<policies, segments, held, answers, route, report>>

-----------------------------------------------------------------------------
(* Readers, verifiers and the custodian that answers them.                 *)

\* A reader fetches some version of a policy, as it is published now.
Fetch(reader, id, version) ==
  /\ held' = [held EXCEPT ![reader] = [policy |-> policies[id][version],
                                       newest |-> Len(policies[id])]]
  /\ held' # held
  /\ UNCHANGED <<policies, segments, spines, answers, route, report>>

\* The custodian answers a request for a segment with the object it holds of
\* the segment's policy, which may be an old one.
Answer(request) ==
  /\ request.segment \in DOMAIN segments /\ held[Custodian] # None
  /\ held[Custodian].policy.policy_id = segments[request.segment].policy.policy_id
  /\ Cardinality(answers) < MaxAnswers
  /\ answers' = answers \cup {evaluate(request, held[Custodian].policy, Custodian)}
  /\ answers' # answers
  /\ UNCHANGED <<policies, segments, spines, held, route, report>>

\* The evidence a verifier may claim for a class on an answer: what it was let see, an
\* attestation it was offered, or that there is none it accepts.
Evidence(outcome) ==
  {"explicitly-unavailable"}
  \cup (IF outcome.outcome \in {"permit", "permit-paired"} THEN {"verified-direct"} ELSE {})
  \cup (IF outcome.outcome = "attestation-offer" THEN {"attested-by-authority"} ELSE {})

EntryFor(a, evidence) ==
  [class |-> a.request_digest.segment, evidence |-> evidence,
   governing_policy |-> a.governing_policy,
   governing_policy_version |-> a.governing_policy_version]

\* The verifier classifies a class on an answer it got, which may be an old one, or
\* states a gap in its trace.
Record(step) ==
  /\ Len(route) < MaxSteps
  /\ route' = Append(route, step)
  /\ UNCHANGED <<policies, segments, spines, held, answers, report>>
Classify(a, evidence) == Record([step |-> "classify", entry |-> EntryFor(a, evidence)])
Gap(a) == Record([step |-> "gap", data_class |-> a.request_digest.segment])

\* The report is derived from the trace.
Report ==
  /\ report' = replay(route, "subject")
  /\ report' # report
  /\ UNCHANGED <<policies, segments, spines, held, answers, route>>

GNext ==
  \/ \E s \in SegmentIds, id \in Policies : OpenSegment(s, id)
  \/ \E s \in DOMAIN segments : Extend(s) \/ Repin(s)
  \/ \E id \in Policies, terms \in Terms : Supersede(id, terms)
  \/ Publish
  \/ \E reader \in Readers, id \in Policies :
       \E version \in DOMAIN policies[id] : Fetch(reader, id, version)
  \/ \E request \in Requests : Answer(request)
  \/ \E a \in answers : Gap(a) \/ \E evidence \in Evidence(a.outcome) : Classify(a, evidence)
  \/ Report

GSpec == GInit /\ [][GNext]_gvars

-----------------------------------------------------------------------------
(* Properties.                                                             *)

Commitment == {commit_state(n) : n \in 0..MaxSequence}

\* The inclusion proof of every segment verifies against the root of its spine,
\* for every number of segments, dangling leaves included (spine.rs:47).
ProofsVerify ==
  \A i \in DOMAIN spines : \A s \in DOMAIN spines[i].commitments :
    verifies_against(proof(spines[i], s), spines[i].root)

\* Whatever parts of published proofs are put together, a proof that verifies
\* against the root of a spine tells a commitment that spine holds: "A forged
\* commitment or a spliced path fails" (spine.rs:166).
ProofsBind ==
  LET paths == UNION {{proof(spines[i], s).siblings : s \in DOMAIN spines[i].commitments}
                        : i \in DOMAIN spines}
  IN  \A i \in DOMAIN spines, s \in SegmentIds, c \in Commitment, path \in paths :
        verifies_against([segment_id |-> s, commitment |-> c,
                          root |-> spines[i].root, siblings |-> path], spines[i].root)
          => s \in DOMAIN spines[i].commitments /\ spines[i].commitments[s] = c

\* The spine proves what it commits to, all of it and nothing else.
ProofsExact == ProofsVerify /\ ProofsBind

\* A pin that a reader finds current, with whatever object it holds, was the
\* newest version of that policy when the object was fetched: "stale policy
\* references are detectable at verification" (policy.rs:84).
StalePinsDetected ==
  \A reader \in Readers, s \in DOMAIN segments :
    /\ held[reader] # None
    /\ status_for(held[reader].policy, segments[s].policy) = "current"
    => segments[s].policy.version = held[reader].newest

\* An answer can be computed again from the request it is bound to and the
\* published policy version it cites, however the policy was superseded since:
\* outcomes are "machine-reproducible" (s13/lib.rs:5).
AnswersReproducible ==
  \A a \in answers :
    LET cited == policies[a.governing_policy][a.governing_policy_version]
    IN  evaluate(a.request_digest, cited, a.custodian) = a

\* Whether the policy an answer was given under still governs shows when the
\* version it cites is checked against the object as published now.
StaleAnswersShow ==
  \A a \in answers :
    LET id  == a.governing_policy
        ref == [policy_id |-> id, version |-> a.governing_policy_version]
    IN  \A v \in DOMAIN policies[id] :
          status_for(policies[id][v], ref) = "current"
            <=> v = ref.version /\ v = Len(policies[id])

\* Every published version but the newest names its successor.
MarksChain ==
  \A id \in Policies : \A v \in DOMAIN policies[id] :
    policies[id][v].superseded_by = IF v = Len(policies[id]) THEN None ELSE v + 1

\* Whatever order objects are fetched, superseded, pinned and answered from in,
\* what was pinned or cited stays checkable against what is published, and is
\* never silently taken for the current version (policy.rs:127, s13/lib.rs:166).
VersionsPinned == MarksChain /\ StalePinsDetected /\ AnswersReproducible /\ StaleAnswersShow

\* The seam and the retrieval interface read a reveal class alike: a verifier
\* the policy admits is permitted at the seam exactly when an authorized client
\* is served, and is offered what a withheld class points to otherwise, for every reveal class.
SeamsAgree ==
  \A id \in Policies : \A v \in DOMAIN policies[id] :
  \A verifier \in Verifiers, reveal \in RevealClass :
    LET policy  == [policies[id][v] EXCEPT !.reveal = reveal]
        answer  == serve_class([authorization |-> verifier], policy)
        outcome == OutcomeFor(policy, verifier)
    IN  Allowed(policy, verifier) =>
          /\ answer.served <=> outcome.outcome \in {"permit", "permit-paired"}
          /\ ~answer.served => answer.offer = outcome.party

\* What a report claims of a class can be checked against the published policy
\* version its entry names, whatever was superseded since the custodian fetched it,
\* answered, and the verifier recorded the answer: a class seen directly was open or
\* paired to somebody, one that is attested was sealed at its origin, and a class
\* that policy keeps in escrow is never claimed (s13/lib.rs:166, coverage.rs:6).
ReportsBacked ==
  \A i \in (IF report # None THEN DOMAIN report.entries ELSE {}) :
    LET entry  == report.entries[i]
        policy == policies[entry.governing_policy][entry.governing_policy_version]
        claims(reveals) == policy.reveal \in reveals
                           /\ \E verifier \in Verifiers : Allowed(policy, verifier)
    IN  CASE entry.evidence = "verified-direct"       -> claims({"open", "pairing-gated"})
          [] entry.evidence = "attested-by-authority" -> claims({"origin-sealed"})
          [] OTHER -> entry.evidence = "explicitly-unavailable"

=============================================================================
