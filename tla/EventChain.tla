----------------------------- MODULE EventChain -----------------------------
(***************************************************************************)
(* The values and pure functions of the event crate: typed events, sealed  *)
(* entries, their commitments, the three verification passes, the as-of    *)
(* view and the replays.  A log is a sequence of sealed entries; entry i   *)
(* of the sequence is element i-1 of the code's Vec.                       *)
(*                                                                         *)
(* SHA-256 is abstracted to an injective constructor: a commitment is the  *)
(* record of exactly what was hashed.  The canonical body is the whole     *)
(* typed event, sequence number included, so the event itself stands for   *)
(* it.  Actor and trust marker are the parts of the body no property       *)
(* distinguishes.  A payload's "type" stands for its event class, which    *)
(* TypedEvent::new forces to agree with the declared one.                  *)
(***************************************************************************)
EXTENDS Integers, Sequences

CONSTANTS
  NoHash,   \* the `None` of Option<Hash>: previous commitment of entry 1
  NoSalt,   \* the `None` of Option<[u8; 32]>
  NoRef,    \* the `None` of salt_ref
  NoActor   \* the `None` of custodian()

-----------------------------------------------------------------------------
(* The status machine (I6).                                                *)

Status == {"issued", "suspended", "invalidated", "non-conformant",
           "consumed", "transformed", "end-of-waste", "archived"}

\* The legal targets of each status.
Successors(from) ==
  CASE from = "issued"         -> Status \ {"issued"}
    [] from = "suspended"      -> {"issued", "invalidated", "archived"}
    [] from = "non-conformant" -> {"issued", "invalidated", "archived"}
    [] from = "end-of-waste"   -> {"issued", "archived"}
    [] from \in {"consumed", "transformed", "invalidated"} -> {"archived"}
    [] from = "archived"       -> {}

CanTransition(from, to) == to \in Successors(from)

\* What TypedEvent::new accepts besides the agreement of the event class.
WellFormed(payload) ==
  payload.type = "status.change" => CanTransition(payload.from, payload.to)

-----------------------------------------------------------------------------
(* Sealing.                                                                *)

\* A deviation: the commitment does not cover the prefix.
commitment_without_prefix(body, prev, salt) ==
  [body |-> body, prev |-> NoHash, salt |-> salt]

event_commitment(body, prev, salt) ==
  [body |-> body, prev |-> prev, salt |-> salt]

\* The commitment that entry i of the log must point back to.
PrevOf(log, i) == IF i = 1 THEN NoHash ELSE log[i-1].commitment

head(log) == IF log = << >> THEN NoHash ELSE log[Len(log)].commitment

\* A deviation: the salt is noted and not used.
SealUnsalted(log, event, salt, ref) ==
  [event      |-> event,
   prev       |-> head(log),
   commitment |-> event_commitment(event, head(log), NoSalt),
   salted     |-> salt # NoSalt,
   salt_ref   |-> ref]

\* The entry EventLog::append pushes: the salt is used and dropped, only
\* the fact that there was one and its reference stay.
Seal(log, event, salt, ref) ==
  [event      |-> event,
   prev       |-> head(log),
   commitment |-> event_commitment(event, head(log), salt),
   salted     |-> salt # NoSalt,
   salt_ref   |-> ref]

-----------------------------------------------------------------------------
(* Verification.                                                           *)

\* EventLog::verify: sequence numbers, back pointers, and the commitment of
\* every unsalted entry.  A salted entry is only required to differ from the
\* unsalted form of its commitment.
VerifyEntry(log, i) ==
  LET plain == event_commitment(log[i].event, PrevOf(log, i), NoSalt)
  IN  /\ log[i].event.seq = i - 1
      /\ log[i].prev = PrevOf(log, i)
      /\ log[i].salted <=> log[i].commitment # plain

verify(log) == \A i \in 1..Len(log) : VerifyEntry(log, i)

\* The salt verify_with_salts finds for an entry in the owner's store.
SaltFor(entry, salts) ==
  IF entry.salted /\ entry.salt_ref \in DOMAIN salts
    THEN salts[entry.salt_ref]
    ELSE NoSalt

\* A deviation: the owner's pass checks the links and not the commitments.
VerifyLinksOnly(log, i, salts) ==
  log[i].event.seq = i - 1 /\ log[i].prev = PrevOf(log, i)

VerifyEntryWithSalts(log, i, salts) ==
  /\ log[i].event.seq = i - 1
  /\ log[i].prev = PrevOf(log, i)
  /\ log[i].commitment =
       event_commitment(log[i].event, PrevOf(log, i), SaltFor(log[i], salts))

verify_with_salts(log, salts) ==
  \A i \in 1..Len(log) : VerifyEntryWithSalts(log, i, salts)

verify_against_anchor(log, anchor) == log # << >> /\ head(log) = anchor

-----------------------------------------------------------------------------
(* Views and replays.  Each replay loop lets the last event that bears on  *)
(* the question win, or remembers that one was ever seen.                  *)

\* The number of entries as_of(t) yields: it stops at the first event dated
\* after t.
AsOfLen(log, t) ==
  CHOOSE n \in 0..Len(log) :
    /\ \A i \in 1..n : log[i].event.at <= t
    /\ n < Len(log) => log[n+1].event.at > t

\* A deviation: the view filters by date instead of stopping at a later one.
as_of_by_date(log, t) == SelectSeq(log, LAMBDA entry : entry.event.at <= t)

as_of(log, t) == SubSeq(log, 1, AsOfLen(log, t))

state_hash_at(log, t) == head(as_of(log, t))

\* The position of the last entry whose payload satisfies Bears, 0 if none.
LastWhere(log, Bears(_)) ==
  LET hits == {i \in 1..Len(log) : Bears(log[i].event.payload)}
  IN  IF hits = {} THEN 0 ELSE CHOOSE i \in hits : \A j \in hits : j <= i

BearsStatus(payload) ==
  \/ payload.type \in {"issuance", "status.change", "decompose", "end-of-waste"}
  \/ payload.type = "split" /\ payload.parent_consumed

StatusAfter(payload) ==
  CASE payload.type = "issuance"              -> "issued"
    [] payload.type = "status.change"         -> payload.to
    [] payload.type \in {"split", "decompose"} -> "transformed"
    [] payload.type = "end-of-waste"          -> "end-of-waste"

current_status(log) ==
  LET i == LastWhere(log, BearsStatus)
  IN  IF i = 0 THEN "issued" ELSE StatusAfter(log[i].event.payload)

Seen(log, type) == \E i \in 1..Len(log) : log[i].event.payload.type = type

\* A deviation: the last of the two kinds of flag wins.
IsFlag(payload) == payload.type \in {"recall.campaign", "flag.security"}
last_flag(log) ==
  LET i == LastWhere(log, IsFlag)
  IN  IF i = 0 THEN "none"
      ELSE IF log[i].event.payload.type = "recall.campaign" THEN "recall-active"
      ELSE "security-flagged"

\* A recall outranks a security flag, and neither is ever cleared.
safety_flag(log) ==
  CASE Seen(log, "recall.campaign") -> "recall-active"
    [] Seen(log, "flag.security") /\ ~Seen(log, "recall.campaign")
         -> "security-flagged"
    [] OTHER -> "none"

IsCustodyTransfer(payload) == payload.type = "custody.transfer"

custodian(log) ==
  LET i == LastWhere(log, IsCustodyTransfer)
  IN  IF i = 0 THEN NoActor ELSE log[i].event.payload.to

=============================================================================
