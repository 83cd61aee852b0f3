------------------------------ MODULE EventLog ------------------------------
(***************************************************************************)
(* One passport's event log, shared by several authors, and the owner's    *)
(* salt store beside it.                                                   *)
(*                                                                         *)
(* The library is sequential, but recording an event is four calls made    *)
(* by an author: read the log (its length, its status), build a typed      *)
(* event with that sequence number, append it, and, when it was salted,    *)
(* remember the salt.  The calls of different authors interleave here in   *)
(* every order.                                                            *)
(***************************************************************************)
EXTENDS EventChain

CONSTANTS
  Authors,   \* the parties that record events
  Payloads,  \* the payloads they record
  Times,     \* the dates they give their events
  Salts,     \* the salts they draw
  Nothing,   \* an author's empty hands
  MaxLen     \* bound on the length of the log

ASSUME ConstantsOK ==
  /\ MaxLen \in Nat /\ Times \subseteq Int
  /\ NoSalt \notin Salts /\ NoRef \notin Nat
  /\ \A p \in Payloads : WellFormed(p) \in BOOLEAN

VARIABLES
  log,       \* EventLog.sealed
  store,     \* SaltStore.salts, a partial function from references to salts
  drafts,    \* the typed event an author holds, with the log it had read
  unsaved,   \* the salt an author has used and not remembered yet
  grounds    \* history: for each entry, the events its author had read

vars == <<log, store, drafts, unsaved, grounds>>

Events == [seq : Nat, at : Times, payload : Payloads]
EventsOf(l) == [i \in 1..Len(l) |-> l[i].event]

Init ==
  /\ log = << >>
  /\ store = << >>
  /\ drafts = [a \in Authors |-> Nothing]
  /\ unsaved = [a \in Authors |-> Nothing]
  /\ grounds = << >>

\* An author reads the log and builds an event numbered after what it read
\* (TypedEvent::new).
Prepare(a, at, payload) ==
  /\ drafts[a] = Nothing /\ unsaved[a] = Nothing
  /\ Len(log) < MaxLen
  /\ WellFormed(payload)
  /\ drafts' = [drafts EXCEPT ![a] =
       [event |-> [seq |-> Len(log), at |-> at, payload |-> payload],
        read  |-> EventsOf(log)]]
  /\ UNCHANGED <<log, store, unsaved, grounds>>

\* Every caller uses the sequence number of the event as the reference of its
\* salt, and no reference for an unsalted event.
\* Deviations: a reference counted from 1; no reference at all.
RefFromOne(event, salt) == IF salt = NoSalt THEN NoRef ELSE event.seq + 1
RefMissing(event, salt) == NoRef

RefFor(event, salt) == IF salt = NoSalt THEN NoRef ELSE event.seq

\* The event an author holds is sealed and pushed.
Push(a, salt) ==
  LET event == drafts[a].event
      ref   == RefFor(event, salt)
  IN  /\ log' = Append(log, Seal(log, event, salt, ref))
      /\ grounds' = Append(grounds, drafts[a].read)
      /\ drafts' = [drafts EXCEPT ![a] = Nothing]
      /\ unsaved' = IF salt = NoSalt
                      THEN unsaved
                      ELSE [unsaved EXCEPT ![a] = [ref |-> ref, salt |-> salt]]
      /\ UNCHANGED store

\* A deviation: append takes an event with any sequence number.
AppendUnchecked(a, salt) == drafts[a] # Nothing /\ Len(log) < MaxLen /\ Push(a, salt)

\* EventLog::append, when nobody else appended since the event was built.
AppendEvent(a, salt) ==
  /\ drafts[a] # Nothing
  /\ drafts[a].event.seq = Len(log)
  /\ Push(a, salt)

\* EventLog::append refuses an event with any other sequence number
\* (EventError::Seq); the event was moved into the call and is gone.
RefuseEvent(a) ==
  /\ drafts[a] # Nothing
  /\ drafts[a].event.seq # Len(log)
  /\ drafts' = [drafts EXCEPT ![a] = Nothing]
  /\ UNCHANGED <<log, store, unsaved, grounds>>

\* SaltStore::remember, which replaces whatever is under the reference.
Remember(a) ==
  /\ unsaved[a] # Nothing
  /\ store' = [r \in DOMAIN store \cup {unsaved[a].ref} |->
                 IF r = unsaved[a].ref THEN unsaved[a].salt ELSE store[r]]
  /\ unsaved' = [unsaved EXCEPT ![a] = Nothing]
  /\ UNCHANGED <<log, drafts, grounds>>

\* The author fails between append and remember: append dropped its salt and
\* nobody holds it any more.
LoseSalt(a) ==
  /\ unsaved[a] # Nothing
  /\ unsaved' = [unsaved EXCEPT ![a] = Nothing]
  /\ UNCHANGED <<log, store, drafts, grounds>>

Next ==
  \E a \in Authors :
    \/ \E at \in Times, payload \in Payloads : Prepare(a, at, payload)
    \/ \E salt \in Salts \cup {NoSalt} : AppendEvent(a, salt)
    \/ RefuseEvent(a)
    \/ Remember(a)
    \/ LoseSalt(a)

Spec == Init /\ [][Next]_vars

-----------------------------------------------------------------------------
(* Invariants.                                                             *)

\* The commitments in the log, and the entries that can be made of them.
Hashes == {log[i].commitment : i \in 1..Len(log)}
SealedEvents ==
  [event : Events, prev : {NoHash} \cup Hashes, commitment : Hashes,
   salted : BOOLEAN, salt_ref : Nat \cup {NoRef}]

\* Every variable holds values of the type its struct declares.
TypeOK ==
  /\ log \in Seq(SealedEvents)
  /\ DOMAIN store \subseteq Nat
  /\ \A r \in DOMAIN store : store[r] \in Salts
  /\ \A a \in Authors :
       /\ drafts[a] # Nothing =>
            drafts[a].event \in Events /\ drafts[a].read \in Seq(Events)
       /\ unsaved[a] # Nothing => unsaved[a] \in [ref : Nat, salt : Salts]
  /\ DOMAIN drafts = Authors /\ DOMAIN unsaved = Authors
  /\ grounds \in Seq(Seq(Events)) /\ Len(grounds) = Len(log)

\* However the authors interleave, the log they produce passes its own
\* verification (log.rs:102): consecutive numbers, back pointers to the
\* previous commitment, commitments over number, body and prefix.
ChainVerifies == verify(log)

\* A salt the store gives out for an entry is the salt that entry was sealed
\* with: no author's salt ever lands under another author's reference.
StoreMatchesChain ==
  \A r \in DOMAIN store :
    /\ r < Len(log) /\ log[r+1].salted
    /\ log[r+1].commitment.salt = store[r]

\* The owner's full verification (log.rs:147) passes as soon as every salt
\* was remembered: only a lost or not yet saved salt can make it fail.
OwnerVerifies ==
  (\A i \in 1..Len(log) : log[i].salted => i - 1 \in DOMAIN store)
    => verify_with_salts(log, store)

\* What an author of entry i states about the log it had read: the status a
\* change starts from, the custodian a transfer takes over from.
ClaimHolds(payload, l) ==
  CASE payload.type = "status.change"    -> payload.from = current_status(l)
    [] payload.type = "custody.transfer" -> payload.from = custodian(l)
    [] OTHER -> TRUE

\* An author that told the truth about the log it had read also tells the truth
\* about the log its event ends up on, and its status change is then a legal
\* move: append's check of the sequence number (log.rs:83) is the only thing
\* between the reading and the appending that keeps others out.
HonestClaimsHold ==
  \A i \in 1..Len(log) :
    LET p      == log[i].event.payload
        Read   == [j \in 1..Len(grounds[i]) |-> [event |-> grounds[i][j]]]
        Before == SubSeq(log, 1, i - 1)
    IN  ClaimHolds(p, Read) =>
          /\ ClaimHolds(p, Before)
          /\ p.type = "status.change" =>
               CanTransition(current_status(Before),
                             current_status(SubSeq(log, 1, i)))

-----------------------------------------------------------------------------
(* Action properties and refinement.                                       *)

Severity(flag) ==
  CASE flag = "none" -> 0 [] flag = "security-flagged" -> 1
    [] flag = "recall-active" -> 2

\* No event, of whatever kind, lowers the safety flag a verifier is shown.
FlagNeverClears ==
  [][Severity(safety_flag(log')) >= Severity(safety_flag(log))]_log

\* Once the log reaches past t, the state hash at t is settled for good:
\* nothing recorded later, and however it is dated, rewrites the as-of view.
SettledViewsStay ==
  [][\A t \in Times :
       (\E i \in 1..Len(log) : log[i].event.at > t)
         => state_hash_at(log', t) = state_hash_at(log, t)]_log

\* The log with its authors is the atomic ledger: what looks like read, then
\* build, then append is one indivisible decision.
AtomicLedger == INSTANCE Ledger WITH
  entries <- [i \in 1..Len(log) |-> [event |-> log[i].event, read |-> grounds[i]]]

ImplementsLedger == AtomicLedger!Spec

-----------------------------------------------------------------------------
(* What the documentation says and the code does not do.                   *)

\* "All events that had occurred by `t` (as-of prefix view)" (log.rs:187).
AsOfHasAllEvents ==
  \A t \in Times, i \in 1..Len(log) :
    log[i].event.at <= t => i <= AsOfLen(log, t)

=============================================================================
