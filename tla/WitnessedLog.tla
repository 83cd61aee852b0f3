---------------------------- MODULE WitnessedLog ----------------------------
(***************************************************************************)
(* The event log with the two things outside it that its verification is   *)
(* about: a transparency log that witnesses the head of the log, and the   *)
(* copy of the log a verifier holds.  The transparency log is external:    *)
(* the code only takes the witnessed head as an argument.  A copy is the   *)
(* serialized log read back, so it may be outdated, cut short, edited in   *)
(* place, or continued by somebody else into a fork of the history.        *)
(***************************************************************************)
EXTENDS EventLog

CONSTANT MaxEdits   \* bound on in-place edits of one copy

VARIABLES
  copy,       \* the EventLog the verifier holds
  edits,      \* in-place edits made to it so far
  anchor,     \* the last witnessed head, NoHash if there is none
  witnessed   \* history: the log at the moment it was witnessed

copyVars == <<copy, edits>>
wvars == <<vars, copyVars, anchor, witnessed>>

WInit ==
  /\ Init
  /\ copy = << >> /\ edits = 0
  /\ anchor = NoHash /\ witnessed = << >>

\* The head of the log is put on the transparency log.
Witness ==
  /\ log # << >>
  /\ anchor' = head(log)
  /\ witnessed' = log
  /\ UNCHANGED <<vars, copyVars>>

\* The verifier gets the log as it is now.
Serve ==
  /\ copy' = log
  /\ edits' = 0
  /\ UNCHANGED <<vars, anchor, witnessed>>

\* The copy loses its last entry (truncate_for_test).
Truncate ==
  /\ copy # << >>
  /\ copy' = SubSeq(copy, 1, Len(copy) - 1)
  /\ UNCHANGED <<vars, edits, anchor, witnessed>>

\* The event of one entry of the copy is replaced where it stands.
EditInPlace(i, event) ==
  /\ edits < MaxEdits
  /\ copy' = [copy EXCEPT ![i].event = event]
  /\ edits' = edits + 1
  /\ UNCHANGED <<vars, anchor, witnessed>>

\* Somebody appends to the copy instead of the log.
Fork(event, salt) ==
  /\ Len(copy) < MaxLen
  /\ event.seq = Len(copy)
  /\ copy' = Append(copy, Seal(copy, event, salt, RefFor(event, salt)))
  /\ UNCHANGED <<vars, edits, anchor, witnessed>>

BoundedEvents == [seq : 0..MaxLen - 1, at : Times, payload : Payloads]

WNext ==
  \/ Next /\ UNCHANGED <<copyVars, anchor, witnessed>>
  \/ Witness
  \/ Serve
  \/ Truncate
  \/ \E event \in BoundedEvents :
       \/ \E i \in 1..Len(copy) : EditInPlace(i, event)
       \/ \E salt \in Salts \cup {NoSalt} : Fork(event, salt)

WSpec == WInit /\ [][WNext]_wvars

-----------------------------------------------------------------------------
(* Properties.                                                             *)

AllUnsalted(l) == \A i \in 1..Len(l) : ~l[i].salted

\* verify_against_anchor takes a head, so it is asked only when there is one.
HeadWitnessed(l) == anchor # NoHash /\ verify_against_anchor(l, anchor)

\* A verifier that holds no salt and whose copy has no salted entry: when the
\* copy passes verify and its head is the witnessed one, it records exactly
\* the events of the log as it was witnessed, whatever happened to the copy.
AnchoredCopyIsGenuine ==
  verify(copy) /\ AllUnsalted(copy) /\ HeadWitnessed(copy)
    => EventsOf(copy) = EventsOf(witnessed)

\* The owner, with the salt store, learns the same of any copy at all.
AnchoredCopyIsGenuineToOwner ==
  verify_with_salts(copy, store) /\ HeadWitnessed(copy)
    => EventsOf(copy) = EventsOf(witnessed)

\* "Recompute the full chain. Detects any in-place tampering." (log.rs:101),
\* for copies that differ from the log only in the events of their entries.
InPlaceEditsDetected ==
  Len(copy) = Len(log)
  /\ (\A i \in 1..Len(log) : [copy[i] EXCEPT !.event = log[i].event] = log[i])
  /\ EventsOf(copy) # EventsOf(log)
    => ~verify(copy)

=============================================================================
