------------------------- MODULE VerificationProofs -------------------------
(***************************************************************************)
(* What holds of the event log, of its served and anchored copies, of the  *)
(* verdicts given on them and of the cards printed from it, for every set  *)
(* of authors, payloads, dates and salts, every log, copy, clock,          *)
(* freshness requirement, signature set and profile, every length, and     *)
(* every order of cards.                                                   *)
(***************************************************************************)
EXTENDS Verification, TextProofs

-----------------------------------------------------------------------------
(* EventLog: what any number of authors leave behind.                      *)

\* What append leaves behind at position i: the number, the back pointer, and
\* a commitment over both that was salted exactly when the entry says so.
ChainedAt(l, i) ==
  LET salt == l[i].commitment.salt
  IN  /\ l[i].event.seq = i - 1
      /\ l[i].prev = PrevOf(l, i)
      /\ salt \in Salts \cup {NoSalt}
      /\ l[i].commitment = event_commitment(l[i].event, PrevOf(l, i), salt)
      /\ l[i].salted = (salt # NoSalt)
      /\ l[i].salt_ref = IF salt = NoSalt THEN NoRef ELSE i - 1
      /\ WellFormed(l[i].event.payload)

Chained == \A i \in 1..Len(log) : ChainedAt(log, i)

\* A reference and a salt belong together.
Matches(l, r, salt) ==
  /\ r \in Nat /\ r < Len(l)
  /\ l[r+1].salted
  /\ l[r+1].commitment.salt = salt

UnsavedMatch == \A a \in Authors : unsaved[a] # Nothing =>
                  Matches(log, unsaved[a].ref, unsaved[a].salt)

\* A draft carries a prefix of the log and the number that comes after it.
DraftsArePrefixes ==
  \A a \in Authors : drafts[a] # Nothing =>
    /\ drafts[a].event.seq <= Len(log)
    /\ drafts[a].read = [j \in 1..drafts[a].event.seq |-> log[j].event]
    /\ WellFormed(drafts[a].event.payload)

GroundsArePrefixes ==
  \A i \in 1..Len(log) : grounds[i] = [j \in 1..i-1 |-> log[j].event]

IInv ==
  /\ TypeOK
  /\ Chained
  /\ StoreMatchesChain
  /\ UnsavedMatch
  /\ DraftsArePrefixes
  /\ GroundsArePrefixes

-----------------------------------------------------------------------------
(* Sequences.                                                              *)

LEMMA AppendEntries ==
  ASSUME NEW S, NEW s \in Seq(S), NEW e
  PROVE  /\ Append(s, e) \in Seq(S \cup {e})
         /\ Len(Append(s, e)) = Len(s) + 1
         /\ \A i \in 1..Len(s) : Append(s, e)[i] = s[i]
         /\ Append(s, e)[Len(s)+1] = e
  OBVIOUS

LEMMA PrefixEvents ==
  ASSUME NEW S, NEW l \in Seq(S), \A i \in 1..Len(l) : l[i].event \in Events
  PROVE  EventsOf(l) \in Seq(Events) /\ Len(EventsOf(l)) = Len(l)
  BY DEF EventsOf

LEMMA ElementsOf ==
  ASSUME NEW S, NEW s \in Seq(S)
  PROVE  Len(s) \in Nat /\ DOMAIN s = 1..Len(s) /\ \A i \in 1..Len(s) : s[i] \in S
  OBVIOUS

-----------------------------------------------------------------------------
(* Types.                                                                  *)

LEMMA LogEntries ==
  ASSUME TypeOK
  PROVE  /\ log \in Seq(SealedEvents) /\ Len(log) \in Nat
         /\ \A i \in 1..Len(log) : log[i].event \in Events
<1>1. log \in Seq(SealedEvents)
  BY DEF TypeOK
<1>2. Len(log) \in Nat /\ \A i \in 1..Len(log) : log[i] \in SealedEvents
  BY <1>1, ElementsOf
<1>3. \A e \in SealedEvents : e.event \in Events
  BY DEF SealedEvents
<1> QED BY <1>1, <1>2, <1>3

\* The entry that Push adds, and the log after it.
LEMMA PushedEntry ==
  ASSUME TypeOK, NEW a \in Authors, NEW salt \in Salts \cup {NoSalt},
         drafts[a] # Nothing, Push(a, salt)
  PROVE  LET entry == Seal(log, drafts[a].event, salt, RefFor(drafts[a].event, salt))
         IN  /\ log' = Append(log, entry)
             /\ Len(log') = Len(log) + 1 /\ Len(log) \in Nat
             /\ \A i \in 1..Len(log) : log'[i] = log[i]
             /\ log'[Len(log)+1] = entry
             /\ Hashes' = Hashes \cup {entry.commitment}
             /\ log' \in Seq(SealedEvents')
<1> DEFINE entry == Seal(log, drafts[a].event, salt, RefFor(drafts[a].event, salt))
<1>1. log \in Seq(SealedEvents) /\ drafts[a].event \in Events
  BY DEF TypeOK
<1>2. log' = Append(log, entry)
  BY DEF Push
<1>3. /\ Len(log') = Len(log) + 1 /\ Len(log) \in Nat
      /\ \A i \in 1..Len(log) : log'[i] = log[i]
      /\ log'[Len(log)+1] = entry
  <2> HIDE DEF entry
  <2> QED BY <1>1, <1>2, AppendEntries
<1>4. Hashes' = Hashes \cup {entry.commitment}
  <2> HIDE DEF entry
  <2> QED BY <1>3 DEF Hashes
<1>5. entry \in SealedEvents'
  <2>1. entry.prev \in {NoHash} \cup Hashes
    <3>1. log # << >> => Len(log) \in 1..Len(log)
      BY <1>1
    <3> QED BY <3>1 DEF Seal, head, Hashes
  <2>2. /\ entry = [event |-> entry.event, prev |-> entry.prev,
                    commitment |-> entry.commitment, salted |-> entry.salted,
                    salt_ref |-> entry.salt_ref]
        /\ entry.event \in Events /\ entry.salted \in BOOLEAN
        /\ entry.salt_ref \in Nat \cup {NoRef}
    BY <1>1 DEF Seal, RefFor, Events
  <2> HIDE DEF entry
  <2> QED BY <2>1, <2>2, <1>4 DEF SealedEvents, Events
<1>6. SealedEvents \subseteq SealedEvents'
  <2> HIDE DEF entry
  <2> QED BY <1>4 DEF SealedEvents, Events
<1>7. log' \in Seq(SealedEvents')
  <2> HIDE DEF entry
  <2> QED BY <1>1, <1>2, <1>5, <1>6
<1> QED
  BY <1>2, <1>3, <1>4, <1>7

LEMMA TypeInit == Init => TypeOK
  BY ConstantsOK DEF Init, TypeOK, SealedEvents

\* Steps that leave the log alone leave the possible entries alone.
LEMMA SameEntries == log' = log => SealedEvents' = SealedEvents
  BY DEF SealedEvents, Hashes, Events

LEMMA TypeStep == TypeOK /\ [Next]_vars => TypeOK'
<1> SUFFICES ASSUME TypeOK, [Next]_vars PROVE TypeOK'
  OBVIOUS
<1> USE DEF TypeOK
<1>1. ASSUME NEW a \in Authors, NEW at \in Times, NEW payload \in Payloads,
             Prepare(a, at, payload)
      PROVE  TypeOK'
  <2>1. EventsOf(log) \in Seq(Events)
    BY LogEntries, PrefixEvents
  <2>2. [seq |-> Len(log), at |-> at, payload |-> payload] \in Events
    BY DEF Events
  <2>3. log' \in Seq(SealedEvents')
    BY <1>1, SameEntries DEF Prepare
  <2>4. \A b \in Authors : drafts'[b] # Nothing =>
          drafts'[b].event \in Events /\ drafts'[b].read \in Seq(Events)
    BY <1>1, <2>1, <2>2 DEF Prepare
  <2>5. DOMAIN drafts' = Authors
    BY <1>1 DEF Prepare
  <2>6. UNCHANGED <<log, store, unsaved, grounds>>
    BY <1>1 DEF Prepare
  <2> QED BY <2>3, <2>4, <2>5, <2>6
<1>2. ASSUME NEW a \in Authors, NEW salt \in Salts \cup {NoSalt},
             AppendEvent(a, salt)
      PROVE  TypeOK'
  <2>1. log' \in Seq(SealedEvents') /\ Len(log') = Len(log) + 1
    BY <1>2, PushedEntry DEF AppendEvent
  <2>2. grounds' \in Seq(Seq(Events)) /\ Len(grounds') = Len(grounds) + 1
    BY <1>2 DEF AppendEvent, Push
  <2>3. \A b \in Authors : unsaved'[b] # Nothing => unsaved'[b] \in [ref : Nat, salt : Salts]
    BY <1>2, ConstantsOK DEF AppendEvent, Push, RefFor, Events
  <2>4. DOMAIN drafts' = Authors /\ DOMAIN unsaved' = Authors
    BY <1>2 DEF AppendEvent, Push
  <2>5. \A b \in Authors : drafts'[b] # Nothing =>
          drafts'[b].event \in Events /\ drafts'[b].read \in Seq(Events)
    BY <1>2 DEF AppendEvent, Push
  <2>6. store' = store
    BY <1>2 DEF AppendEvent, Push
  <2> QED BY <2>1, <2>2, <2>3, <2>4, <2>5, <2>6
<1>3. ASSUME NEW a \in Authors, RefuseEvent(a)
      PROVE  TypeOK'
  <2>1. log' \in Seq(SealedEvents')
    BY <1>3, SameEntries DEF RefuseEvent
  <2> QED BY <1>3, <2>1 DEF RefuseEvent
<1>4. ASSUME NEW a \in Authors, Remember(a)
      PROVE  TypeOK'
  <2>1. log' \in Seq(SealedEvents')
    BY <1>4, SameEntries DEF Remember
  <2> QED BY <1>4, <2>1 DEF Remember
<1>5. ASSUME NEW a \in Authors, LoseSalt(a)
      PROVE  TypeOK'
  <2>1. log' \in Seq(SealedEvents')
    BY <1>5, SameEntries DEF LoseSalt
  <2> QED BY <1>5, <2>1 DEF LoseSalt
<1>6. ASSUME UNCHANGED vars
      PROVE  TypeOK'
  <2>1. log' \in Seq(SealedEvents')
    BY <1>6, SameEntries DEF vars
  <2> QED BY <1>6, <2>1 DEF vars
<1> QED
  BY <1>1, <1>2, <1>3, <1>4, <1>5, <1>6 DEF Next

\* Every value a variable ever holds has the type its struct declares
\* (log.rs:24-46, log.rs:283-286), whatever the constants are.
THEOREM TypeCorrect == Spec => []TypeOK
  BY TypeInit, TypeStep, PTL DEF Spec
-----------------------------------------------------------------------------
(* The inductive invariant.                                                *)

LEMMA InvInit == Init => IInv
  BY TypeInit
     DEF Init, IInv, Chained, StoreMatchesChain, UnsavedMatch,
         DraftsArePrefixes, GroundsArePrefixes

\* What an append adds keeps the log a chain.
LEMMA AppendChains ==
  ASSUME TypeOK, Chained, DraftsArePrefixes,
         NEW a \in Authors, NEW salt \in Salts \cup {NoSalt}, AppendEvent(a, salt)
  PROVE  Chained'
<1> DEFINE event == drafts[a].event
           entry == Seal(log, event, salt, RefFor(event, salt))
<1>1. /\ Len(log') = Len(log) + 1 /\ Len(log) \in Nat
      /\ \A i \in 1..Len(log) : log'[i] = log[i]
      /\ log'[Len(log)+1] = entry
  BY PushedEntry DEF AppendEvent
<1>2. ASSUME NEW i \in 1..Len(log) PROVE ChainedAt(log', i)
  <2>1. log'[i] = log[i] /\ PrevOf(log', i) = PrevOf(log, i)
    BY <1>1 DEF PrevOf
  <2> QED BY <2>1 DEF Chained, ChainedAt
<1>3. ChainedAt(log', Len(log)+1)
  <2>1. PrevOf(log', Len(log)+1) = head(log)
    <3>1. log = << >> <=> Len(log) = 0
      BY LogEntries
    <3> QED BY <1>1, <3>1 DEF PrevOf, head
  <2>2. /\ entry.commitment.salt = salt /\ entry.event = event
        /\ entry.prev = head(log) /\ entry.salted = (salt # NoSalt)
        /\ entry.commitment = event_commitment(event, head(log), salt)
        /\ entry.salt_ref = IF salt = NoSalt THEN NoRef ELSE event.seq
    BY DEF Seal, event_commitment, RefFor
  <2>3. event.seq = Len(log) /\ WellFormed(event.payload)
    BY DEF AppendEvent, DraftsArePrefixes
  <2> HIDE DEF entry, event
  <2> QED BY <1>1, <2>1, <2>2, <2>3 DEF ChainedAt
<1> QED BY <1>1, <1>2, <1>3 DEF Chained

\* A reference keeps its salt, and a newly used salt has its own reference.
LEMMA AppendMatches ==
  ASSUME TypeOK, StoreMatchesChain, UnsavedMatch,
         NEW a \in Authors, NEW salt \in Salts \cup {NoSalt}, AppendEvent(a, salt)
  PROVE  StoreMatchesChain' /\ UnsavedMatch'
<1> DEFINE event == drafts[a].event
           entry == Seal(log, event, salt, RefFor(event, salt))
<1>1. /\ Len(log') = Len(log) + 1 /\ Len(log) \in Nat
      /\ \A i \in 1..Len(log) : log'[i] = log[i]
      /\ log'[Len(log)+1] = entry
  BY PushedEntry DEF AppendEvent
<1>2. \A r, s : Matches(log, r, s) => Matches(log', r, s)
  BY <1>1 DEF Matches
<1>3. StoreMatchesChain'
  <2>1. store' = store /\ DOMAIN store \subseteq Nat
    BY DEF AppendEvent, Push, TypeOK
  <2> QED BY <1>1, <2>1 DEF StoreMatchesChain
<1>4. salt # NoSalt => Matches(log', Len(log), salt)
  <2>1. entry.commitment.salt = salt /\ (salt # NoSalt => entry.salted)
    BY DEF Seal, event_commitment
  <2> HIDE DEF entry
  <2> QED BY <1>1, <2>1 DEF Matches
<1>5. UnsavedMatch'
  <2>1. event.seq = Len(log)
    BY DEF AppendEvent
  <2>2. CASE salt = NoSalt
    <3>1. unsaved' = unsaved
      BY <2>2 DEF AppendEvent, Push
    <3> QED BY <3>1, <1>2 DEF UnsavedMatch
  <2>3. CASE salt # NoSalt
    <3>1. unsaved' = [unsaved EXCEPT ![a] = [ref |-> Len(log), salt |-> salt]]
      BY <2>1, <2>3 DEF AppendEvent, Push, RefFor
    <3>2. ASSUME NEW b \in Authors, unsaved'[b] # Nothing
          PROVE  Matches(log', unsaved'[b].ref, unsaved'[b].salt)
      <4>1. CASE b = a
        BY <4>1, <3>1, <1>4, <2>3 DEF TypeOK
      <4>2. CASE b # a
        <5>1. unsaved'[b] = unsaved[b]
          BY <3>1, <4>2
        <5> QED BY <5>1, <3>2, <1>2 DEF UnsavedMatch
      <4> QED BY <4>1, <4>2
    <3> QED BY <3>2 DEF UnsavedMatch
  <2> QED BY <2>2, <2>3
<1> QED BY <1>3, <1>5

\* What the author had read is the log up to its event.
LEMMA AppendGrounds ==
  ASSUME TypeOK, DraftsArePrefixes, GroundsArePrefixes,
         NEW a \in Authors, NEW salt \in Salts \cup {NoSalt}, AppendEvent(a, salt)
  PROVE  DraftsArePrefixes' /\ GroundsArePrefixes'
<1>1. /\ Len(log') = Len(log) + 1 /\ Len(log) \in Nat
      /\ \A i \in 1..Len(log) : log'[i] = log[i]
  BY PushedEntry DEF AppendEvent
<1>2. \A k \in 0..Len(log) : [j \in 1..k |-> log'[j].event] = [j \in 1..k |-> log[j].event]
  BY <1>1
<1>3. DraftsArePrefixes'
  <2> SUFFICES ASSUME NEW b \in Authors, drafts'[b] # Nothing
               PROVE  /\ drafts'[b].event.seq <= Len(log')
                      /\ drafts'[b].read =
                           [j \in 1..drafts'[b].event.seq |-> log'[j].event]
                      /\ WellFormed(drafts'[b].event.payload)
    BY DEF DraftsArePrefixes
  <2>1. drafts'[b] = drafts[b] /\ drafts[b] # Nothing
    BY DEF AppendEvent, Push, TypeOK
  <2>2. drafts[b].event.seq \in Nat /\ drafts[b].event.seq <= Len(log)
    BY <2>1 DEF TypeOK, Events, DraftsArePrefixes
  <2>3. /\ drafts[b].read = [j \in 1..drafts[b].event.seq |-> log[j].event]
        /\ WellFormed(drafts[b].event.payload)
    BY <2>1 DEF DraftsArePrefixes
  <2> QED BY <1>1, <1>2, <2>1, <2>2, <2>3
<1>4. GroundsArePrefixes'
  <2>1. /\ Len(grounds) = Len(log) /\ grounds \in Seq(Seq(Events))
        /\ grounds' = Append(grounds, drafts[a].read)
    BY DEF TypeOK, AppendEvent, Push
  <2>2. \A i \in 1..Len(log) : grounds'[i] = grounds[i]
    BY <2>1, <1>1
  <2>3. grounds'[Len(log)+1] = drafts[a].read
    BY <2>1, <1>1
  <2>4. drafts[a].read = [j \in 1..Len(log) |-> log[j].event]
    BY DEF AppendEvent, DraftsArePrefixes
  <2>5. ASSUME NEW i \in 1..Len(log')
        PROVE  grounds'[i] = [j \in 1..i-1 |-> log'[j].event]
    <3>1. CASE i \in 1..Len(log)
      <4>1. grounds'[i] = [j \in 1..i-1 |-> log[j].event]
        BY <3>1, <2>2 DEF GroundsArePrefixes
      <4>2. i - 1 \in 0..Len(log)
        BY <3>1, <1>1
      <4>3. [j \in 1..i-1 |-> log'[j].event] = [j \in 1..i-1 |-> log[j].event]
        BY <1>2, <4>2
      <4> QED BY <4>1, <4>3
    <3>2. CASE i = Len(log) + 1
      <4>1. i - 1 = Len(log) /\ Len(log) \in 0..Len(log)
        BY <3>2 DEF TypeOK
      <4>2. [j \in 1..i-1 |-> log'[j].event] = [j \in 1..Len(log) |-> log[j].event]
        BY <4>1, <1>2
      <4> QED BY <3>2, <4>2, <2>3, <2>4
    <3>3. i \in 1..Len(log) \/ i = Len(log) + 1
      <4>1. Len(log') = Len(log) + 1 /\ Len(log) \in Nat
        BY <1>1 DEF TypeOK
      <4> QED BY <4>1
    <3> QED BY <3>1, <3>2, <3>3, Zenon
  <2>6. GroundsArePrefixes' <=> \A i \in 1..Len(log') :
                                  grounds'[i] = [j \in 1..i-1 |-> log'[j].event]
    BY DEF GroundsArePrefixes
  <2> QED BY <2>5, <2>6, Zenon
<1> QED BY <1>3, <1>4
\* Steps that leave the log and what was read alone.
LEMMA LogKept ==
  ASSUME log' = log, grounds' = grounds
  PROVE  /\ Chained => Chained'
         /\ GroundsArePrefixes => GroundsArePrefixes'
  BY DEF Chained, GroundsArePrefixes

LEMMA InvStep == IInv /\ [Next]_vars => IInv'
<1> SUFFICES ASSUME IInv, [Next]_vars PROVE IInv'
  OBVIOUS
<1>0. /\ TypeOK /\ Chained /\ StoreMatchesChain /\ UnsavedMatch
      /\ DraftsArePrefixes /\ GroundsArePrefixes
  BY DEF IInv
<1>t. TypeOK'
  BY <1>0, TypeStep
<1>1. ASSUME NEW a \in Authors, NEW at \in Times, NEW payload \in Payloads,
             Prepare(a, at, payload)
      PROVE  IInv'
  <2>1. UNCHANGED <<log, store, unsaved, grounds>>
    BY <1>1 DEF Prepare
  <2>2. Chained' /\ GroundsArePrefixes'
    BY <2>1, <1>0, LogKept
  <2>3. StoreMatchesChain' /\ UnsavedMatch'
    BY <2>1, <1>0 DEF StoreMatchesChain, UnsavedMatch
  <2>4. DraftsArePrefixes'
    <3> SUFFICES ASSUME NEW b \in Authors, drafts'[b] # Nothing
                 PROVE  /\ drafts'[b].event.seq <= Len(log')
                        /\ drafts'[b].read =
                             [j \in 1..drafts'[b].event.seq |-> log'[j].event]
                        /\ WellFormed(drafts'[b].event.payload)
      BY DEF DraftsArePrefixes
    <3>1. CASE b = a
      <4>1. drafts'[b] = [event |-> [seq |-> Len(log), at |-> at, payload |-> payload],
                          read  |-> EventsOf(log)]
        BY <3>1, <1>1, <1>0 DEF Prepare, TypeOK
      <4>2. WellFormed(payload) /\ Len(log) \in Nat
        BY <1>1, <1>0, LogEntries DEF Prepare
      <4> QED BY <4>1, <4>2, <2>1 DEF EventsOf
    <3>2. CASE b # a
      BY <3>2, <1>1, <1>0, <2>1 DEF Prepare, DraftsArePrefixes, TypeOK
    <3> QED BY <3>1, <3>2
  <2> QED BY <1>t, <2>2, <2>3, <2>4 DEF IInv
<1>2. ASSUME NEW a \in Authors, NEW salt \in Salts \cup {NoSalt},
             AppendEvent(a, salt)
      PROVE  IInv'
  BY <1>0, <1>t, <1>2, AppendChains, AppendMatches, AppendGrounds DEF IInv
<1>3. ASSUME NEW a \in Authors, RefuseEvent(a)
      PROVE  IInv'
  <2>1. UNCHANGED <<log, store, unsaved, grounds>>
    BY <1>3 DEF RefuseEvent
  <2>2. Chained' /\ GroundsArePrefixes'
    BY <2>1, <1>0, LogKept
  <2>3. StoreMatchesChain' /\ UnsavedMatch'
    BY <2>1, <1>0 DEF StoreMatchesChain, UnsavedMatch
  <2>4. \A b \in Authors : drafts'[b] # Nothing => drafts'[b] = drafts[b]
    BY <1>3, <1>0 DEF RefuseEvent, TypeOK
  <2>5. DraftsArePrefixes'
    BY <2>1, <2>4, <1>0 DEF DraftsArePrefixes
  <2> QED BY <1>t, <2>2, <2>3, <2>5 DEF IInv
<1>4. ASSUME NEW a \in Authors, Remember(a)
      PROVE  IInv'
  <2>1. UNCHANGED <<log, drafts, grounds>>
    BY <1>4 DEF Remember
  <2>2. Chained' /\ GroundsArePrefixes' /\ DraftsArePrefixes'
    BY <2>1, <1>0, LogKept DEF DraftsArePrefixes
  <2>3. Matches(log, unsaved[a].ref, unsaved[a].salt)
    BY <1>4, <1>0 DEF Remember, UnsavedMatch
  <2>4. StoreMatchesChain'
    BY <2>1, <2>3, <1>4, <1>0 DEF Remember, StoreMatchesChain, Matches
  <2>5. \A b \in Authors : unsaved'[b] # Nothing => unsaved'[b] = unsaved[b]
    BY <1>4, <1>0 DEF Remember, TypeOK
  <2>6. UnsavedMatch'
    BY <2>1, <2>5, <1>0 DEF UnsavedMatch
  <2> QED BY <1>t, <2>2, <2>4, <2>6 DEF IInv
<1>5. ASSUME NEW a \in Authors, LoseSalt(a)
      PROVE  IInv'
  <2>1. UNCHANGED <<log, store, drafts, grounds>>
    BY <1>5 DEF LoseSalt
  <2>2. Chained' /\ GroundsArePrefixes' /\ DraftsArePrefixes' /\ StoreMatchesChain'
    BY <2>1, <1>0, LogKept DEF DraftsArePrefixes, StoreMatchesChain
  <2>3. \A b \in Authors : unsaved'[b] # Nothing => unsaved'[b] = unsaved[b]
    BY <1>5, <1>0 DEF LoseSalt, TypeOK
  <2>4. UnsavedMatch'
    BY <2>1, <2>3, <1>0 DEF UnsavedMatch
  <2> QED BY <1>t, <2>2, <2>4 DEF IInv
<1>6. ASSUME UNCHANGED vars
      PROVE  IInv'
  <2>1. UNCHANGED <<log, store, drafts, unsaved, grounds>>
    BY <1>6 DEF vars
  <2>2. Chained' /\ GroundsArePrefixes'
    BY <2>1, <1>0, LogKept
  <2> QED BY <2>1, <2>2, <1>0, <1>t
          DEF IInv, StoreMatchesChain, UnsavedMatch, DraftsArePrefixes
<1> QED
  BY <1>1, <1>2, <1>3, <1>4, <1>5, <1>6 DEF Next

THEOREM Invariance == Spec => []IInv
  BY InvInit, InvStep, PTL DEF Spec

-----------------------------------------------------------------------------
(* What follows from it.                                                   *)

LEMMA ChainFromInv == IInv => ChainVerifies
<1> SUFFICES ASSUME Chained, NEW i \in 1..Len(log) PROVE VerifyEntry(log, i)
  BY DEF IInv, ChainVerifies, verify
<1>1. ChainedAt(log, i)
  BY DEF Chained
<1>2. log[i].commitment # event_commitment(log[i].event, PrevOf(log, i), NoSalt)
        <=> log[i].commitment.salt # NoSalt
  BY <1>1 DEF ChainedAt, event_commitment
<1>3. log[i].salted = (log[i].commitment.salt # NoSalt)
  BY <1>1 DEF ChainedAt
<1> QED BY <1>1, <1>2, <1>3 DEF ChainedAt, VerifyEntry

\* The log that any interleaving of any authors leaves behind passes
\* EventLog::verify (log.rs:102).
THEOREM ChainAlwaysVerifies == Spec => []ChainVerifies
BY ChainFromInv, Invariance, PTL

\* No author's salt ever answers for another author's entry (log.rs:301).
THEOREM StoreAlwaysMatches == Spec => []StoreMatchesChain
<1>1. IInv => StoreMatchesChain
  BY DEF IInv
<1> QED BY <1>1, Invariance, PTL

\* With every salt remembered the owner's pass (log.rs:147) accepts the log.
THEOREM OwnerAlwaysVerifies == Spec => []OwnerVerifies
<1>1. IInv => OwnerVerifies
  <2> SUFFICES ASSUME Chained, StoreMatchesChain, NEW i \in 1..Len(log),
                      log[i].salted => i - 1 \in DOMAIN store
               PROVE  VerifyEntryWithSalts(log, i, store)
    BY DEF IInv, OwnerVerifies, verify_with_salts
  <2>1. ChainedAt(log, i)
    BY DEF Chained
  <2>2. SaltFor(log[i], store) = log[i].commitment.salt
    <3>1. CASE log[i].commitment.salt = NoSalt
      BY <3>1, <2>1 DEF ChainedAt, SaltFor
    <3>2. CASE log[i].commitment.salt # NoSalt
      <4>1. log[i].salted /\ log[i].salt_ref = i - 1 /\ i - 1 \in DOMAIN store
        BY <3>2, <2>1 DEF ChainedAt
      <4>2. store[i-1] = log[i].commitment.salt
        BY <4>1 DEF StoreMatchesChain
      <4> QED BY <4>1, <4>2 DEF SaltFor
    <3> QED BY <3>1, <3>2
  <2> QED BY <2>1, <2>2 DEF ChainedAt, VerifyEntryWithSalts
<1> QED BY <1>1, Invariance, PTL
-----------------------------------------------------------------------------
(* The log with its authors is the atomic ledger.                          *)

\* What the ledger shows: each event with what its author had read.
Entries == [i \in 1..Len(log) |-> [event |-> log[i].event, read |-> grounds[i]]]

LEMMA AppendRecords ==
  ASSUME IInv, NEW a \in Authors, NEW salt \in Salts \cup {NoSalt},
         AppendEvent(a, salt)
  PROVE  AtomicLedger!Record
<1>0. TypeOK /\ DraftsArePrefixes
  BY DEF IInv
<1>1. /\ Len(log') = Len(log) + 1 /\ Len(log) \in Nat
      /\ \A i \in 1..Len(log) : log'[i] = log[i]
      /\ log'[Len(log)+1].event = drafts[a].event
  <2> DEFINE entry == Seal(log, drafts[a].event, salt, RefFor(drafts[a].event, salt))
  <2>1. /\ Len(log') = Len(log) + 1 /\ Len(log) \in Nat
        /\ \A i \in 1..Len(log) : log'[i] = log[i]
        /\ log'[Len(log)+1] = entry
    BY <1>0, PushedEntry DEF AppendEvent
  <2>2. entry.event = drafts[a].event
    BY DEF Seal
  <2> HIDE DEF entry
  <2> QED BY <2>1, <2>2
<1>2. /\ \A i \in 1..Len(log) : grounds'[i] = grounds[i]
      /\ grounds'[Len(log)+1] = drafts[a].read
  <2>1. /\ Len(grounds) = Len(log) /\ grounds \in Seq(Seq(Events))
        /\ grounds' = Append(grounds, drafts[a].read)
    BY <1>0 DEF TypeOK, AppendEvent, Push
  <2> QED BY <2>1, <1>1
<1>3. drafts[a].event.seq = Len(log)
  BY DEF AppendEvent
<1>4. drafts[a].read = [j \in 1..Len(log) |-> log[j].event]
  BY <1>0, <1>3 DEF AppendEvent, DraftsArePrefixes
<1>5. /\ Len(Entries) = Len(log) /\ Len(Entries') = Len(log) + 1
      /\ \A i \in 1..Len(log) : Entries'[i] = Entries[i]
      /\ Entries'[Len(log)+1] = [event |-> drafts[a].event, read |-> drafts[a].read]
      /\ \A i \in 1..Len(log) : Entries[i].event = log[i].event
  <2>1. Len(Entries) = Len(log) /\ Len(Entries') = Len(log')
    BY <1>1 DEF Entries
  <2>2. \A i \in 1..Len(log) : Entries[i] = [event |-> log[i].event, read |-> grounds[i]]
    BY DEF Entries
  <2>3. \A i \in 1..Len(log') :
          Entries'[i] = [event |-> log'[i].event, read |-> grounds'[i]]
    BY DEF Entries
  <2>4. Len(log) + 1 \in 1..Len(log') /\ \A i \in 1..Len(log) : i \in 1..Len(log')
    BY <1>1
  <2> HIDE DEF Entries
  <2>5. \A i \in 1..Len(log) : Entries'[i] = Entries[i]
    BY <2>2, <2>3, <2>4, <1>1, <1>2
  <2>6. Entries'[Len(log)+1] = [event |-> drafts[a].event, read |-> drafts[a].read]
    BY <2>3, <2>4, <1>1, <1>2
  <2>7. ASSUME NEW i \in 1..Len(log) PROVE Entries[i].event = log[i].event
    <3>1. Entries[i] = [event |-> log[i].event, read |-> grounds[i]]
      BY <2>2
    <3> QED BY <3>1
  <2>8. Len(Entries') = Len(log) + 1
    BY <2>1, <1>1
  <2> QED BY <2>1, <2>5, <2>6, <2>7, <2>8
<1>6. SubSeq(Entries', 1, Len(log)) = Entries
  <2>1. Entries = [i \in 1..Len(log) |-> Entries[i]]
    BY DEF Entries
  <2>2. SubSeq(Entries', 1, Len(log)) = [i \in 1..Len(log) |-> Entries'[i]]
    BY <1>1, <1>5
  <2> QED BY <2>1, <2>2, <1>5
<1>7. Entries'[Len(log)+1].read = [i \in 1..Len(log) |-> Entries[i].event]
  BY <1>4, <1>5
<1>8. AtomicLedger!Record <=>
        /\ Len(Entries') = Len(Entries) + 1
        /\ SubSeq(Entries', 1, Len(Entries)) = Entries
        /\ Entries'[Len(Entries)+1].event.seq = Len(Entries)
        /\ Entries'[Len(Entries)+1].read = [i \in 1..Len(Entries) |-> Entries[i].event]
  BY DEF AtomicLedger!Record, Entries
<1> HIDE DEF Entries
<1> QED BY <1>3, <1>5, <1>6, <1>7, <1>8

\* Reading, building and appending, interleaved with everybody else's, amount
\* to one indivisible decision (log.rs:76): the log implements Ledger.
THEOREM LedgerImplemented == Spec => ImplementsLedger
<1>1. Init => AtomicLedger!Init
  BY DEF Init, AtomicLedger!Init
<1>2. IInv /\ [Next]_vars => [AtomicLedger!Record]_Entries
  <2> SUFFICES ASSUME IInv, [Next]_vars, Entries' # Entries
               PROVE  AtomicLedger!Record
    OBVIOUS
  <2>1. PICK a \in Authors, salt \in Salts \cup {NoSalt} : AppendEvent(a, salt)
    <3>1. log' # log \/ grounds' # grounds
      BY DEF Entries
    <3> QED BY <3>1 DEF Next, vars, Prepare, RefuseEvent, Remember, LoseSalt
  <2> QED BY <2>1, AppendRecords
<1>3. IInv /\ [Next]_vars =>
        [AtomicLedger!Record]_([i \in 1..Len(log) |->
                                  [event |-> log[i].event, read |-> grounds[i]]])
  BY <1>2 DEF Entries
<1> QED
  BY <1>1, <1>3, Invariance, PTL DEF Spec, ImplementsLedger, AtomicLedger!Spec
-----------------------------------------------------------------------------
(* Replays.                                                                *)

\* The position a replay ends on lies in the log.
LEMMA LastStatusPosition ==
  ASSUME NEW l, Len(l) \in Nat
  PROVE  LET hits == {i \in 1..Len(l) : BearsStatus(l[i].event.payload)}
         IN  /\ hits = {} => LastWhere(l, BearsStatus) = 0
             /\ hits # {} => /\ LastWhere(l, BearsStatus) \in hits
                             /\ \A j \in hits : j <= LastWhere(l, BearsStatus)
<1> DEFINE hits == {i \in 1..Len(l) : BearsStatus(l[i].event.payload)}
<1>1. LastWhere(l, BearsStatus) =
        IF hits = {} THEN 0 ELSE CHOOSE i \in hits : \A j \in hits : j <= i
  BY Zenon DEF LastWhere
<1>2. hits \subseteq 1..Len(l)
  OBVIOUS
<1> HIDE DEF hits
<1>3. hits # {} => \E i \in hits : \A j \in hits : j <= i
  BY <1>2, GreatestElement
<1>4. QED BY <1>1, <1>3 DEF hits

LEMMA LastTransferPosition ==
  ASSUME NEW l, Len(l) \in Nat
  PROVE  LET hits == {i \in 1..Len(l) : IsCustodyTransfer(l[i].event.payload)}
         IN  /\ hits = {} => LastWhere(l, IsCustodyTransfer) = 0
             /\ hits # {} => /\ LastWhere(l, IsCustodyTransfer) \in hits
                             /\ \A j \in hits : j <= LastWhere(l, IsCustodyTransfer)
<1> DEFINE hits == {i \in 1..Len(l) : IsCustodyTransfer(l[i].event.payload)}
<1>1. LastWhere(l, IsCustodyTransfer) =
        IF hits = {} THEN 0 ELSE CHOOSE i \in hits : \A j \in hits : j <= i
  BY Zenon DEF LastWhere
<1>2. hits \subseteq 1..Len(l)
  OBVIOUS
<1> HIDE DEF hits
<1>3. hits # {} => \E i \in hits : \A j \in hits : j <= i
  BY <1>2, GreatestElement
<1>4. QED BY <1>1, <1>3 DEF hits

\* A replay depends on the events alone.
LEMMA SameReplays ==
  ASSUME NEW k, NEW l, Len(k) \in Nat, Len(l) = Len(k),
         \A i \in 1..Len(k) : k[i].event = l[i].event
  PROVE  current_status(k) = current_status(l) /\ custodian(k) = custodian(l)
<1>1. LastWhere(k, BearsStatus) = LastWhere(l, BearsStatus)
  <2> DEFINE hits(m) == {i \in 1..Len(m) : BearsStatus(m[i].event.payload)}
             last(H) == IF H = {} THEN 0 ELSE CHOOSE i \in H : \A j \in H : j <= i
  <2>1. hits(k) = hits(l)
    OBVIOUS
  <2>2. LastWhere(k, BearsStatus) = last(hits(k))
    BY Zenon DEF LastWhere
  <2>3. LastWhere(l, BearsStatus) = last(hits(l))
    BY Zenon DEF LastWhere
  <2> HIDE DEF hits, last
  <2> QED BY <2>1, <2>2, <2>3
<1>2. LastWhere(k, IsCustodyTransfer) = LastWhere(l, IsCustodyTransfer)
  <2> DEFINE hits(m) == {i \in 1..Len(m) : IsCustodyTransfer(m[i].event.payload)}
             last(H) == IF H = {} THEN 0 ELSE CHOOSE i \in H : \A j \in H : j <= i
  <2>1. hits(k) = hits(l)
    OBVIOUS
  <2>2. LastWhere(k, IsCustodyTransfer) = last(hits(k))
    BY Zenon DEF LastWhere
  <2>3. LastWhere(l, IsCustodyTransfer) = last(hits(l))
    BY Zenon DEF LastWhere
  <2> HIDE DEF hits, last
  <2> QED BY <2>1, <2>2, <2>3
<1>3. LastWhere(k, BearsStatus) = 0 \/ LastWhere(k, BearsStatus) \in 1..Len(k)
  BY LastStatusPosition
<1>4. LastWhere(k, IsCustodyTransfer) = 0 \/ LastWhere(k, IsCustodyTransfer) \in 1..Len(k)
  BY LastTransferPosition
<1>5. current_status(k) = current_status(l)
  BY <1>1, <1>3 DEF current_status
<1>6. custodian(k) = custodian(l)
  BY <1>2, <1>4 DEF custodian
<1> QED BY <1>5, <1>6

\* A status change at the end of a log decides its status.
LEMMA LastChangeDecides ==
  ASSUME NEW l, Len(l) \in Nat, Len(l) # 0,
         l[Len(l)].event.payload.type = "status.change"
  PROVE  current_status(l) = l[Len(l)].event.payload.to
<1> DEFINE hits == {i \in 1..Len(l) : BearsStatus(l[i].event.payload)}
<1>1. Len(l) \in hits
  BY DEF BearsStatus
<1>2. /\ LastWhere(l, BearsStatus) \in hits
      /\ \A j \in hits : j <= LastWhere(l, BearsStatus)
  BY <1>1, LastStatusPosition
<1>3. LastWhere(l, BearsStatus) \in 1..Len(l) /\ Len(l) <= LastWhere(l, BearsStatus)
  <2>1. hits \subseteq 1..Len(l)
    OBVIOUS
  <2> HIDE DEF hits
  <2> QED BY <1>1, <1>2, <2>1
<1>4. LastWhere(l, BearsStatus) = Len(l)
  <2> DEFINE last == LastWhere(l, BearsStatus)
  <2> HIDE DEF last
  <2>1. last \in 1..Len(l) /\ Len(l) <= last
    BY <1>3 DEF last
  <2>2. last = Len(l)
    BY <2>1
  <2> QED BY <2>2 DEF last
<1> QED BY <1>4 DEF current_status, StatusAfter

\* An author that told the truth about the log it had read tells the truth
\* about the log its event is on: append's sequence check (log.rs:83) keeps
\* everybody else out in between, and the change it records is then legal.
THEOREM HonestClaimsAlwaysHold == Spec => []HonestClaimsHold
<1>1. IInv => HonestClaimsHold
  <2> SUFFICES ASSUME IInv, NEW i \in 1..Len(log)
               PROVE  LET p      == log[i].event.payload
                          Read   == [j \in 1..Len(grounds[i]) |->
                                       [event |-> grounds[i][j]]]
                          Before == SubSeq(log, 1, i - 1)
                      IN  ClaimHolds(p, Read) =>
                            /\ ClaimHolds(p, Before)
                            /\ p.type = "status.change" =>
                                 CanTransition(current_status(Before),
                                               current_status(SubSeq(log, 1, i)))
    BY DEF HonestClaimsHold
  <2> DEFINE p      == log[i].event.payload
             Read   == [j \in 1..Len(grounds[i]) |-> [event |-> grounds[i][j]]]
             Before == SubSeq(log, 1, i - 1)
             Upto   == SubSeq(log, 1, i)
  <2>1. log \in Seq(SealedEvents) /\ Len(log) \in Nat
    BY LogEntries DEF IInv
  <2>2. grounds[i] = [j \in 1..i-1 |-> log[j].event] /\ ChainedAt(log, i)
    BY DEF IInv, GroundsArePrefixes, Chained
  <2>3. Len(Before) = i - 1 /\ \A j \in 1..i-1 : Before[j] = log[j]
    BY <2>1
  <2>4. Len(Read) = i - 1 /\ \A j \in 1..i-1 : Read[j] = [event |-> log[j].event]
    BY <2>1, <2>2
  <2>5. Len(Upto) = i /\ Upto[i] = log[i]
    BY <2>1
  <2> HIDE DEF Read, Before, Upto
  <2>6. i - 1 \in Nat /\ \A j \in 1..i-1 : Read[j].event = Before[j].event
    <3>1. ASSUME NEW j \in 1..i-1 PROVE Read[j].event = Before[j].event
      <4>1. Read[j] = [event |-> log[j].event] /\ Before[j] = log[j]
        BY <2>3, <2>4
      <4> QED BY <4>1
    <3> QED BY <3>1, <2>1
  <2>7. current_status(Read) = current_status(Before) /\ custodian(Read) = custodian(Before)
    BY <2>3, <2>4, <2>6, SameReplays
  <2>8. ClaimHolds(p, Read) <=> ClaimHolds(p, Before)
    BY <2>7 DEF ClaimHolds
  <2>9. ASSUME ClaimHolds(p, Before), p.type = "status.change"
        PROVE  CanTransition(current_status(Before), current_status(Upto))
    <3>1. p.from = current_status(Before) /\ CanTransition(p.from, p.to)
      BY <2>9, <2>2 DEF ClaimHolds, ChainedAt, WellFormed
    <3>2. current_status(Upto) = p.to
      BY <2>9, <2>5, <2>1, LastChangeDecides
    <3> QED BY <3>1, <3>2
  <2> QED BY <2>8, <2>9 DEF Read, Before, Upto
<1> QED BY <1>1, Invariance, PTL

-----------------------------------------------------------------------------
(* Views of the past.                                                      *)

\* No step takes an entry away or changes one.
LEMMA LogGrows ==
  ASSUME TypeOK, [Next]_vars
  PROVE  /\ Len(log) \in Nat /\ Len(log') \in Nat /\ Len(log) <= Len(log')
         /\ \A i \in 1..Len(log) : log'[i] = log[i]
<1>1. Len(log) \in Nat
  BY LogEntries
<1>2. CASE log' = log
  BY <1>1, <1>2
<1>3. ASSUME NEW a \in Authors, NEW salt \in Salts \cup {NoSalt}, AppendEvent(a, salt)
      PROVE  /\ Len(log') = Len(log) + 1
             /\ \A i \in 1..Len(log) : log'[i] = log[i]
  BY <1>3, PushedEntry DEF AppendEvent
<1>4. log' = log \/ \E a \in Authors, salt \in Salts \cup {NoSalt} : AppendEvent(a, salt)
  BY Zenon DEF Next, vars, Prepare, RefuseEvent, Remember, LoseSalt
<1>5. CASE \E a \in Authors, salt \in Salts \cup {NoSalt} : AppendEvent(a, salt)
  BY <1>1, <1>3, <1>5
<1> QED BY <1>2, <1>4, <1>5

\* Where the first event after t stands, the view at t ends before it.
LEMMA AsOfLenAt ==
  ASSUME NEW l, Len(l) \in Nat, NEW t, NEW m \in 1..Len(l),
         l[m].event.at > t, \A i \in 1..m-1 : l[i].event.at <= t,
         t \in Int, \A i \in 1..m : l[i].event.at \in Int
  PROVE  AsOfLen(l, t) = m - 1
<1> DEFINE Ends(n) == /\ \A i \in 1..n : l[i].event.at <= t
                      /\ n < Len(l) => l[n+1].event.at > t
<1>1. m - 1 \in 0..Len(l) /\ Ends(m - 1)
  BY (m - 1) + 1 = m
<1>2. ASSUME NEW n \in 0..Len(l), Ends(n)
      PROVE  n = m - 1
  <2>1. ~(m <= n)
    BY <1>2, m \in 1..n \/ ~(m <= n)
  <2>2. ~(n < m - 1)
    <3> SUFFICES ASSUME n < m - 1 PROVE FALSE
      OBVIOUS
    <3>1. n + 1 \in 1..m-1 /\ n < Len(l) /\ l[n+1].event.at \in Int
      OBVIOUS
    <3>2. l[n+1].event.at > t /\ l[n+1].event.at <= t
      BY <1>2, <3>1
    <3> QED BY <3>2
  <2> QED BY <2>1, <2>2
<1> QED BY <1>1, <1>2 DEF AsOfLen

\* Two logs with the same events up to one that is after t have the same view at t.
LEMMA AsOfLenSettled ==
  ASSUME NEW x, NEW y, Len(x) \in Nat, Len(y) \in Nat, Len(x) <= Len(y),
         \A i \in 1..Len(x) : y[i].event = x[i].event,
         \A i \in 1..Len(x) : x[i].event.at \in Int,
         NEW t \in Int, \E i \in 1..Len(x) : x[i].event.at > t
  PROVE  /\ AsOfLen(x, t) = AsOfLen(y, t)
         /\ AsOfLen(x, t) \in 0..Len(x) - 1
<1> DEFINE After == {i \in 1..Len(x) : x[i].event.at > t}
<1>1. PICK m \in After : \A i \in After : m <= i
  <2>1. After \subseteq Nat /\ After # {}
    OBVIOUS
  <2> HIDE DEF After
  <2> QED BY <2>1, LeastElement
<1>2. m \in 1..Len(x) /\ m \in 1..Len(y) /\ x[m].event.at > t
  OBVIOUS
<1>3. ASSUME NEW i \in 1..m-1 PROVE x[i].event.at <= t /\ y[i].event.at <= t
  <2>1. i \in 1..Len(x) /\ i \notin After
    BY <1>1, <1>2
  <2> QED BY <2>1
<1> HIDE DEF After
<1>4. \A i \in 1..m : x[i].event.at \in Int /\ y[i].event.at \in Int
  <2> SUFFICES ASSUME NEW i \in 1..m PROVE x[i].event.at \in Int /\ y[i].event.at \in Int
    OBVIOUS
  <2>1. i \in 1..Len(x)
    BY <1>2
  <2> QED BY <2>1
<1>5. AsOfLen(x, t) = m - 1
  BY <1>2, <1>3, <1>4, AsOfLenAt
<1>6. AsOfLen(y, t) = m - 1
  <2>1. y[m].event.at > t
    BY <1>2
  <2> QED BY <1>2, <1>3, <1>4, <2>1, AsOfLenAt
<1> QED BY <1>2, <1>5, <1>6

\* A state hash that is settled is never rewritten (log.rs:191).
THEOREM SettledViewsAlwaysStay == Spec => SettledViewsStay
<1>1. ASSUME TypeOK, [Next]_vars, NEW t \in Times,
             \E i \in 1..Len(log) : log[i].event.at > t
      PROVE  state_hash_at(log', t) = state_hash_at(log, t)
  <2>1. /\ Len(log) \in Nat /\ Len(log') \in Nat /\ Len(log) <= Len(log')
        /\ \A i \in 1..Len(log) : log'[i] = log[i]
    BY <1>1, LogGrows
  <2>2. t \in Int /\ \A i \in 1..Len(log) : log[i].event.at \in Int
    BY <1>1, LogEntries, ConstantsOK DEF Events
  <2> DEFINE n == AsOfLen(log, t)
  <2>3. AsOfLen(log', t) = n /\ n \in 0..Len(log) - 1
    BY <1>1, <2>1, <2>2, AsOfLenSettled
  <2> HIDE DEF n
  <2>4. log \in Seq(SealedEvents) /\ log' \in Seq(SealedEvents')
    BY <1>1, TypeStep DEF TypeOK
  <2>5. SubSeq(log', 1, n) = SubSeq(log, 1, n)
    <3>1. \A i \in 1..n : log'[i] = log[i]
      BY <2>1, <2>3
    <3> QED BY <2>1, <2>3, <2>4, <3>1
  <2> QED BY <2>3, <2>5 DEF state_hash_at, as_of, n
<1>2. TypeOK /\ [Next]_vars =>
        [\A t \in Times :
           (\E i \in 1..Len(log) : log[i].event.at > t)
             => state_hash_at(log', t) = state_hash_at(log, t)]_log
  BY <1>1
<1> QED BY <1>2, TypeCorrect, PTL DEF Spec, SettledViewsStay

\* No event lowers the safety flag (log.rs:232).
THEOREM FlagNeverClearedBySteps == Spec => FlagNeverClears
<1>1. ASSUME TypeOK, [Next]_vars
      PROVE  Severity(safety_flag(log')) >= Severity(safety_flag(log))
  <2>1. /\ Len(log) \in Nat /\ Len(log') \in Nat /\ Len(log) <= Len(log')
        /\ \A i \in 1..Len(log) : log'[i] = log[i]
    BY <1>1, LogGrows
  <2>2. ASSUME NEW type, Seen(log, type) PROVE Seen(log', type)
    <3>1. PICK i \in 1..Len(log) : log[i].event.payload.type = type
      BY <2>2 DEF Seen
    <3>2. i \in 1..Len(log') /\ log'[i].event.payload.type = type
      BY <2>1, <3>1
    <3> QED BY <3>2 DEF Seen
  <2>3. /\ Seen(log, "recall.campaign") => Seen(log', "recall.campaign")
        /\ Seen(log, "flag.security") => Seen(log', "flag.security")
    BY <2>2
  <2> QED BY <2>3 DEF Severity, safety_flag
<1>2. TypeOK /\ [Next]_vars =>
        [Severity(safety_flag(log')) >= Severity(safety_flag(log))]_log
  BY <1>1
<1> QED BY <1>2, TypeCorrect, PTL DEF Spec, FlagNeverClears

-----------------------------------------------------------------------------
(* WitnessedLog: what an anchored copy of the log tells its holder, for    *)
(* every number and kind of edits, truncations and forks it went through.  *)

\* A sequence, of whatever it holds.
IsSequence(s) == s \in Seq({s[i] : i \in 1..Len(s)})

\* What a passing verification establishes of a log: every commitment covers
\* its event and the commitment before it.
Linked(l) ==
  \A i \in 1..Len(l) :
    /\ l[i].event.seq = i - 1
    /\ l[i].commitment.body = l[i].event
    /\ l[i].commitment.prev = PrevOf(l, i)

WInv ==
  /\ IInv
  /\ IsSequence(copy) /\ IsSequence(witnessed)
  /\ Linked(witnessed)
  /\ anchor = head(witnessed)

LEMMA AnySequence ==
  ASSUME NEW S, NEW s \in Seq(S)
  PROVE  IsSequence(s)
  BY DEF IsSequence

-----------------------------------------------------------------------------
(* One commitment fixes the whole history before it.                       *)

LEMMA SameHeadSameEvents ==
  ASSUME NEW k, NEW l, IsSequence(k), IsSequence(l), k # << >>, l # << >>,
         Linked(k), Linked(l), head(k) = head(l)
  PROVE  EventsOf(k) = EventsOf(l)
<1>1. Len(k) \in Nat /\ Len(l) \in Nat /\ Len(k) # 0 /\ Len(l) # 0
  BY DEF IsSequence
<1>2. k[Len(k)].commitment = l[Len(l)].commitment
  BY DEF head
<1>3. Len(k) = Len(l)
  <2>1. Len(k) \in 1..Len(k) /\ Len(l) \in 1..Len(l)
    BY <1>1
  <2>2. k[Len(k)].event.seq = Len(k) - 1 /\ l[Len(l)].event.seq = Len(l) - 1
    BY <2>1 DEF Linked
  <2>3. k[Len(k)].event = l[Len(l)].event
    BY <1>2, <2>1 DEF Linked
  <2> QED BY <1>1, <2>2, <2>3
<1> DEFINE T == {i \in 1..Len(k) : k[i].commitment # l[i].commitment}
<1>4. T = {}
  <2> SUFFICES ASSUME T # {} PROVE FALSE
    OBVIOUS
  <2>1. T \subseteq 1..Len(k)
    OBVIOUS
  <2>2. PICK g \in T : \A i \in T : i <= g
    <3> HIDE DEF T
    <3> QED BY <1>1, <2>1, GreatestElement
  <2>3. g \in 1..Len(k) /\ k[g].commitment # l[g].commitment
    OBVIOUS
  <2>4. g # Len(k)
    BY <1>2, <1>3, <2>3
  <2>5. g + 1 \in 1..Len(k) /\ g + 1 # 1 /\ (g + 1) - 1 = g
    BY <1>1, <2>3, <2>4
  <2>6. g + 1 \notin T
    <3> HIDE DEF T
    <3> QED BY <2>2, <2>3
  <2>7. k[g+1].commitment = l[g+1].commitment
    BY <2>5, <2>6
  <2>8. PrevOf(k, g+1) = PrevOf(l, g+1)
    BY <1>3, <2>5, <2>7 DEF Linked
  <2> QED BY <2>3, <2>5, <2>8 DEF PrevOf
<1>5. \A i \in 1..Len(k) : k[i].event = l[i].event
  BY <1>3, <1>4 DEF Linked
<1> QED BY <1>3, <1>5 DEF EventsOf

\* The two passes that establish Linked.
LEMMA VerifiedIsLinked ==
  ASSUME NEW l, verify(l), AllUnsalted(l)
  PROVE  Linked(l)
<1> SUFFICES ASSUME NEW i \in 1..Len(l)
             PROVE  /\ l[i].event.seq = i - 1
                    /\ l[i].commitment.body = l[i].event
                    /\ l[i].commitment.prev = PrevOf(l, i)
  BY DEF Linked
<1>1. VerifyEntry(l, i) /\ ~l[i].salted
  BY DEF verify, AllUnsalted
<1>2. l[i].commitment = event_commitment(l[i].event, PrevOf(l, i), NoSalt)
  BY <1>1, Zenon DEF VerifyEntry
<1>3. l[i].event.seq = i - 1
  BY <1>1, Zenon DEF VerifyEntry
<1> QED BY <1>2, <1>3 DEF event_commitment

LEMMA VerifiedWithSaltsIsLinked ==
  ASSUME NEW l, NEW salts, verify_with_salts(l, salts)
  PROVE  Linked(l)
<1> SUFFICES ASSUME NEW i \in 1..Len(l)
             PROVE  /\ l[i].event.seq = i - 1
                    /\ l[i].commitment.body = l[i].event
                    /\ l[i].commitment.prev = PrevOf(l, i)
  BY DEF Linked
<1>1. VerifyEntryWithSalts(l, i, salts)
  BY DEF verify_with_salts
<1>2. l[i].commitment
        = event_commitment(l[i].event, PrevOf(l, i), SaltFor(l[i], salts))
  BY <1>1, Zenon DEF VerifyEntryWithSalts
<1>3. l[i].event.seq = i - 1
  BY <1>1, Zenon DEF VerifyEntryWithSalts
<1> QED BY <1>2, <1>3 DEF event_commitment

-----------------------------------------------------------------------------
(* The invariant.                                                          *)

LEMMA LogIsLinked ==
  ASSUME IInv
  PROVE  IsSequence(log) /\ Linked(log)
<1>1. IsSequence(log)
  BY LogEntries, AnySequence DEF IInv
<1>2. ASSUME NEW i \in 1..Len(log)
      PROVE  /\ log[i].event.seq = i - 1
             /\ log[i].commitment.body = log[i].event
             /\ log[i].commitment.prev = PrevOf(log, i)
  <2>1. ChainedAt(log, i)
    BY DEF IInv, Chained
  <2> QED BY <2>1 DEF ChainedAt, event_commitment
<1> QED BY <1>1, <1>2 DEF Linked

LEMMA WInvInit == WInit => WInv
<1> SUFFICES ASSUME WInit PROVE WInv
  OBVIOUS
<1>1. IInv
  BY InvInit DEF WInit
<1>2. copy = << >> /\ witnessed = << >> /\ anchor = NoHash
  BY DEF WInit
<1> QED BY <1>1, <1>2 DEF WInv, IsSequence, Linked, head

\* Whatever is done to a copy, it remains a sequence.
LEMMA CopyStep ==
  ASSUME IsSequence(copy), IsSequence(log), WNext
  PROVE  IsSequence(copy')
<1> DEFINE E == {copy[i] : i \in 1..Len(copy)}
<1>0. copy \in Seq(E)
  BY DEF IsSequence
<1>1. CASE copy' = copy
  BY <1>1
<1>2. CASE Serve
  BY <1>2 DEF Serve
<1>3. CASE Truncate
  <2>1. copy # << >> /\ copy' = SubSeq(copy, 1, Len(copy) - 1)
    BY <1>3 DEF Truncate
  <2> HIDE DEF E
  <2>2. copy' \in Seq(E)
    BY <1>0, <2>1
  <2> QED BY <2>2, AnySequence
<1>4. ASSUME NEW event, NEW i \in 1..Len(copy), EditInPlace(i, event)
      PROVE  IsSequence(copy')
  <2> DEFINE e == [copy[i] EXCEPT !.event = event]
  <2>1. copy' = [copy EXCEPT ![i] = e]
    BY <1>4 DEF EditInPlace
  <2> HIDE DEF E, e
  <2>2. copy' \in Seq(E \cup {e})
    BY <1>0, <2>1
  <2> QED BY <2>2, AnySequence
<1>5. ASSUME NEW event, NEW salt, Fork(event, salt)
      PROVE  IsSequence(copy')
  <2> DEFINE e == Seal(copy, event, salt, RefFor(event, salt))
  <2>1. copy' = Append(copy, e)
    BY <1>5 DEF Fork
  <2> HIDE DEF E, e
  <2>2. copy' \in Seq(E \cup {e})
    BY <1>0, <2>1, AppendEntries
  <2> QED BY <2>2, AnySequence
<1> QED BY <1>1, <1>2, <1>3, <1>4, <1>5 DEF WNext, Witness, copyVars

LEMMA WInvStep == WInv /\ [WNext]_wvars => WInv'
<1> SUFFICES ASSUME WInv, [WNext]_wvars PROVE WInv'
  OBVIOUS
<1>1. IInv'
  <2>1. [Next]_vars
    BY DEF wvars, WNext, Witness, Serve, Truncate, EditInPlace, Fork
  <2> QED BY <2>1, InvStep DEF WInv
<1>2. IsSequence(log) /\ Linked(log)
  BY LogIsLinked DEF WInv
<1>3. IsSequence(copy')
  <2>1. CASE WNext
    BY <2>1, <1>2, CopyStep DEF WInv
  <2>2. CASE UNCHANGED wvars
    BY <2>2 DEF wvars, copyVars, WInv
  <2> QED BY <2>1, <2>2
<1>4. IsSequence(witnessed') /\ Linked(witnessed') /\ anchor' = head(witnessed')
  <2>1. CASE witnessed' = log /\ anchor' = head(log)
    BY <1>2, <2>1
  <2>2. CASE witnessed' = witnessed /\ anchor' = anchor
    BY <2>2 DEF WInv
  <2>3. \/ witnessed' = log /\ anchor' = head(log)
        \/ witnessed' = witnessed /\ anchor' = anchor
    BY DEF wvars, WNext, Witness, Serve, Truncate, EditInPlace, Fork
  <2> QED BY <2>1, <2>2, <2>3
<1> QED BY <1>1, <1>3, <1>4 DEF WInv

LEMMA WInvariance == WSpec => []WInv
  BY WInvInit, WInvStep, PTL DEF WSpec

-----------------------------------------------------------------------------
(* The theorems.                                                           *)

LEMMA AnchoredAndLinked ==
  ASSUME WInv, HeadWitnessed(copy), Linked(copy)
  PROVE  EventsOf(copy) = EventsOf(witnessed)
<1>1. copy # << >> /\ head(copy) = head(witnessed) /\ anchor # NoHash
  BY DEF HeadWitnessed, verify_against_anchor, WInv
<1>2. witnessed # << >>
  BY <1>1 DEF WInv, head
<1> QED BY <1>1, <1>2, SameHeadSameEvents DEF WInv

\* For a holder without salts: an unsalted copy that passes verify and ends on
\* the witnessed head records the witnessed events (log.rs:102, log.rs:173).
THEOREM AnchoredCopyAlwaysGenuine == WSpec => []AnchoredCopyIsGenuine
<1>1. WInv => AnchoredCopyIsGenuine
  BY VerifiedIsLinked, AnchoredAndLinked DEF AnchoredCopyIsGenuine
<1> QED BY <1>1, WInvariance, PTL

\* For the owner with its salts: any copy that passes verify_with_salts and
\* ends on the witnessed head does (log.rs:147, log.rs:173).
THEOREM OwnersAnchoredCopyAlwaysGenuine == WSpec => []AnchoredCopyIsGenuineToOwner
<1>1. WInv => AnchoredCopyIsGenuineToOwner
  BY VerifiedWithSaltsIsLinked, AnchoredAndLinked DEF AnchoredCopyIsGenuineToOwner
<1> QED BY <1>1, WInvariance, PTL

-----------------------------------------------------------------------------
(* Verification: what a passing verdict is worth.                          *)

\* Every event of the copy has a date, whoever put it there.
CopyDated == \A i \in 1..Len(copy) : copy[i].event.at \in Times

NInv == WInv /\ CopyDated /\ now \in Nat

LEMMA CopyDatedStep ==
  ASSUME IInv, IsSequence(copy), CopyDated, WNext
  PROVE  CopyDated'
<1> DEFINE E == {copy[i] : i \in 1..Len(copy)}
<1>0. copy \in Seq(E) /\ Len(copy) \in Nat /\ DOMAIN copy = 1..Len(copy)
  BY DEF IsSequence
<1> HIDE DEF E
<1>1. CASE copy' = copy
  BY <1>1 DEF CopyDated
<1>2. CASE Serve
  <2>1. ASSUME NEW i \in 1..Len(log) PROVE log[i].event.at \in Times
    <3>1. log[i].event \in Events
      BY LogEntries DEF IInv
    <3> QED BY <3>1 DEF Events
  <2> QED BY <1>2, <2>1 DEF Serve, CopyDated
<1>3. CASE Truncate
  <2>1. copy # << >> /\ copy' = SubSeq(copy, 1, Len(copy) - 1)
    BY <1>3 DEF Truncate
  <2>2. Len(copy') = Len(copy) - 1 /\ \A i \in 1..Len(copy) - 1 : copy'[i] = copy[i]
    BY <1>0, <2>1
  <2> QED BY <1>0, <2>2 DEF CopyDated
<1>4. ASSUME NEW event \in BoundedEvents, NEW i \in 1..Len(copy), EditInPlace(i, event)
      PROVE  CopyDated'
  <2>1. copy' = [copy EXCEPT ![i] = [copy[i] EXCEPT !.event = event]]
    BY <1>4 DEF EditInPlace
  <2>2. Len(copy') = Len(copy)
    BY <1>0, <2>1
  <2>3. ASSUME NEW j \in 1..Len(copy) PROVE copy'[j].event.at \in Times
    <3>1. CASE j # i
      <4>1. copy'[j] = copy[j]
        BY <1>0, <2>1, <3>1
      <4> QED BY <4>1 DEF CopyDated
    <3>2. CASE j = i
      <4>1. copy'[j] = [copy[i] EXCEPT !.event = event]
        BY <1>0, <2>1, <3>2
      <4>2. copy'[j].event.at = event.at \/ copy'[j].event.at = copy[i].event.at
        BY <4>1
      <4> QED BY <4>2 DEF CopyDated, BoundedEvents
    <3> QED BY <3>1, <3>2
  <2> QED BY <2>2, <2>3 DEF CopyDated
<1>5. ASSUME NEW event \in BoundedEvents, NEW salt, Fork(event, salt)
      PROVE  CopyDated'
  <2> DEFINE e == Seal(copy, event, salt, RefFor(event, salt))
  <2>1. copy' = Append(copy, e)
    BY <1>5 DEF Fork
  <2>2. e.event.at \in Times
    BY DEF Seal, BoundedEvents
  <2> HIDE DEF e
  <2>3. /\ Len(copy') = Len(copy) + 1 /\ copy'[Len(copy)+1] = e
        /\ \A i \in 1..Len(copy) : copy'[i] = copy[i]
    BY <1>0, <2>1, AppendEntries
  <2> QED BY <1>0, <2>2, <2>3 DEF CopyDated
<1> QED BY <1>1, <1>2, <1>3, <1>4, <1>5 DEF WNext, Witness, copyVars

LEMMA NInvInit == NInit => NInv
<1>1. WInit => copy = << >>
  BY DEF WInit
<1> QED BY <1>1, WInvInit DEF NInit, NInv, CopyDated

LEMMA NInvStep == NInv /\ [NNext]_nvars => NInv'
<1> SUFFICES ASSUME NInv, [NNext]_nvars PROVE NInv'
  OBVIOUS
<1>1. WInv'
  <2>1. [WNext]_wvars
    BY DEF NNext, Tick, nvars
  <2> QED BY <2>1, WInvStep DEF NInv
<1>2. CopyDated'
  <2>1. CASE WNext
    BY <2>1, CopyDatedStep DEF NInv, WInv
  <2>2. CASE UNCHANGED wvars
    BY <2>2 DEF NInv, CopyDated, wvars, copyVars
  <2> QED BY <2>1, <2>2 DEF NNext, Tick, nvars
<1>3. now' \in Nat
  BY DEF NInv, NNext, Tick, nvars
<1> QED BY <1>1, <1>2, <1>3 DEF NInv

LEMMA NInvariance == NSpec => []NInv
  BY NInvInit, NInvStep, PTL DEF NSpec

\* A pass is only given with the evidence it stands for: the last rung of the
\* degradation ladder (verdict.rs:148) is out of reach of a copy that was
\* edited, cut or forked, of stale data and of missing evidence.
THEOREM PassAlwaysGenuine == NSpec => []PassIsGenuine
<1>1. ASSUME NInv, NEW e \in Evidence, outcome(copy, now, e) = "pass"
      PROVE  /\ AllUnsalted(copy) => EventsOf(copy) = EventsOf(witnessed)
             /\ e.requirement.kind = "fresh-within" =>
                  now <= last_event_at(copy) + e.requirement.max_age
             /\ e.sigs = {} \/ \E s \in e.sigs : s.signed
             /\ e.required \subseteq e.provided
             /\ trust_marker(copy, e) = "log-anchored"
  <2> DEFINE freshness == evaluate_freshness(now, last_event_at(copy), e.requirement)
  <2>1. /\ verify(copy) /\ e.anchor # NoHash /\ AnchorOk(copy, e)
        /\ freshness # "stale" /\ freshness # "indeterminate"
        /\ ~(e.sigs # {} /\ \A s \in e.sigs : FramedOnly(s))
        /\ missing(e) = {}
    BY <1>1, Zenon DEF outcome
  <2>2. e.anchor \in {NoHash, anchor} /\ e.requirement \in Requirements
    BY DEF Evidence
  <2>3. HeadWitnessed(copy)
    BY <2>1, <2>2 DEF AnchorOk, HeadWitnessed
  <2>4. AllUnsalted(copy) => EventsOf(copy) = EventsOf(witnessed)
    BY <1>1, <2>1, <2>3, VerifiedIsLinked, AnchoredAndLinked DEF NInv
  <2>5. ASSUME e.requirement.kind = "fresh-within"
        PROVE  now <= last_event_at(copy) + e.requirement.max_age
    <3>1. last_event_at(copy) \in Times
      <4>1. copy # << >> /\ IsSequence(copy)
        BY <1>1, <2>3 DEF HeadWitnessed, verify_against_anchor, NInv, WInv
      <4>2. Len(copy) \in 1..Len(copy)
        BY <4>1 DEF IsSequence
      <4> QED BY <1>1, <4>1, <4>2 DEF last_event_at, NInv, CopyDated
    <3>2. last_event_at(copy) \in Int
      BY <3>1, ConstantsOK
    <3>3. e.requirement.max_age \in Int
      BY <2>2, <2>5, VerificationConstantsOK
    <3>4. now \in Int
      BY <1>1 DEF NInv
    <3>5. ~(now - last_event_at(copy) > e.requirement.max_age)
      BY <2>1, <2>5 DEF evaluate_freshness
    <3> QED BY <3>2, <3>3, <3>4, <3>5
  <2>6. e.sigs = {} \/ \E s \in e.sigs : s.signed
    BY <2>1 DEF FramedOnly
  <2>7. e.required \subseteq e.provided
    BY <2>1 DEF missing
  <2>8. trust_marker(copy, e) = "log-anchored"
    BY <2>1 DEF trust_marker
  <2> QED BY <2>4, <2>5, <2>6, <2>7, <2>8
<1>2. NInv => PassIsGenuine
  BY <1>1 DEF PassIsGenuine
<1> QED BY <1>2, NInvariance, PTL

-----------------------------------------------------------------------------
(* Readings of the past.                                                   *)

\* The log still begins with what was witnessed.
WitnessedKept ==
  /\ Len(witnessed) <= Len(log)
  /\ \A i \in 1..Len(witnessed) : log[i] = witnessed[i]

LEMMA WitnessedKeptStep ==
  ASSUME NInv, WitnessedKept, [NNext]_nvars
  PROVE  WitnessedKept'
<1>1. TypeOK /\ Len(witnessed) \in Nat
  BY DEF NInv, WInv, IInv, IsSequence
<1>2. \/ witnessed' = witnessed /\ [Next]_vars
      \/ witnessed' = log /\ log' = log
  BY DEF NNext, Tick, nvars, wvars, vars, WNext, Witness, Serve, Truncate, EditInPlace, Fork
<1>3. CASE witnessed' = witnessed /\ [Next]_vars
  <2>1. /\ Len(log) \in Nat /\ Len(log') \in Nat /\ Len(log) <= Len(log')
        /\ \A i \in 1..Len(log) : log'[i] = log[i]
    BY <1>1, <1>3, LogGrows
  <2> QED BY <1>1, <1>3, <2>1 DEF WitnessedKept
<1>4. CASE witnessed' = log /\ log' = log
  <2>1. Len(log) \in Nat
    BY <1>1, LogEntries
  <2> QED BY <1>4, <2>1 DEF WitnessedKept
<1> QED BY <1>2, <1>3, <1>4

LEMMA WitnessedAlwaysKept == NSpec => [](NInv /\ WitnessedKept)
<1>1. NInit => WitnessedKept
  BY DEF NInit, WInit, Init, WitnessedKept
<1>2. NInv /\ WitnessedKept /\ [NNext]_nvars => NInv' /\ WitnessedKept'
  BY NInvStep, WitnessedKeptStep
<1> QED BY <1>1, <1>2, NInvInit, PTL DEF NSpec

\* A reading looks only at the events of the view.
LEMMA ReadingOfEvents ==
  ASSUME NEW x, NEW y, NEW t, AsOfLen(x, t) = AsOfLen(y, t), AsOfLen(x, t) \in Nat,
         \A i \in 1..AsOfLen(x, t) : y[i].event = x[i].event,
         verify(x) = verify(y)
  PROVE  evidentiary(x, t) = evidentiary(y, t)
<1>1. ASSUME NEW type PROVE CountAsOf(x, t, type) = CountAsOf(y, t, type)
  <2>1. {i \in 1..AsOfLen(x, t) : x[i].event.payload.type = type}
          = {i \in 1..AsOfLen(y, t) : y[i].event.payload.type = type}
    OBVIOUS
  <2> QED BY <2>1 DEF CountAsOf
<1> QED BY <1>1 DEF evidentiary

\* What a diligent verifier could know at t stands: the reading of an anchored,
\* unsalted copy that reaches past t is the reading of the log (readings.rs:75),
\* however far the log has grown and whatever was done to other copies.
THEOREM DiligenceAlwaysStands == NSpec => []DiligenceStands
<1>1. ASSUME NInv, WitnessedKept, verify(copy), AllUnsalted(copy), HeadWitnessed(copy),
             NEW t \in Times, \E i \in 1..Len(copy) : copy[i].event.at > t
      PROVE  evidentiary(copy, t) = evidentiary(log, t)
  <2>1. EventsOf(copy) = EventsOf(witnessed)
    BY <1>1, VerifiedIsLinked, AnchoredAndLinked DEF NInv
  <2>2. Len(copy) \in Nat /\ Len(witnessed) \in Nat /\ Len(log) \in Nat
    BY <1>1, LogEntries DEF NInv, WInv, IInv, IsSequence
  <2>3. /\ Len(copy) = Len(witnessed)
        /\ \A i \in 1..Len(copy) : copy[i].event = witnessed[i].event
    <3>1. /\ DOMAIN EventsOf(copy) = 1..Len(copy)
          /\ DOMAIN EventsOf(witnessed) = 1..Len(witnessed)
          /\ \A i \in 1..Len(copy) : EventsOf(copy)[i] = copy[i].event
          /\ \A i \in 1..Len(witnessed) : EventsOf(witnessed)[i] = witnessed[i].event
      BY DEF EventsOf
    <3>2. 1..Len(copy) = 1..Len(witnessed)
      BY <2>1, <3>1
    <3>3. Len(copy) = Len(witnessed)
      BY <2>2, <3>2
    <3> QED BY <2>1, <3>1, <3>3
  <2>4. Len(copy) <= Len(log) /\ \A i \in 1..Len(copy) : log[i].event = copy[i].event
    BY <1>1, <2>2, <2>3 DEF WitnessedKept
  <2>5. t \in Int /\ \A i \in 1..Len(copy) : copy[i].event.at \in Int
    BY <1>1, ConstantsOK DEF NInv, CopyDated
  <2>6. AsOfLen(copy, t) = AsOfLen(log, t) /\ AsOfLen(copy, t) \in 0..Len(copy) - 1
    BY <1>1, <2>2, <2>4, <2>5, AsOfLenSettled
  <2>7. verify(log)
    BY <1>1, ChainFromInv DEF NInv, WInv, ChainVerifies
  <2>8. \A i \in 1..AsOfLen(copy, t) : log[i].event = copy[i].event
    BY <2>2, <2>4, <2>6
  <2>9. verify(copy) = verify(log)
    BY <1>1, <2>7 DEF verify
  <2> QED BY <2>2, <2>6, <2>8, <2>9, ReadingOfEvents
<1>2. NInv /\ WitnessedKept => DiligenceStands
  BY <1>1 DEF DiligenceStands
<1> QED BY <1>2, WitnessedAlwaysKept, PTL

-----------------------------------------------------------------------------
(* Verdicts over time.                                                     *)

LEMMA StampIsTime ==
  ASSUME NInv
  PROVE  last_event_at(copy) = NoTime \/ last_event_at(copy) \in Int
<1>1. CASE copy = << >>
  BY <1>1 DEF last_event_at
<1>2. CASE copy # << >>
  <2>1. IsSequence(copy)
    BY DEF NInv, WInv
  <2>2. Len(copy) \in 1..Len(copy)
    BY <1>2, <2>1 DEF IsSequence
  <2>3. copy[Len(copy)].event.at \in Int
    BY <2>2, ConstantsOK DEF NInv, CopyDated
  <2> QED BY <1>2, <2>3 DEF last_event_at
<1> QED BY <1>1, <1>2

\* As time goes by, what was fresh may go stale, and nothing else changes.
LEMMA FreshnessWeathers ==
  ASSUME NEW time \in Int, NEW later \in Int, time <= later,
         NEW stamp, stamp = NoTime \/ stamp \in Int, NEW r \in Requirements
  PROVE  \/ evaluate_freshness(later, stamp, r) = evaluate_freshness(time, stamp, r)
         \/ /\ evaluate_freshness(later, stamp, r) = "stale"
            /\ evaluate_freshness(time, stamp, r) = "fresh"
<1>1. CASE stamp = NoTime
  BY <1>1 DEF evaluate_freshness
<1>2. CASE stamp # NoTime /\ r.kind # "fresh-within"
  BY <1>2 DEF evaluate_freshness
<1>3. CASE stamp # NoTime /\ r.kind = "fresh-within"
  <2>1. r.max_age \in Int /\ stamp \in Int
    BY <1>3, VerificationConstantsOK
  <2>2. time - stamp > r.max_age => later - stamp > r.max_age
    BY <2>1
  <2> QED BY <1>3, <2>2 DEF evaluate_freshness
<1> QED BY <1>1, <1>2, <1>3

\* Only freshness looks at the clock, and staleness ranks above no failure and
\* below no pass.
LEMMA OutcomeWeathers ==
  ASSUME NEW l, NEW time, NEW later, NEW e,
         LET stamp == last_event_at(l)
         IN  \/ evaluate_freshness(later, stamp, e.requirement)
                  = evaluate_freshness(time, stamp, e.requirement)
             \/ /\ evaluate_freshness(later, stamp, e.requirement) = "stale"
                /\ evaluate_freshness(time, stamp, e.requirement) = "fresh"
  PROVE  Grade(outcome(l, later, e)) <= Grade(outcome(l, time, e))
<1> DEFINE before == evaluate_freshness(time, last_event_at(l), e.requirement)
           after  == evaluate_freshness(later, last_event_at(l), e.requirement)
<1>0. \A o : Grade(o) \in {0, 1, 2}
  BY DEF Grade
<1>1. CASE after = before
  <2>1. outcome(l, later, e) = outcome(l, time, e)
    BY <1>1, Zenon DEF outcome
  <2> QED BY <1>0, <2>1
<1>2. CASE after = "stale" /\ before = "fresh"
  <2>1. CASE ~verify(l)
    <3>1. outcome(l, later, e) = "broken-chain"
      BY <2>1, Zenon DEF outcome
    <3> QED BY <1>0, <3>1 DEF Grade, Failures
  <2>2. CASE verify(l) /\ e.anchor # NoHash /\ ~AnchorOk(l, e)
    <3>1. outcome(l, later, e) = "anchor-mismatch"
      BY <2>2, Zenon DEF outcome
    <3> QED BY <1>0, <3>1 DEF Grade, Failures
  <2>3. CASE verify(l) /\ ~(e.anchor # NoHash /\ ~AnchorOk(l, e))
    <3>1. outcome(l, later, e) = "stale-data"
      BY <1>2, <2>3, Zenon DEF outcome
    <3>2. outcome(l, time, e) \in {"offline-no-anchor", "signatures-framed-only",
                                   "coverage-incomplete", "pass"}
      <4> HIDE DEF after
      <4> QED BY <1>2, <2>3 DEF outcome
    <3>3. Grade("stale-data") = 1
      BY DEF Grade, Failures
    <3>4. Grade(outcome(l, time, e)) >= 1
      BY <3>2 DEF Grade, Failures
    <3> QED BY <3>1, <3>3, <3>4
  <2> QED BY <2>1, <2>2, <2>3
<1> QED BY <1>1, <1>2

\* On the same copy and the same evidence waiting never helps (verdict.rs:150,
\* freshness.rs:46), whatever the requirement and the dates.
THEOREM VerdictsAlwaysOnlyWeather == NSpec => VerdictsOnlyWeather
<1>1. ASSUME NInv, [NNext]_nvars, copy' = copy, NEW e \in Evidence
      PROVE  Grade(outcome(copy', now', e)) <= Grade(outcome(copy, now, e))
  <2>1. now \in Int /\ now' \in Int /\ now <= now'
    BY <1>1 DEF NInv, NNext, Tick, nvars
  <2>2. e.requirement \in Requirements
    BY DEF Evidence
  <2>3. last_event_at(copy) = NoTime \/ last_event_at(copy) \in Int
    BY <1>1, StampIsTime
  <2>4. Grade(outcome(copy, now', e)) <= Grade(outcome(copy, now, e))
    BY <2>1, <2>2, <2>3, FreshnessWeathers, OutcomeWeathers
  <2> QED BY <1>1, <2>4
<1>2. NInv /\ [NNext]_nvars =>
        [copy' = copy /\ anchor' = anchor =>
           \A e \in Evidence :
             Grade(outcome(copy', now', e)) <= Grade(outcome(copy, now, e))]_nvars
  BY <1>1
<1> QED BY <1>2, NInvariance, PTL DEF NSpec, VerdictsOnlyWeather
-----------------------------------------------------------------------------
(* Carrier: what a printed card says of the log, however the log goes on   *)
(* and however many slots are signed.                                      *)

\* What a card shows of the first n entries of a log.
ShowsPrefix(p, l, n) ==
  /\ n = 0 => p.log_head = None
  /\ n > 0 => p.log_head = l[n].commitment /\ p.as_of = Stamp(l[n].event.at)
  /\ p.status = current_status(SubSeq(l, 1, n))
  /\ p.safety = safety_flag(SubSeq(l, 1, n))

\* A payload and a card have their fields, and nothing else.
IsPayload(p) ==
  p = [product_id |-> p.product_id, resolver_uri |-> p.resolver_uri,
       passport_id |-> p.passport_id, eo_id |-> p.eo_id, status |-> p.status,
       safety |-> p.safety, validity |-> p.validity, as_of |-> p.as_of,
       log_head |-> p.log_head, signatures |-> p.signatures]
IsCard(c) == c = [packer |-> c.packer, payload |-> c.payload, first |-> c.first,
                  packed |-> c.packed]

CardShows ==
  card # None => /\ IsCard(card) /\ IsPayload(card.payload)
                 /\ \E n \in 0..Len(log) : ShowsPrefix(card.payload, log, n)

KInv == IInv /\ CardShows

LEMMA PrefixOf ==
  ASSUME NEW S, NEW l \in Seq(S), NEW n \in 0..Len(l)
  PROVE  /\ SubSeq(l, 1, n) \in Seq(S) /\ Len(SubSeq(l, 1, n)) = n
         /\ \A i \in 1..n : SubSeq(l, 1, n)[i] = l[i]
         /\ n = Len(l) => SubSeq(l, 1, n) = l
  OBVIOUS

LEMMA GrownPrefix ==
  ASSUME NEW S, NEW T, NEW l \in Seq(S), NEW m \in Seq(T), NEW n \in 0..Len(l),
         Len(l) <= Len(m), \A i \in 1..Len(l) : m[i] = l[i]
  PROVE  SubSeq(m, 1, n) = SubSeq(l, 1, n)
  OBVIOUS

LEMMA KInvInit == CInit => KInv
  BY InvInit DEF CInit, KInv, CardShows

\* Signing a slot touches nothing but the signatures.
LEMMA SignKeeps ==
  ASSUME NEW i, IsCard(card), IsPayload(card.payload), SignSlot(i)
  PROVE  /\ IsCard(card') /\ IsPayload(card'.payload)
         /\ card'.payload.log_head = card.payload.log_head
         /\ card'.payload.as_of = card.payload.as_of
         /\ card'.payload.status = card.payload.status
         /\ card'.payload.safety = card.payload.safety
<1> DEFINE payload == [card.payload EXCEPT !.signatures[i].signature =
                         signature_len[card.payload.signatures[i].suite]]
           packed == pack(card.packer, payload)
<1>1. card' = [card EXCEPT !.payload = payload, !.packed = packed]
  BY DEF SignSlot
<1>2. /\ payload.log_head = card.payload.log_head /\ payload.as_of = card.payload.as_of
      /\ payload.status = card.payload.status /\ payload.safety = card.payload.safety
      /\ IsPayload(payload)
  BY DEF IsPayload
<1> HIDE DEF payload, packed
<1>3. card' = [packer |-> card.packer, payload |-> payload, first |-> card.first,
               packed |-> packed]
  BY <1>1 DEF IsCard
<1>4. card'.payload = payload /\ IsCard(card')
  BY <1>3 DEF IsCard
<1> QED BY <1>2, <1>4

LEMMA PackShows ==
  ASSUME TypeOK, NEW at, NEW order, PackCard(at, order)
  PROVE  CardShows'
<1> DEFINE payload == from_log(log, at, order)
           packed == pack(order.packer, payload)
<1>1. /\ card' = [packer |-> order.packer, payload |-> payload, first |-> packed,
                  packed |-> packed]
      /\ log' = log
  BY DEF PackCard, vars
<1>2. log \in Seq(SealedEvents) /\ Len(log) \in Nat
  BY LogEntries
<1>3. IsPayload(payload) /\ ShowsPrefix(payload, log, Len(log))
  <2>1. SubSeq(log, 1, Len(log)) = log
    BY <1>2
  <2>2. log = << >> <=> Len(log) = 0
    BY <1>2
  <2>3. IsPayload(payload)
    BY DEF from_log, Payload, IsPayload
  <2>4. /\ payload.status = current_status(log) /\ payload.safety = safety_flag(log)
        /\ payload.log_head = IF log = << >> THEN None ELSE head(log)
        /\ payload.as_of = Stamp(IF log = << >> THEN at ELSE log[Len(log)].event.at)
    BY DEF from_log, Payload, last_event
  <2> HIDE DEF payload
  <2>5. /\ payload.status = current_status(SubSeq(log, 1, Len(log)))
        /\ payload.safety = safety_flag(SubSeq(log, 1, Len(log)))
    BY <2>1, <2>4, Zenon
  <2>6. CASE log = << >>
    <3>1. payload.log_head = None /\ Len(log) = 0 /\ ~(Len(log) > 0)
      BY <2>2, <2>4, <2>6
    <3> QED BY <2>3, <2>5, <3>1, Zenon DEF ShowsPrefix
  <2>7. CASE log # << >>
    <3>1. /\ payload.log_head = log[Len(log)].commitment
          /\ payload.as_of = Stamp(log[Len(log)].event.at)
      BY <2>4, <2>7 DEF head
    <3>2. Len(log) # 0
      BY <2>2, <2>7
    <3> QED BY <2>3, <2>5, <3>1, <3>2, Zenon DEF ShowsPrefix
  <2> QED BY <2>6, <2>7
<1> HIDE DEF payload, packed
<1>4. IsCard(card') /\ card'.payload = payload
  BY <1>1 DEF IsCard
<1>5. Len(log) \in 0..Len(log')
  BY <1>1, <1>2
<1> QED BY <1>1, <1>3, <1>4, <1>5 DEF CardShows

LEMMA LogKeepsCard ==
  ASSUME TypeOK, CardShows, [Next]_vars, UNCHANGED card
  PROVE  CardShows'
<1> SUFFICES ASSUME card # None PROVE CardShows'
  BY DEF CardShows
<1>1. /\ Len(log) \in Nat /\ Len(log') \in Nat /\ Len(log) <= Len(log')
      /\ \A i \in 1..Len(log) : log'[i] = log[i]
  BY LogGrows
<1>2. log \in Seq(SealedEvents) /\ log' \in Seq(SealedEvents')
  BY TypeStep DEF TypeOK
<1>3. PICK n \in 0..Len(log) : ShowsPrefix(card.payload, log, n)
  BY DEF CardShows
<1>4. SubSeq(log', 1, n) = SubSeq(log, 1, n)
  BY <1>1, <1>2, GrownPrefix
<1>5. n > 0 => log'[n] = log[n]
  BY <1>1
<1>6. ShowsPrefix(card.payload, log', n)
  BY <1>3, <1>4, <1>5 DEF ShowsPrefix
<1> QED BY <1>1, <1>6 DEF CardShows

LEMMA KInvStep == KInv /\ [CNext]_cvars => KInv'
<1> SUFFICES ASSUME KInv, [CNext]_cvars PROVE KInv'
  OBVIOUS
<1>1. IInv /\ TypeOK /\ CardShows
  BY DEF KInv, IInv
<1>2. [Next]_vars
  BY DEF CNext, cvars, PackCard, SignSlot
<1>3. IInv'
  BY <1>1, <1>2, InvStep
<1>4. CASE UNCHANGED card
  BY <1>1, <1>2, <1>3, <1>4, LogKeepsCard DEF KInv
<1>5. ASSUME NEW at \in Times, NEW order \in Orders, PackCard(at, order)
      PROVE  KInv'
  BY <1>1, <1>3, <1>5, PackShows DEF KInv
<1>6. ASSUME card # None, NEW i \in DOMAIN card.payload.signatures, SignSlot(i)
      PROVE  KInv'
  <2>1. IsCard(card) /\ IsPayload(card.payload) /\ log' = log
    BY <1>1, <1>6 DEF CardShows, SignSlot, vars
  <2>2. PICK n \in 0..Len(log) : ShowsPrefix(card.payload, log, n)
    BY <1>1, <1>6 DEF CardShows
  <2>3. ShowsPrefix(card'.payload, log, n)
    BY <1>6, <2>1, <2>2, SignKeeps DEF ShowsPrefix
  <2>4. IsCard(card') /\ IsPayload(card'.payload)
    BY <1>6, <2>1, SignKeeps
  <2> QED BY <1>3, <2>1, <2>3, <2>4 DEF KInv, CardShows
<1> QED BY <1>4, <1>5, <1>6 DEF CNext, cvars

LEMMA KInvariance == CSpec => []KInv
  BY KInvInit, KInvStep, PTL DEF CSpec

\* The safety flag of a prefix is not above that of the log.
LEMMA PrefixFlag ==
  ASSUME NEW S, NEW l \in Seq(S), NEW n \in 0..Len(l)
  PROVE  Severity(safety_flag(SubSeq(l, 1, n))) <= Severity(safety_flag(l))
<1> DEFINE k == SubSeq(l, 1, n)
<1>1. Len(k) = n /\ \A i \in 1..n : k[i] = l[i]
  BY PrefixOf
<1> HIDE DEF k
<1>2. ASSUME NEW type, Seen(k, type) PROVE Seen(l, type)
  BY <1>1, <1>2 DEF Seen
<1>3. /\ Seen(k, "recall.campaign") => Seen(l, "recall.campaign")
      /\ Seen(k, "flag.security") => Seen(l, "flag.security")
  BY <1>2
<1>4. Severity(safety_flag(k)) <= Severity(safety_flag(l))
  BY <1>3 DEF Severity, safety_flag
<1> QED BY <1>4 DEF k

\* However long the log grows after a card was printed, and whatever is signed on
\* it, a card that names a head shows what the log up to that head says, and never
\* a flag above that of the log (payload.rs:33).
THEOREM CardsAlwaysProveLog == CSpec => []CardProvesLog
<1>1. ASSUME IInv, CardShows, card # None
      PROVE  CardProvesLog
  <2>1. PICK n \in 0..Len(log) : ShowsPrefix(card.payload, log, n)
    BY <1>1 DEF CardShows
  <2>2. log \in Seq(SealedEvents) /\ Len(log) \in Nat
    BY <1>1, LogEntries DEF IInv
  <2> DEFINE upto == SubSeq(log, 1, n)
  <2>3. /\ Len(upto) = n /\ upto \in Seq(SealedEvents)
        /\ \A i \in 1..n : upto[i] = log[i]
    BY <2>2, PrefixOf
  <2>4. Severity(card.payload.safety) <= Severity(safety_flag(log))
    BY <2>1, <2>2, PrefixFlag DEF ShowsPrefix
  <2>5. card.payload.status = current_status(upto) /\ card.payload.safety = safety_flag(upto)
    BY <2>1 DEF ShowsPrefix
  <2> HIDE DEF upto
  <2>6. ASSUME card.payload.log_head # None
        PROVE  /\ n \in 1..Len(log)
               /\ verify_against_anchor(upto, card.payload.log_head)
               /\ card.payload.as_of = Stamp(last_event(upto).at)
    <3>1. n > 0 /\ n \in 1..n
      BY <2>1, <2>6 DEF ShowsPrefix
    <3>2. upto # << >> /\ upto[Len(upto)] = log[n]
      BY <2>3, <3>1
    <3>3. head(upto) = log[n].commitment /\ last_event(upto) = log[n].event
      BY <3>2 DEF head, last_event
    <3>4. card.payload.log_head = log[n].commitment /\ card.payload.as_of = Stamp(log[n].event.at)
      BY <2>1, <3>1 DEF ShowsPrefix
    <3> QED BY <3>1, <3>2, <3>3, <3>4 DEF verify_against_anchor
  <2> QED BY <2>4, <2>5, <2>6, Zenon DEF CardProvesLog, upto
<1>2. KInv => CardProvesLog
  BY <1>1 DEF KInv, CardProvesLog
<1> QED BY <1>2, KInvariance, PTL
-----------------------------------------------------------------------------
(* What a card takes.                                                      *)

AnySlots == [suite : DOMAIN signature_len, key_id : STRING, signature : Nat \cup {None}]
IsSlot(slot) ==
  /\ slot \in AnySlots /\ Len(slot.key_id) \in Nat
  /\ slot.signature \in {None, signature_len[slot.suite]}

\* What is printed for an order, with any of its slots signed.
OfOrder(p, order) ==
  /\ p.product_id = order.id /\ p.resolver_uri = Resolver
  /\ p.passport_id = "p-1" /\ p.eo_id = "eo-1"
  /\ p.status \in Status /\ p.safety \in {"none", "security-flagged", "recall-active"}
  /\ p.validity = order.validity /\ p.as_of \in Stamps
  /\ p.signatures \in Seq(AnySlots) /\ Len(p.signatures) = Len(order.slots)
  /\ \A i \in 1..Len(p.signatures) : IsSlot(p.signatures[i])

LEMMA SuiteLengths ==
  \A s \in DOMAIN signature_len : signature_len[s] \in Nat /\ signature_len[s] <= 4627
  BY DEF signature_len

LEMMA MinOfTwo ==
  ASSUME NEW a \in Int, NEW b \in Int
  PROVE  Min({a, b}) = IF a <= b THEN a ELSE b
<1> DEFINE m == IF a <= b THEN a ELSE b
<1>1. m \in {a, b} /\ \A y \in {a, b} : m <= y
  OBVIOUS
<1>2. \A x \in {a, b} : (\A y \in {a, b} : x <= y) => x = m
  OBVIOUS
<1> HIDE DEF m
<1>3. Min({a, b}) = m
  BY <1>1, <1>2 DEF Min
<1> QED BY <1>3 DEF m

LEMMA TakenSlots ==
  ASSUME NEW p, p.signatures \in Seq(AnySlots)
  PROVE  /\ Taken(p) \in Seq(AnySlots)
         /\ Len(Taken(p)) = IF Len(p.signatures) <= Slots THEN Len(p.signatures) ELSE Slots
         /\ Len(Taken(p)) \in Nat /\ Len(Taken(p)) <= Len(p.signatures)
         /\ \A i \in 1..Len(Taken(p)) : Taken(p)[i] = p.signatures[i]
         /\ Len(p.signatures) <= Slots => Taken(p) = p.signatures
<1> DEFINE s == p.signatures
           n == Min({Len(s), Slots})
<1>1. Len(s) \in Nat /\ Slots \in Nat
  BY DEF Slots
<1>2. n = IF Len(s) <= Slots THEN Len(s) ELSE Slots
  <2>1. Len(s) \in Int /\ Slots \in Int
    BY <1>1
  <2> HIDE DEF s
  <2> QED BY <2>1, MinOfTwo
<1>3. n \in 0..Len(s) /\ (Len(s) <= Slots => n = Len(s))
  BY <1>1, <1>2
<1>4. Taken(p) = SubSeq(s, 1, n)
  BY DEF Taken
<1> HIDE DEF n, s
<1>5. s \in Seq(AnySlots)
  BY DEF s
<1> QED BY <1>1, <1>2, <1>3, <1>4, <1>5, PrefixOf DEF s

\* The first n terms of c are the terms of f behind its first m.
Shifted(f, m, c, n) == \A i \in 1..n : c[i] \in Int /\ f[m + i] = c[i]

LEMMA SumShifted ==
  ASSUME NEW m \in Nat, NEW n \in Nat, NEW f, NEW c, Shifted(f, m, c, n)
  PROVE  SumFunctionOnSet(f, m + 1..m + n) = SumFunctionOnSet(c, 1..n)
<1> DEFINE I == 1..n
           R == m + 1..m + n
           k == [i \in I |-> m + i]
<1>1. \A i \in I : k[i] = m + i
  OBVIOUS
<1>2. \A i \in I : c[i] \in Int /\ f[k[i]] = c[i]
  BY <1>1 DEF Shifted
<1>3. \A i \in I : k[i] \in R
  BY <1>1
<1>4. \A i, j \in I : k[i] = k[j] => i = j
  BY <1>1
<1>5. ASSUME NEW y \in R PROVE \E i \in I : y = k[i]
  <2>1. y - m \in I /\ y = m + (y - m)
    OBVIOUS
  <2> QED BY <1>1, <2>1
<1>6. IsFiniteSet(I)
  BY FS_Interval
<1> HIDE DEF I, R, k
<1>7. SumFunctionOnSet(f, R) = SumFunctionOnSet(c, I)
  BY <1>2, <1>3, <1>4, <1>5, <1>6, SumRenamed
<1> QED BY <1>7 DEF I, R

LEMMA BytesJoined ==
  ASSUME NEW S, NEW f \in Seq(S), NEW g \in Seq(S),
         \A i \in 1..Len(f) : f[i].len \in Nat, \A i \in 1..Len(g) : g[i].len \in Nat
  PROVE  /\ Bytes(f \o g) = Bytes(f) + Bytes(g)
         /\ Bytes(f) \in Nat /\ Bytes(g) \in Nat
<1> DEFINE m == Len(f)
           n == Len(g)
           h == f \o g
           H == [i \in 1..m + n |-> h[i].len]
           F == [i \in 1..m |-> f[i].len]
           G == [i \in 1..n |-> g[i].len]
<1>1. /\ m \in Nat /\ n \in Nat /\ DOMAIN h = 1..m + n
      /\ DOMAIN f = 1..m /\ DOMAIN g = 1..n
  OBVIOUS
<1>2. /\ Bytes(h) = SumFunctionOnSet(H, 1..m + n)
      /\ Bytes(f) = SumFunctionOnSet(F, 1..m)
      /\ Bytes(g) = SumFunctionOnSet(G, 1..n)
  BY <1>1 DEF Bytes
<1>3. \A i \in 1..m : h[i] = f[i]
  OBVIOUS
<1>4. \A i \in 1..n : h[m + i] = g[i]
  OBVIOUS
<1>5. \A i \in 1..m : F[i] \in Nat /\ H[i] = F[i]
  BY <1>1, <1>3
<1>6. \A i \in 1..n : G[i] \in Nat /\ H[m + i] = G[i]
  BY <1>1, <1>4
<1> HIDE DEF m, n, h, H, F, G
<1>7. IsFiniteSet(1..m) /\ IsFiniteSet(1..n) /\ IsFiniteSet(m + 1..m + n)
  <2>1. m + n \in Int /\ m + 1 \in Int /\ m \in Int /\ n \in Int /\ 1 \in Int
    BY <1>1
  <2> QED BY <2>1, FS_Interval
<1>8. SumFunctionOnSet(H, 1..m) = SumFunctionOnSet(F, 1..m)
  BY <1>5, <1>7, SumEqual, Nat \subseteq Int
<1>9. SumFunctionOnSet(H, m + 1..m + n) = SumFunctionOnSet(G, 1..n)
  <2>1. Shifted(H, m, G, n)
    BY <1>6 DEF Shifted
  <2>2. m \in Nat /\ n \in Nat
    BY <1>1
  <2> QED BY <2>1, <2>2, SumShifted
<1>10. \A i \in 1..m \cup (m + 1..m + n) : H[i] \in Int
  <2> SUFFICES ASSUME NEW i \in 1..m \cup (m + 1..m + n) PROVE H[i] \in Int
    OBVIOUS
  <2>1. CASE i \in 1..m
    BY <2>1, <1>5
  <2>2. CASE i \in m + 1..m + n
    <3>1. i - m \in 1..n /\ i = m + (i - m)
      BY <1>1, <2>2
    <3> QED BY <1>6, <3>1
  <2> QED BY <2>1, <2>2
<1>11. SumFunctionOnSet(H, 1..m \cup (m + 1..m + n))
         = SumFunctionOnSet(H, 1..m) + SumFunctionOnSet(H, m + 1..m + n)
  <2>1. 1..m \cap (m + 1..m + n) = {}
    BY <1>1
  <2> QED BY <1>7, <1>10, <2>1, SumDisjoint
<1>12. 1..m + n = 1..m \cup (m + 1..m + n)
  BY <1>1
<1>13. SumFunctionOnSet(F, 1..m) \in Nat /\ SumFunctionOnSet(G, 1..n) \in Nat
  BY <1>5, <1>6, <1>7, SumOfNats
<1> QED BY <1>2, <1>8, <1>9, <1>11, <1>12, <1>13 DEF h

\* An instant is printed in some number of bytes.
IsInstant(t) ==
  /\ t = Cal!Instant(t.day, t.sec, t.nanos) /\ t.day \in Int /\ InDay(t.sec)
  /\ t.nanos \in Nat /\ t.nanos < Cal!TenTo(9)

LEMMA StampsAre ==
  /\ \A t \in Stamps : IsInstant(t) /\ t # Invalid /\ t # None /\ Cal!display_timestamp(t) # None
  /\ \A o \in Orders : /\ o.validity.from \in Stamps
                       /\ o.validity.to # None => o.validity.to \in Stamps
  /\ \A at \in Times : Stamp(at) \in Stamps
<1>1. \A o \in Orders : o.validity.to # None => o.validity.to \in Stamps
  BY DEF Stamps
<1>4. \A o \in Orders : o.validity.from \in Stamps
  BY DEF Stamps
<1>2. \A at \in Times : Stamp(at) \in Stamps
  BY DEF Stamps
<1>3. \A t \in Stamps : IsInstant(t) /\ t # Invalid /\ t # None /\ Cal!display_timestamp(t) # None
  BY CarrierConstantsOK, Zenon DEF IsInstant, InDay
<1> QED BY <1>1, <1>2, <1>3, <1>4, Zenon

LEMMA TimeTakesBytes ==
  ASSUME NEW t, IsInstant(t)
  PROVE  TimeLen(t) \in Nat
<1> DEFINE text == Cal!display_timestamp(t)
           y == text.date.year
           W == {w \in 4..8 : y >= Cal!TenTo(w) \/ y <= -Cal!TenTo(w - 1)}
<1>1. Cardinality(W) \in Nat
  <2>1. IsFiniteSet(4..8)
    <3>1. 4 \in Int /\ 8 \in Int
      OBVIOUS
    <3> QED BY <3>1, FS_Interval, Zenon
  <2>2. W \subseteq 4..8
    BY Zenon
  <2> HIDE DEF W
  <2> QED BY <2>1, <2>2, FS_Subset, FS_CardinalityType, Zenon
<1>2. text.frac = Cal!Fraction(t.nanos)
  BY SMT DEF Cal!display_timestamp, Cal!Written
<1>3. Cal!Fraction(t.nanos).width \in 0..9
  BY FractionKeepsValue DEF IsInstant
<1>4. YearLen(y) = 4 + Cardinality(W)
  BY Zenon DEF YearLen
<1> HIDE DEF W, y
<1>5. TimeLen(t) = 16 + YearLen(y) + (IF text.frac.width = 0 THEN 0 ELSE 1 + text.frac.width)
  BY Zenon DEF TimeLen, y
<1> HIDE DEF text
<1> QED BY <1>1, <1>2, <1>3, <1>4, <1>5

LEMMA FixedLengths ==
  ASSUME NEW order \in Orders, NEW p, OfOrder(p, order)
  PROVE  /\ Fixed(p) \in Seq({Fixed(p)[i] : i \in 1..11}) /\ Len(Fixed(p)) = 11
         /\ \A i \in 1..11 : Fixed(p)[i].len \in Nat
<1>1. /\ Len(p.resolver_uri) \in Nat /\ Len(p.passport_id) \in Nat /\ Len(p.eo_id) \in Nat
      /\ Len(p.status) \in Nat /\ Len(p.safety) \in Nat /\ TextLen(display(p.product_id)) \in Nat
  BY CarrierConstantsOK DEF OfOrder, Texts
<1>2. /\ \A tag, value : \A len \in Nat : Field(tag, value, len).len \in Nat
      /\ \A tag, text : Len(text) \in Nat => Str(tag, text).len \in Nat
  BY DEF Field, Str
<1> DEFINE f1 == Field("product_id", display(p.product_id), 4 + TextLen(display(p.product_id)))
           f2 == Str("resolver_uri", p.resolver_uri)
           f3 == Str("passport_id", p.passport_id)
           f4 == Str("eo_id", p.eo_id)
           f5 == Str("status", p.status)
           f6 == Str("safety", p.safety)
           f7 == TimeField("validity_from", p.validity.from)
           f8 == OptTimeField("validity_to", p.validity.to)
           f9 == TimeField("as_of", p.as_of)
           f10 == Field("log_head", p.log_head, 1 + (IF p.log_head = None THEN 0 ELSE 32))
           f11 == Field("sig_count", Len(Taken(p)), 1)
<1>3. /\ f1.len \in Nat /\ f2.len \in Nat /\ f3.len \in Nat /\ f4.len \in Nat
      /\ f5.len \in Nat /\ f6.len \in Nat /\ f7.len \in Nat /\ f8.len \in Nat
      /\ f9.len \in Nat /\ f10.len \in Nat /\ f11.len \in Nat
  <2>1. /\ 4 + TextLen(display(p.product_id)) \in Nat /\ 1 \in Nat
        /\ 1 + (IF p.log_head = None THEN 0 ELSE 32) \in Nat
    BY <1>1
  <2>4. \A t \in Stamps : 4 + TimeLen(t) \in Nat /\ 1 + 4 + TimeLen(t) \in Nat
    <3>1. \A t \in Stamps : TimeLen(t) \in Nat
      BY StampsAre, TimeTakesBytes
    <3> QED BY <3>1
  <2>5. f7.len \in Nat /\ f8.len \in Nat /\ f9.len \in Nat
    <3>1. \A tag : \A t \in Stamps : TimeField(tag, t).len \in Nat
      BY <1>2, <2>4, Zenon DEF TimeField
    <3>2. \A tag : \A t \in Stamps \cup {None} : OptTimeField(tag, t).len \in Nat
      BY <1>2, <2>1, <2>4, Zenon DEF OptTimeField
    <3>3. /\ p.validity.from \in Stamps /\ p.as_of \in Stamps
          /\ p.validity.to \in Stamps \cup {None}
      BY StampsAre, Zenon DEF OfOrder
    <3> QED BY <3>1, <3>2, <3>3, Zenon
  <2>2. /\ f2.len \in Nat /\ f3.len \in Nat /\ f4.len \in Nat /\ f5.len \in Nat
        /\ f6.len \in Nat
    BY <1>1, <1>2, Zenon
  <2>3. f1.len \in Nat /\ f10.len \in Nat /\ f11.len \in Nat
    BY <1>2, <2>1, Zenon
  <2> QED BY <2>2, <2>3, <2>5
<1>4. Fixed(p) = <<f1, f2, f3, f4, f5, f6, f7, f8, f9, f10, f11>>
  BY DEF Fixed
<1> HIDE DEF f1, f2, f3, f4, f5, f6, f7, f8, f9, f10, f11
<1>5. Len(Fixed(p)) = 11
  BY <1>4
<1>6. /\ Fixed(p)[1] = f1 /\ Fixed(p)[2] = f2 /\ Fixed(p)[3] = f3 /\ Fixed(p)[4] = f4
      /\ Fixed(p)[5] = f5 /\ Fixed(p)[6] = f6 /\ Fixed(p)[7] = f7 /\ Fixed(p)[8] = f8
      /\ Fixed(p)[9] = f9 /\ Fixed(p)[10] = f10 /\ Fixed(p)[11] = f11
  BY <1>4
<1>7. ASSUME NEW i \in 1..11 PROVE Fixed(p)[i].len \in Nat
  <2>1. i \in {1, 2, 3, 4, 5, 6, 7, 8, 9, 10, 11}
    OBVIOUS
  <2> QED BY <1>3, <1>6, <2>1
<1>8. Fixed(p) \in Seq({Fixed(p)[i] : i \in 1..11})
  <2> DEFINE S == {Fixed(p)[i] : i \in 1..11}
  <2>1. \A i \in 1..11 : Fixed(p)[i] \in S
    OBVIOUS
  <2>2. /\ f1 \in S /\ f2 \in S /\ f3 \in S /\ f4 \in S /\ f5 \in S /\ f6 \in S
        /\ f7 \in S /\ f8 \in S /\ f9 \in S /\ f10 \in S /\ f11 \in S
    <3> HIDE DEF S
    <3> QED BY <1>6, <2>1
  <2> HIDE DEF S
  <2>3. <<f1, f2, f3, f4, f5, f6, f7, f8, f9, f10, f11>> \in Seq(S)
    BY <2>2
  <2> QED BY <1>4, <2>3 DEF S
<1> QED BY <1>5, <1>7, <1>8

\* What a slot takes once it is signed.
Whole(slot) == 8 + Len(slot.key_id) + signature_len[slot.suite]

SlotFields(p) == [i \in 1..Len(Taken(p)) |-> SlotField(Taken(p)[i])]
WholeSlots(p) == [i \in 1..Len(Taken(p)) |-> Whole(Taken(p)[i])]
Signed(p) == \A i \in 1..Len(p.signatures) : ~is_framed_only(p.signatures[i])

LEMMA SlotLengths ==
  ASSUME NEW slot, IsSlot(slot)
  PROVE  /\ SlotField(slot).len \in Nat /\ reserved(slot) \in Nat /\ Whole(slot) \in Nat
         /\ Whole(slot) = SlotField(slot).len + reserved(slot)
         /\ ~is_framed_only(slot) => reserved(slot) = 0 /\ slot.signature <= Sentinel
<1>1. PICK k \in Nat : k = Len(slot.key_id)
  BY DEF IsSlot
<1>2. PICK m \in Nat : m = signature_len[slot.suite] /\ m <= 4627
  <2>1. slot.suite \in DOMAIN signature_len
    BY DEF IsSlot, AnySlots
  <2> QED BY <2>1, SuiteLengths
<1>3. \A t, s, key, f, r, x :
        [tag |-> t, suite |-> s, key_id |-> key, framed |-> f, raw |-> r, len |-> x].len = x
  OBVIOUS
<1>4. Whole(slot) = 8 + k + m
  BY <1>1, <1>2 DEF Whole
<1>5. CASE is_framed_only(slot)
  <2>1. SlotField(slot).len = 2 + 4 + k + 2 + 0
    BY <1>1, <1>3, <1>5, Zenon DEF SlotField
  <2>2. reserved(slot) = m
    BY <1>2, <1>5 DEF reserved
  <2> QED BY <1>4, <1>5, <2>1, <2>2
<1>6. CASE ~is_framed_only(slot)
  <2>1. slot.signature = m
    BY <1>2, <1>6 DEF is_framed_only, IsSlot
  <2>2. SlotField(slot).len = 2 + 4 + k + 2 + m
    BY <1>1, <1>3, <1>6, <2>1, Zenon DEF SlotField
  <2>3. reserved(slot) = 0
    BY <1>6 DEF reserved
  <2> QED BY <1>2, <1>4, <2>1, <2>2, <2>3 DEF Sentinel
<1> QED BY <1>5, <1>6

\* The length that is budgeted is that of the card with every slot signed; what is
\* emitted is short of it by what the unsigned slots reserve.
LEMMA EncodedLength ==
  ASSUME NEW order \in Orders, NEW p, OfOrder(p, order)
  PROVE  /\ encode(p) = [bytes |-> fields(p),
                         projected |-> Bytes(fields(p)) + Reserved(Taken(p))]
         /\ Bytes(Fixed(p)) \in Nat
         /\ Bytes(fields(p)) + Reserved(Taken(p))
              = Bytes(Fixed(p)) + SumFunctionOnSet(WholeSlots(p), 1..Len(Taken(p)))
         /\ Bytes(fields(p)) \in Nat /\ Reserved(Taken(p)) \in Nat
         /\ Signed(p) => Reserved(Taken(p)) = 0
<1> DEFINE n == Len(Taken(p))
           R == [i \in 1..n |-> reserved(Taken(p)[i])]
           L == [i \in 1..n |-> SlotField(Taken(p)[i]).len]
           W == WholeSlots(p)
<1>1. /\ n \in Nat /\ n <= Len(p.signatures) /\ Taken(p) \in Seq(AnySlots)
      /\ \A i \in 1..n : Taken(p)[i] = p.signatures[i] /\ IsSlot(Taken(p)[i])
  BY TakenSlots DEF OfOrder
<1>2. \A i \in 1..n : /\ L[i] \in Nat /\ R[i] \in Nat /\ W[i] \in Nat /\ W[i] = L[i] + R[i]
                      /\ ~is_framed_only(Taken(p)[i]) =>
                            R[i] = 0 /\ Taken(p)[i].signature <= Sentinel
  <2> SUFFICES ASSUME NEW i \in 1..n
               PROVE  /\ L[i] \in Nat /\ R[i] \in Nat /\ W[i] \in Nat /\ W[i] = L[i] + R[i]
                      /\ ~is_framed_only(Taken(p)[i]) =>
                            R[i] = 0 /\ Taken(p)[i].signature <= Sentinel
    OBVIOUS
  <2>1. /\ L[i] = SlotField(Taken(p)[i]).len /\ R[i] = reserved(Taken(p)[i])
        /\ W[i] = Whole(Taken(p)[i])
    BY DEF WholeSlots
  <2>2. IsSlot(Taken(p)[i])
    BY <1>1
  <2> HIDE DEF L, R, W
  <2> QED BY <2>1, <2>2, SlotLengths
<1>3. encode(p) = [bytes |-> fields(p), projected |-> Bytes(fields(p)) + Reserved(Taken(p))]
  <2>1. ASSUME NEW i \in 1..n, ~is_framed_only(Taken(p)[i])
        PROVE  ~(Taken(p)[i].signature > Sentinel)
    <3>1. Taken(p)[i].signature <= Sentinel
      BY <1>2, <2>1
    <3>2. IsSlot(Taken(p)[i]) /\ Taken(p)[i].signature # None
      BY <1>1, <2>1 DEF is_framed_only
    <3>3. Taken(p)[i].signature \in Nat
      BY <3>2 DEF IsSlot, AnySlots
    <3> QED BY <3>1, <3>3 DEF Sentinel
  <2> QED BY <2>1 DEF encode
<1>4. Reserved(Taken(p)) = SumFunctionOnSet(R, 1..n)
  <2>1. DOMAIN Taken(p) = 1..n
    BY <1>1
  <2> QED BY <2>1 DEF Reserved
<1>5. /\ Fixed(p) \in Seq({Fixed(p)[i] : i \in 1..11}) /\ Len(Fixed(p)) = 11
      /\ \A i \in 1..11 : Fixed(p)[i].len \in Nat
  BY FixedLengths
<1>6. /\ SlotFields(p) \in Seq({SlotFields(p)[i] : i \in 1..n}) /\ Len(SlotFields(p)) = n
      /\ \A i \in 1..n : SlotFields(p)[i].len = L[i]
      /\ DOMAIN SlotFields(p) = 1..n
  BY <1>1 DEF SlotFields
<1>7. Bytes(SlotFields(p)) = SumFunctionOnSet(L, 1..n)
  <2>1. [i \in 1..n |-> SlotFields(p)[i].len] = L
    BY <1>6
  <2> QED BY <1>6, <2>1 DEF Bytes
<1> HIDE DEF L, R, W
<1>8. /\ Bytes(fields(p)) = Bytes(Fixed(p)) + Bytes(SlotFields(p))
      /\ Bytes(Fixed(p)) \in Nat /\ Bytes(SlotFields(p)) \in Nat
  <2> DEFINE S == {Fixed(p)[i] : i \in 1..11} \cup {SlotFields(p)[i] : i \in 1..n}
  <2>1. Fixed(p) \in Seq(S) /\ SlotFields(p) \in Seq(S)
    <3> DEFINE A == {Fixed(p)[i] : i \in 1..11}
               B == {SlotFields(p)[i] : i \in 1..n}
    <3>1. Fixed(p) \in Seq(A) /\ SlotFields(p) \in Seq(B) /\ S = A \cup B
      BY <1>5, <1>6
    <3> HIDE DEF A, B, S
    <3> QED BY <3>1
  <2> HIDE DEF S
  <2>2. \A i \in 1..Len(Fixed(p)) : Fixed(p)[i].len \in Nat
    BY <1>5
  <2>3. \A i \in 1..Len(SlotFields(p)) : SlotFields(p)[i].len \in Nat
    BY <1>2, <1>6
  <2>4. fields(p) = Fixed(p) \o SlotFields(p)
    BY DEF fields, SlotFields
  <2> QED BY <2>1, <2>2, <2>3, <2>4, BytesJoined
<1>9. IsFiniteSet(1..n)
  BY <1>1, FS_Interval, n \in Int, 1 \in Int
<1>10. SumFunctionOnSet(W, 1..n) = SumFunctionOnSet(L, 1..n) + SumFunctionOnSet(R, 1..n)
  <2> DEFINE N == 1..n
  <2>1. /\ IsFiniteSet(N)
        /\ \A i \in N : L[i] \in Int /\ R[i] \in Int /\ W[i] = L[i] + R[i]
    BY <1>2, <1>9
  <2> HIDE DEF N
  <2>2. SumFunctionOnSet(W, N) = SumFunctionOnSet(L, N) + SumFunctionOnSet(R, N)
    BY <2>1, SumPointwise
  <2> QED BY <2>2 DEF N
<1>11. SumFunctionOnSet(R, 1..n) \in Nat
  <2>1. \A i \in 1..n : R[i] \in Nat
    BY <1>2
  <2> HIDE DEF n
  <2> QED BY <1>9, <2>1, SumOfNats
<1>12. Signed(p) => SumFunctionOnSet(R, 1..n) = 0
  <2> SUFFICES ASSUME Signed(p) PROVE SumFunctionOnSet(R, 1..n) = 0
    OBVIOUS
  <2>1. \A i \in 1..n : R[i] = 0
    BY <1>1, <1>2 DEF Signed
  <2> HIDE DEF n
  <2> QED BY <1>9, <2>1, SumZero
<1> QED BY <1>3, <1>4, <1>7, <1>8, <1>10, <1>11, <1>12 DEF W

\* Two payloads of an order are budgeted alike, whichever of their slots are signed.
LEMMA BudgetSteady ==
  ASSUME NEW order \in Orders, NEW p, NEW q, OfOrder(p, order), OfOrder(q, order),
         p.log_head = q.log_head, p.status = q.status, p.safety = q.safety, p.as_of = q.as_of,
         \A i \in 1..Len(p.signatures) : /\ p.signatures[i].suite = q.signatures[i].suite
                                         /\ p.signatures[i].key_id = q.signatures[i].key_id
  PROVE  encode(p).projected = encode(q).projected
<1>1. Len(Taken(p)) = Len(Taken(q)) /\ Len(Taken(p)) \in Nat
  BY TakenSlots DEF OfOrder
<1>2. Fixed(p) = Fixed(q)
  BY <1>1 DEF Fixed, OfOrder
<1>3. \A i \in 1..Len(Taken(p)) : Whole(Taken(p)[i]) = Whole(Taken(q)[i])
  <2> SUFFICES ASSUME NEW i \in 1..Len(Taken(p)) PROVE Whole(Taken(p)[i]) = Whole(Taken(q)[i])
    OBVIOUS
  <2>1. /\ Taken(p)[i] = p.signatures[i] /\ Taken(q)[i] = q.signatures[i]
        /\ i \in 1..Len(p.signatures)
    BY <1>1, TakenSlots DEF OfOrder
  <2> QED BY <2>1 DEF Whole
<1>4. WholeSlots(p) = WholeSlots(q)
  BY <1>1, <1>3 DEF WholeSlots
<1>5. encode(p).projected = Bytes(Fixed(p)) + SumFunctionOnSet(WholeSlots(p), 1..Len(Taken(p)))
  BY EncodedLength
<1>6. encode(q).projected = Bytes(Fixed(q)) + SumFunctionOnSet(WholeSlots(q), 1..Len(Taken(q)))
  BY EncodedLength
<1> QED BY <1>1, <1>2, <1>4, <1>5, <1>6

LEMMA CapacityTables ==
  \A ec \in DOMAIN Capacity : \A v \in 1..40 : byte_capacity(v, ec) \in Nat
<1> DEFINE Table(t) == t \in Seq(Nat) /\ Len(t) = 40
<1>1. Table(Capacity.l)
  BY DEF Capacity
<1>2. Table(Capacity.m)
  BY DEF Capacity
<1>3. Table(Capacity.q)
  BY DEF Capacity
<1>4. Table(Capacity.h)
  BY DEF Capacity
<1>5. DOMAIN Capacity = {"l", "m", "q", "h"}
  BY DEF Capacity
<1>6. ASSUME NEW t, Table(t), NEW v \in 1..40 PROVE t[v] \in Nat
  <2>1. t \in Seq(Nat) /\ Len(t) = 40
    BY <1>6
  <2>2. \A i \in 1..Len(t) : t[i] \in Nat
    BY <2>1, ElementsOf
  <2>3. v \in 1..Len(t)
    BY <2>1
  <2> QED BY <2>2, <2>3
<1> HIDE DEF Table
<1>7. \A ec \in DOMAIN Capacity : Table(Capacity[ec])
  BY <1>1, <1>2, <1>3, <1>4, <1>5
<1> QED BY <1>6, <1>7 DEF byte_capacity

\* The version the packer chooses: within its bound, large enough, and no larger than
\* it has to be.
Chosen(packer, len) == Min({min_version_for(len, packer.ec), packer.max_version})

LEMMA SmallestSymbol ==
  ASSUME NEW packer, packer.ec \in DOMAIN Capacity, packer.max_version \in 1..40,
         NEW len \in Nat, ~(len > byte_capacity(packer.max_version, packer.ec))
  PROVE  LET v == Chosen(packer, len)
         IN  /\ v \in 1..40 /\ v <= packer.max_version
             /\ len <= byte_capacity(v, packer.ec)
             /\ v > 1 => byte_capacity(v - 1, packer.ec) < len
<1> DEFINE ec == packer.ec
           max == packer.max_version
           H == Holding(len, ec)
           m == Min(H)
<1>1. \A v \in 1..40 : byte_capacity(v, ec) \in Nat
  BY CapacityTables
<1>2. max \in 1..40 /\ ~(len > byte_capacity(max, ec))
  OBVIOUS
<1>3. min_version_for(len, ec) = IF H = {} THEN None ELSE m
  BY DEF min_version_for
<1>4. \A v : v \in H <=> v \in 1..40 /\ byte_capacity(v, ec) >= len
  BY DEF Holding
<1>5. m = CHOOSE x \in H : \A y \in H : x =< y
  BY DEF Min
<1>6. Chosen(packer, len) = Min({min_version_for(len, ec), max})
  BY DEF Chosen
<1> HIDE DEF ec, max, H, m
<1>7. max \in H
  <2>1. byte_capacity(max, ec) \in Nat
    BY <1>1, <1>2
  <2> QED BY <1>2, <1>4, <2>1
<1>8. m \in H /\ \A y \in H : m <= y
  <2>1. H \subseteq Nat /\ H # {}
    BY <1>4, <1>7
  <2>2. \E x \in H : \A y \in H : x <= y
    BY <2>1, LeastElement
  <2> QED BY <2>2, <1>5, Zenon
<1>9. m \in 1..40 /\ max \in 1..40 /\ m <= max
  BY <1>2, <1>4, <1>7, <1>8
<1>10. Chosen(packer, len) = m
  <2>1. min_version_for(len, ec) = m
    BY <1>3, <1>7
  <2>2. m \in Int /\ max \in Int
    BY <1>9
  <2>3. Min({m, max}) = m
    BY <1>9, <2>2, MinOfTwo
  <2> QED BY <1>6, <2>1, <2>3
<1>11. len <= byte_capacity(m, ec)
  <2>1. byte_capacity(m, ec) >= len /\ byte_capacity(m, ec) \in Nat
    BY <1>1, <1>4, <1>8
  <2> QED BY <2>1
<1>12. ASSUME m > 1 PROVE byte_capacity(m - 1, ec) < len
  <2>1. m - 1 \in 1..40 /\ ~(m <= m - 1)
    BY <1>9, <1>12
  <2>2. ~(byte_capacity(m - 1, ec) >= len)
    BY <1>4, <1>8, <2>1
  <2>3. byte_capacity(m - 1, ec) \in Nat
    BY <1>1, <2>1
  <2> QED BY <2>2, <2>3
<1> QED BY <1>9, <1>10, <1>11, <1>12 DEF ec, max

\* What a refusal is, is no record of bytes.
InvalidApart == "bytes" \notin DOMAIN Invalid

PackedAs(packer, p) ==
  LET v == Chosen(packer, encode(p).projected)
  IN  [bytes |-> fields(p), version |-> v, ec |-> packer.ec, used |-> Bytes(fields(p)),
       projected |-> encode(p).projected, capacity |-> byte_capacity(v, packer.ec)]

LEMMA PackedCard ==
  ASSUME InvalidApart, NEW order \in Orders, NEW p, OfOrder(p, order), NEW packer
  PROVE  IF encode(p).projected > byte_capacity(packer.max_version, packer.ec)
           THEN pack(packer, p) = Invalid
           ELSE pack(packer, p) = PackedAs(packer, p) /\ pack(packer, p) # Invalid
<1>1. /\ encode(p).bytes = fields(p)
      /\ encode(p) = [bytes |-> fields(p),
                      projected |-> Bytes(fields(p)) + Reserved(Taken(p))]
  BY EncodedLength
<1>2. encode(p) # Invalid
  BY <1>1 DEF InvalidApart
<1>3. PackedAs(packer, p) # Invalid
  BY DEF InvalidApart, PackedAs
<1>4. CASE encode(p).projected > byte_capacity(packer.max_version, packer.ec)
  BY <1>4, Zenon DEF pack
<1>5. CASE ~(encode(p).projected > byte_capacity(packer.max_version, packer.ec))
  <2>1. pack(packer, p) = PackedAs(packer, p)
    BY <1>1, <1>2, <1>5, Zenon DEF pack, PackedAs, Chosen
  <2> QED BY <1>3, <1>5, <2>1
<1> QED BY <1>4, <1>5

\* The card in use was printed for some order and still fits the symbol that was
\* chosen for it when no slot was signed.
FitsAs(c, order) ==
  /\ IsCard(c) /\ IsPayload(c.payload) /\ OfOrder(c.payload, order)
  /\ c.packer = order.packer
  /\ ~(encode(c.payload).projected > byte_capacity(c.packer.max_version, c.packer.ec))
  /\ c.packed = pack(c.packer, c.payload)
  /\ c.first.version = Chosen(c.packer, encode(c.payload).projected)
  /\ c.first.projected = encode(c.payload).projected
CardFits == card # None => \E order \in Orders : FitsAs(card, order)

FInv == IInv /\ CardFits

\* A replay ends in a status.
LEMMA StatusOfLog == IInv => current_status(log) \in Status
<1> SUFFICES ASSUME IInv PROVE current_status(log) \in Status
  OBVIOUS
<1>1. /\ Len(log) \in Nat /\ Chained
      /\ \A i \in 1..Len(log) : log[i].event \in Events
  BY LogEntries DEF IInv
<1> DEFINE k == LastWhere(log, BearsStatus)
<1>2. k = 0 \/ (k \in 1..Len(log) /\ BearsStatus(log[k].event.payload))
  BY <1>1, LastStatusPosition
<1>3. current_status(log) = IF k = 0 THEN "issued" ELSE StatusAfter(log[k].event.payload)
  BY DEF current_status
<1> HIDE DEF k
<1>4. ASSUME k # 0 PROVE StatusAfter(log[k].event.payload) \in Status
  <2>1. log[k].event.payload \in Payloads /\ BearsStatus(log[k].event.payload)
    BY <1>1, <1>2, <1>4 DEF Events
  <2>2. log[k].event.payload.type = "status.change" => log[k].event.payload.to \in Status
    BY <2>1, CarrierConstantsOK
  <2> QED BY <2>1, <2>2 DEF BearsStatus, StatusAfter, Status
<1>5. "issued" \in Status
  BY DEF Status
<1> QED BY <1>3, <1>4, <1>5

LEMMA PrintedForOrder ==
  ASSUME IInv, NEW at \in Times, NEW order \in Orders
  PROVE  /\ OfOrder(from_log(log, at, order), order)
         /\ IsPayload(from_log(log, at, order))
<1> DEFINE p == from_log(log, at, order)
<1>1. /\ p.product_id = order.id /\ p.resolver_uri = Resolver
      /\ p.passport_id = "p-1" /\ p.eo_id = "eo-1" /\ p.validity = order.validity
      /\ p.status = current_status(log) /\ p.safety = safety_flag(log)
      /\ p.signatures = order.slots /\ IsPayload(p)
  BY DEF from_log, Payload, IsPayload
<1>6. p.as_of = Stamp(IF log = << >> THEN at ELSE log[Len(log)].event.at)
  BY DEF from_log, Payload, last_event
<1> HIDE DEF p
<1>7. p.as_of \in Stamps
  <2>1. /\ Len(log) \in Nat /\ \A i \in 1..Len(log) : log[i].event \in Events
        /\ log \in Seq(SealedEvents)
    BY LogEntries DEF IInv
  <2>2. CASE log = << >>
    BY <1>6, <2>2, StampsAre
  <2>3. CASE log # << >>
    <3>1. Len(log) \in 1..Len(log)
      BY <2>1, <2>3
    <3>2. log[Len(log)].event.at \in Times
      BY <2>1, <3>1 DEF Events
    <3> QED BY <1>6, <2>3, <3>2, StampsAre
  <2> QED BY <2>2, <2>3
<1>2. safety_flag(log) \in {"none", "security-flagged", "recall-active"}
  BY DEF safety_flag
<1>3. /\ order.slots \in Seq([suite : DOMAIN signature_len, key_id : STRING, signature : {None}])
      /\ \A i \in DOMAIN order.slots : Len(order.slots[i].key_id) \in Nat
  BY CarrierConstantsOK
<1>4. /\ order.slots \in Seq(AnySlots)
      /\ \A i \in 1..Len(order.slots) : IsSlot(order.slots[i])
  <2> DEFINE S == [suite : DOMAIN signature_len, key_id : STRING, signature : {None}]
  <2>1. S \subseteq AnySlots
    BY DEF AnySlots
  <2>2. \A slot \in S : slot.signature = None
    OBVIOUS
  <2> HIDE DEF S
  <2>3. order.slots \in Seq(S)
    BY <1>3 DEF S
  <2>4. order.slots \in Seq(AnySlots)
    BY <2>1, <2>3
  <2>5. DOMAIN order.slots = 1..Len(order.slots) /\ \A i \in 1..Len(order.slots) : order.slots[i] \in S
    BY <2>3, ElementsOf
  <2> QED BY <1>3, <2>1, <2>2, <2>4, <2>5 DEF IsSlot
<1>5. OfOrder(p, order)
  BY <1>1, <1>2, <1>4, <1>7, StatusOfLog DEF OfOrder
<1> QED BY <1>1, <1>5 DEF p

LEMMA PackFits ==
  ASSUME InvalidApart, IInv, NEW at \in Times, NEW order \in Orders, PackCard(at, order)
  PROVE  FitsAs(card', order)
<1> DEFINE p == from_log(log, at, order)
           packed == pack(order.packer, p)
<1>1. /\ card' = [packer |-> order.packer, payload |-> p, first |-> packed, packed |-> packed]
      /\ packed # Invalid
  BY DEF PackCard
<1>2. OfOrder(p, order) /\ IsPayload(p)
  BY PrintedForOrder
<1>3. packed = pack(order.packer, p)
  OBVIOUS
<1> HIDE DEF p, packed
<1>4. /\ ~(encode(p).projected > byte_capacity(order.packer.max_version, order.packer.ec))
      /\ packed = PackedAs(order.packer, p)
  BY <1>1, <1>2, <1>3, PackedCard
<1>5. /\ packed.version = Chosen(order.packer, encode(p).projected)
      /\ packed.projected = encode(p).projected
  BY <1>4 DEF PackedAs
<1>6. /\ card'.packer = order.packer /\ card'.payload = p /\ card'.first = packed
      /\ card'.packed = packed /\ IsCard(card')
  BY <1>1 DEF IsCard
<1> QED BY <1>2, <1>3, <1>4, <1>5, <1>6 DEF FitsAs

\* Signing changes one signature, to the length its suite has.
LEMMA SignedSlots ==
  ASSUME NEW order \in Orders, FitsAs(card, order), NEW i \in DOMAIN card.payload.signatures,
         SignSlot(i)
  PROVE  /\ OfOrder(card'.payload, order)
         /\ \A j \in 1..Len(card.payload.signatures) :
              /\ card.payload.signatures[j].suite = card'.payload.signatures[j].suite
              /\ card.payload.signatures[j].key_id = card'.payload.signatures[j].key_id
         /\ card'.packer = card.packer /\ card'.first = card.first
         /\ card'.packed = pack(card.packer, card'.payload)
<1> DEFINE p == card.payload
           s == p.signatures
           m == signature_len[s[i].suite]
           t == [s EXCEPT ![i].signature = m]
           q == [p EXCEPT !.signatures[i].signature = m]
<1>1. /\ IsCard(card) /\ IsPayload(p) /\ OfOrder(p, order)
  BY DEF FitsAs
<1>2. card' = [card EXCEPT !.payload = q, !.packed = pack(card.packer, q)]
  BY DEF SignSlot
<1>3. /\ q.signatures = t /\ q.product_id = p.product_id /\ q.resolver_uri = p.resolver_uri
      /\ q.passport_id = p.passport_id /\ q.eo_id = p.eo_id /\ q.status = p.status
      /\ q.safety = p.safety /\ q.validity = p.validity /\ q.as_of = p.as_of
  BY <1>1 DEF IsPayload
<1>4. /\ card'.payload = q /\ card'.packer = card.packer /\ card'.first = card.first
      /\ card'.packed = pack(card.packer, q)
  <2> HIDE DEF q
  <2> QED BY <1>1, <1>2 DEF IsCard
<1>5. /\ s \in Seq(AnySlots) /\ Len(s) \in Nat /\ DOMAIN s = 1..Len(s)
      /\ \A j \in 1..Len(s) : IsSlot(s[j]) /\ s[j] \in AnySlots
  BY <1>1, ElementsOf DEF OfOrder
<1>6. m \in Nat
  <2>1. s[i].suite \in DOMAIN signature_len
    BY <1>5 DEF AnySlots
  <2> QED BY <2>1, SuiteLengths
<1>7. /\ i \in 1..Len(s) /\ m = signature_len[s[i].suite]
      /\ t = [s EXCEPT ![i].signature = m]
  BY <1>5
<1> HIDE DEF p, s, m, t, q
<1>8. \A j \in 1..Len(s) : j # i => t[j] = s[j]
  BY <1>5, <1>7
<1>9. /\ t[i] = [s[i] EXCEPT !.signature = m]
      /\ DOMAIN t = 1..Len(s)
  BY <1>5, <1>7
<1>10. /\ t[i].suite = s[i].suite /\ t[i].key_id = s[i].key_id /\ t[i].signature = m
       /\ t[i] \in AnySlots
  BY <1>5, <1>6, <1>7, <1>9 DEF AnySlots
<1>11. \A j \in 1..Len(s) : /\ s[j].suite = t[j].suite /\ s[j].key_id = t[j].key_id
                            /\ t[j] \in AnySlots
  BY <1>5, <1>8, <1>10
<1>12. IsSlot(t[i])
  BY <1>5, <1>7, <1>10 DEF IsSlot
<1>13. \A j \in 1..Len(s) : IsSlot(t[j])
  BY <1>5, <1>8, <1>12
<1>14. t \in Seq(AnySlots) /\ Len(t) = Len(s)
  <2>1. t = [j \in 1..Len(s) |-> t[j]]
    BY <1>7, <1>9
  <2>2. t \in [1..Len(s) -> AnySlots]
    BY <1>11, <2>1
  <2> QED BY <1>5, <2>2
<1>15. OfOrder(q, order)
  BY <1>1, <1>3, <1>13, <1>14 DEF OfOrder, s
<1> QED BY <1>3, <1>4, <1>11, <1>15 DEF p, s

LEMMA SignFits ==
  ASSUME NEW order \in Orders, FitsAs(card, order), NEW i \in DOMAIN card.payload.signatures,
         SignSlot(i)
  PROVE  FitsAs(card', order)
<1> DEFINE p == card.payload
           q == card'.payload
<1>1. /\ IsCard(card) /\ IsPayload(p) /\ OfOrder(p, order)
      /\ IsCard(card') /\ IsPayload(q) /\ OfOrder(q, order)
  BY SignKeeps, SignedSlots DEF FitsAs
<1>2. /\ p.log_head = q.log_head /\ p.as_of = q.as_of
      /\ p.status = q.status /\ p.safety = q.safety
  BY <1>1, SignKeeps
<1>3. encode(p).projected = encode(q).projected
  <2>1. \A j \in 1..Len(p.signatures) : /\ p.signatures[j].suite = q.signatures[j].suite
                                        /\ p.signatures[j].key_id = q.signatures[j].key_id
    BY SignedSlots
  <2> HIDE DEF p, q
  <2> QED BY <1>1, <1>2, <2>1, BudgetSteady
<1>4. /\ card'.packer = card.packer /\ card'.first = card.first
      /\ card'.packed = pack(card.packer, q)
  BY SignedSlots
<1> QED BY <1>1, <1>3, <1>4 DEF FitsAs

LEMMA FInvStep == InvalidApart /\ FInv /\ [CNext]_cvars => FInv'
<1> SUFFICES ASSUME InvalidApart, FInv, [CNext]_cvars PROVE FInv'
  OBVIOUS
<1>1. IInv /\ CardFits
  BY DEF FInv
<1>2. [Next]_vars
  BY DEF CNext, cvars, PackCard, SignSlot
<1>3. IInv'
  BY <1>1, <1>2, InvStep
<1>4. CASE UNCHANGED card
  BY <1>1, <1>3, <1>4 DEF FInv, CardFits
<1>5. ASSUME NEW at \in Times, NEW order \in Orders, PackCard(at, order)
      PROVE  FInv'
  BY <1>1, <1>3, <1>5, PackFits DEF FInv, CardFits
<1>6. ASSUME card # None, NEW i \in DOMAIN card.payload.signatures, SignSlot(i)
      PROVE  FInv'
  <2>1. PICK order \in Orders : FitsAs(card, order)
    BY <1>1, <1>6 DEF CardFits
  <2>2. FitsAs(card', order)
    BY <1>6, <2>1, SignFits
  <2> QED BY <1>3, <2>2 DEF FInv, CardFits
<1> QED BY <1>4, <1>5, <1>6 DEF CNext, cvars

LEMMA FInvariance == ASSUME InvalidApart PROVE CSpec => []FInv
<1>1. CInit => FInv
  BY InvInit DEF CInit, FInv, CardFits
<1> QED BY <1>1, FInvStep, PTL DEF CSpec

\* A card that was printed still fits its symbol when its slots are signed in any
\* number and order, the symbol is the smallest for the signed card, and nothing is
\* reserved in vain (packer.rs:119, :229).
THEOREM SignedAlwaysFits ==
  ASSUME InvalidApart
  PROVE  CSpec => []SignedFits
<1>1. ASSUME card # None, NEW order \in Orders, FitsAs(card, order)
      PROVE  SignedFits
  <2> DEFINE p == card.payload
             packer == card.packer
             len == encode(p).projected
  <2>1. /\ OfOrder(p, order) /\ packer = order.packer
        /\ ~(len > byte_capacity(packer.max_version, packer.ec))
        /\ card.packed = pack(packer, p)
        /\ card.first.version = Chosen(packer, len) /\ card.first.projected = len
    BY <1>1 DEF FitsAs
  <2>2. /\ encode(p).projected = Bytes(fields(p)) + Reserved(Taken(p))
        /\ Bytes(fields(p)) \in Nat /\ Reserved(Taken(p)) \in Nat
        /\ Signed(p) => Reserved(Taken(p)) = 0
    BY <2>1, EncodedLength
  <2>3. card.packed = PackedAs(packer, p) /\ card.packed # Invalid
    BY <2>1, PackedCard
  <2>4. /\ card.packed.version = Chosen(packer, len) /\ card.packed.projected = len
        /\ card.packed.used = Bytes(fields(p)) /\ card.packed.ec = packer.ec
        /\ card.packed.capacity = byte_capacity(Chosen(packer, len), packer.ec)
    BY <2>3 DEF PackedAs
  <2>5. packer.ec \in DOMAIN Capacity /\ packer.max_version \in 1..40
    BY <2>1, CarrierConstantsOK
  <2>6. len \in Nat
    BY <2>2
  <2> HIDE DEF p, packer, len
  <2>7. /\ Chosen(packer, len) <= packer.max_version
        /\ len <= byte_capacity(Chosen(packer, len), packer.ec)
        /\ Chosen(packer, len) > 1 => byte_capacity(Chosen(packer, len) - 1, packer.ec) < len
    BY <2>1, <2>5, <2>6, SmallestSymbol
  <2>8. Bytes(fields(p)) <= len /\ (Signed(p) => Bytes(fields(p)) = len)
    BY <2>2 DEF len
  <2>9. /\ card.packed.version = card.first.version
        /\ card.packed.projected = card.first.projected
        /\ card.packed.used <= card.packed.projected
        /\ card.packed.projected <= card.packed.capacity
        /\ card.packed.version <= card.packer.max_version
    BY <2>1, <2>4, <2>7, <2>8 DEF packer
  <2>10. (\A i \in DOMAIN card.payload.signatures : ~is_framed_only(card.payload.signatures[i]))
           => Signed(p)
    <3>1. DOMAIN p.signatures = 1..Len(p.signatures)
      BY <2>1 DEF OfOrder
    <3> QED BY <3>1 DEF Signed, p
  <2>11. Signed(p) => /\ card.packed.used = card.packed.projected
                      /\ card.packed.version > 1 =>
                           byte_capacity(card.packed.version - 1, card.packed.ec) < card.packed.used
    BY <2>4, <2>7, <2>8
  <2> QED BY <2>3, <2>9, <2>10, <2>11, Zenon DEF SignedFits
<1>2. FInv => SignedFits
  BY <1>1 DEF FInv, CardFits, SignedFits
<1> QED BY <1>2, FInvariance, PTL

\* What a reader needs of the orders: identifiers that read back from their own text
\* (not all do, see RoundTripExact), a validity, and no more slots than are numbered.
OrdersReadBack ==
  \A o \in Orders :
    /\ parse(display(o.id)) = o.id /\ o.id # Invalid
    /\ o.validity = [from |-> o.validity.from, to |-> o.validity.to]
    /\ Len(o.slots) <= Slots

\* The tags of the fixed fields, and what they carry.
Names == <<"product_id", "resolver_uri", "passport_id", "eo_id", "status", "safety",
           "validity_from", "validity_to", "as_of", "log_head", "sig_count">>
TimeText(t) == IF t = None THEN None ELSE Cal!display_timestamp(t)
Carried(p) ==
  <<display(p.product_id), p.resolver_uri, p.passport_id, p.eo_id, p.status, p.safety,
    Cal!display_timestamp(p.validity.from), TimeText(p.validity.to),
    Cal!display_timestamp(p.as_of), p.log_head, Len(Taken(p))>>

LEMMA NamesDiffer ==
  /\ \A i, j \in 1..11 : Names[i] = Names[j] => i = j
  /\ \A i \in 1..11 : Names[i] # "sig_slot"
<1> DEFINE place == [product_id |-> 1, resolver_uri |-> 2, passport_id |-> 3, eo_id |-> 4,
                     status |-> 5, safety |-> 6, validity_from |-> 7, validity_to |-> 8,
                     as_of |-> 9, log_head |-> 10, sig_count |-> 11]
<1>1. /\ place["product_id"] = 1 /\ place["resolver_uri"] = 2 /\ place["passport_id"] = 3
      /\ place["eo_id"] = 4 /\ place["status"] = 5 /\ place["safety"] = 6
      /\ place["validity_from"] = 7 /\ place["validity_to"] = 8 /\ place["as_of"] = 9
      /\ place["log_head"] = 10 /\ place["sig_count"] = 11
  OBVIOUS
<1>2. /\ Names[1] = "product_id" /\ Names[2] = "resolver_uri" /\ Names[3] = "passport_id"
      /\ Names[4] = "eo_id" /\ Names[5] = "status" /\ Names[6] = "safety"
      /\ Names[7] = "validity_from" /\ Names[8] = "validity_to" /\ Names[9] = "as_of"
      /\ Names[10] = "log_head" /\ Names[11] = "sig_count"
  BY DEF Names
<1> HIDE DEF place
<1>3. ASSUME NEW i \in 1..11 PROVE place[Names[i]] = i /\ Names[i] # "sig_slot"
  <2>1. i \in {1, 2, 3, 4, 5, 6, 7, 8, 9, 10, 11}
    OBVIOUS
  <2> QED BY <1>1, <1>2, <2>1
<1> QED BY <1>3

LEMMA FixedValues ==
  ASSUME NEW p
  PROVE  \A i \in 1..11 : Fixed(p)[i].tag = Names[i] /\ Fixed(p)[i].value = Carried(p)[i]
<1>1. \A tag, value, len : Field(tag, value, len).tag = tag /\ Field(tag, value, len).value = value
  BY DEF Field
<1> DEFINE f1 == Field("product_id", display(p.product_id), 4 + TextLen(display(p.product_id)))
           f2 == Str("resolver_uri", p.resolver_uri)
           f3 == Str("passport_id", p.passport_id)
           f4 == Str("eo_id", p.eo_id)
           f5 == Str("status", p.status)
           f6 == Str("safety", p.safety)
           f7 == TimeField("validity_from", p.validity.from)
           f8 == OptTimeField("validity_to", p.validity.to)
           f9 == TimeField("as_of", p.as_of)
           f10 == Field("log_head", p.log_head, 1 + (IF p.log_head = None THEN 0 ELSE 32))
           f11 == Field("sig_count", Len(Taken(p)), 1)
<1>2. /\ f1.tag = "product_id" /\ f1.value = display(p.product_id)
      /\ f2.tag = "resolver_uri" /\ f2.value = p.resolver_uri
      /\ f3.tag = "passport_id" /\ f3.value = p.passport_id
      /\ f4.tag = "eo_id" /\ f4.value = p.eo_id
      /\ f5.tag = "status" /\ f5.value = p.status
      /\ f6.tag = "safety" /\ f6.value = p.safety
      /\ f7.tag = "validity_from" /\ f7.value = Cal!display_timestamp(p.validity.from)
      /\ f8.tag = "validity_to" /\ f8.value = TimeText(p.validity.to)
      /\ f9.tag = "as_of" /\ f9.value = Cal!display_timestamp(p.as_of)
      /\ f10.tag = "log_head" /\ f10.value = p.log_head
      /\ f11.tag = "sig_count" /\ f11.value = Len(Taken(p))
  <2>1. \A tag, text : Str(tag, text).tag = tag /\ Str(tag, text).value = text
    BY <1>1, Zenon DEF Str
  <2>2. \A tag, t : /\ TimeField(tag, t).tag = tag
                    /\ TimeField(tag, t).value = Cal!display_timestamp(t)
    BY <1>1, Zenon DEF TimeField
  <2>3. \A x : Field("log_head", p.log_head, x).tag = "log_head"
               /\ Field("log_head", p.log_head, x).value = p.log_head
    BY <1>1
  <2>4. f8.tag = "validity_to" /\ f8.value = TimeText(p.validity.to)
    <3>1. \A tag, t : OptTimeField(tag, t).tag = tag /\ OptTimeField(tag, t).value = TimeText(t)
      <4> TAKE tag, t
      <4>1. CASE t = None
        BY <1>1, <4>1, Zenon DEF OptTimeField, TimeText
      <4>2. CASE t # None
        BY <1>1, <4>2, Zenon DEF OptTimeField, TimeText
      <4> QED BY <4>1, <4>2
    <3> QED BY <3>1, Zenon
  <2>5. f10.tag = "log_head" /\ f10.value = p.log_head
    BY <2>3, Zenon
  <2>6. f1.tag = "product_id" /\ f1.value = display(p.product_id)
    <3>1. \A x : /\ Field("product_id", display(p.product_id), x).tag = "product_id"
                 /\ Field("product_id", display(p.product_id), x).value = display(p.product_id)
      BY <1>1
    <3> QED BY <3>1, Zenon
  <2>7. f7.tag = "validity_from" /\ f7.value = Cal!display_timestamp(p.validity.from)
    BY <2>2, Zenon
  <2>8. f9.tag = "as_of" /\ f9.value = Cal!display_timestamp(p.as_of)
    BY <2>2, Zenon
  <2>9. f11.tag = "sig_count" /\ f11.value = Len(Taken(p))
    <3>1. \A x : /\ Field("sig_count", Len(Taken(p)), x).tag = "sig_count"
                 /\ Field("sig_count", Len(Taken(p)), x).value = Len(Taken(p))
      BY <1>1
    <3> QED BY <3>1, Zenon
  <2>10. /\ f2.tag = "resolver_uri" /\ f2.value = p.resolver_uri
         /\ f3.tag = "passport_id" /\ f3.value = p.passport_id
         /\ f4.tag = "eo_id" /\ f4.value = p.eo_id
         /\ f5.tag = "status" /\ f5.value = p.status
         /\ f6.tag = "safety" /\ f6.value = p.safety
    BY <2>1, Zenon
  <2> HIDE DEF f1, f2, f3, f4, f5, f6, f7, f8, f9, f10, f11
  <2> QED BY <2>4, <2>5, <2>6, <2>7, <2>8, <2>9, <2>10
<1>3. Fixed(p) = <<f1, f2, f3, f4, f5, f6, f7, f8, f9, f10, f11>>
  BY DEF Fixed
<1> HIDE DEF f1, f2, f3, f4, f5, f6, f7, f8, f9, f10, f11
<1>4. /\ Fixed(p)[1] = f1 /\ Fixed(p)[2] = f2 /\ Fixed(p)[3] = f3 /\ Fixed(p)[4] = f4
      /\ Fixed(p)[5] = f5 /\ Fixed(p)[6] = f6 /\ Fixed(p)[7] = f7 /\ Fixed(p)[8] = f8
      /\ Fixed(p)[9] = f9 /\ Fixed(p)[10] = f10 /\ Fixed(p)[11] = f11
  BY <1>3
<1>5. /\ Names[1] = f1.tag /\ Names[2] = f2.tag /\ Names[3] = f3.tag /\ Names[4] = f4.tag
      /\ Names[5] = f5.tag /\ Names[6] = f6.tag /\ Names[7] = f7.tag /\ Names[8] = f8.tag
      /\ Names[9] = f9.tag /\ Names[10] = f10.tag /\ Names[11] = f11.tag
  BY <1>2 DEF Names
<1>6. /\ Carried(p)[1] = f1.value /\ Carried(p)[2] = f2.value /\ Carried(p)[3] = f3.value
      /\ Carried(p)[4] = f4.value /\ Carried(p)[5] = f5.value /\ Carried(p)[6] = f6.value
      /\ Carried(p)[7] = f7.value /\ Carried(p)[8] = f8.value /\ Carried(p)[9] = f9.value
      /\ Carried(p)[10] = f10.value /\ Carried(p)[11] = f11.value
  BY <1>2 DEF Carried
<1> SUFFICES ASSUME NEW i \in 1..11
             PROVE  Fixed(p)[i].tag = Names[i] /\ Fixed(p)[i].value = Carried(p)[i]
  OBVIOUS
<1>7. i \in {1, 2, 3, 4, 5, 6, 7, 8, 9, 10, 11}
  OBVIOUS
<1> QED BY <1>4, <1>5, <1>6, <1>7

LEMMA OneTagged ==
  ASSUME NEW bytes, NEW tag, NEW k \in DOMAIN bytes, k \in Int, bytes[k].tag = tag,
         \A i \in DOMAIN bytes : bytes[i].tag = tag => i = k
  PROVE  /\ Tagged(bytes, tag) = {k} /\ Max(Tagged(bytes, tag)) = k
         /\ Value(bytes, tag) = bytes[k].value
<1>1. Tagged(bytes, tag) = {k}
  BY DEF Tagged
<1>2. Max({k}) = k
  <2>1. k \in {k} /\ \A y \in {k} : k >= y
    OBVIOUS
  <2>2. \A x \in {k} : x = k
    OBVIOUS
  <2> QED BY <2>1, <2>2 DEF Max
<1> QED BY <1>1, <1>2 DEF Value

LEMMA JoinedFields ==
  ASSUME NEW S, NEW f \in Seq(S), NEW g \in Seq(S), NEW h, h = f \o g
  PROVE  /\ DOMAIN h = 1..Len(f) + Len(g)
         /\ \A i \in 1..Len(f) : h[i] = f[i]
         /\ \A i \in 1..Len(g) : h[Len(f) + i] = g[i]
  OBVIOUS

\* Where the fields of a card stand.
LEMMA FieldsOfCard ==
  ASSUME NEW order \in Orders, NEW p, OfOrder(p, order)
  PROVE  /\ Len(Taken(p)) \in Nat
         /\ DOMAIN fields(p) = 1..11 + Len(Taken(p))
         /\ \A k \in 1..11 : /\ Tagged(fields(p), Names[k]) = {k}
                             /\ Max(Tagged(fields(p), Names[k])) = k
                             /\ Value(fields(p), Names[k]) = Carried(p)[k]
         /\ \A i \in 1..Len(Taken(p)) : fields(p)[11 + i] = SlotField(Taken(p)[i])
         /\ Tagged(fields(p), "sig_slot") = {11 + i : i \in 1..Len(Taken(p))}
<1> DEFINE n == Len(Taken(p))
           F == Fixed(p)
           G == SlotFields(p)
           B == fields(p)
<1>1. n \in Nat
  BY TakenSlots DEF OfOrder
<1>2. F \in Seq({F[i] : i \in 1..11}) /\ Len(F) = 11
  BY FixedLengths
<1>3. /\ G \in Seq({G[i] : i \in 1..n}) /\ Len(G) = n
      /\ \A i \in 1..n : G[i] = SlotField(Taken(p)[i])
  BY <1>1 DEF SlotFields
<1>4. B = F \o G
  BY DEF fields, SlotFields
<1>5. \A i \in 1..11 : F[i].tag = Names[i] /\ F[i].value = Carried(p)[i]
  BY FixedValues
<1> HIDE DEF n, F, G, B
<1>6. /\ DOMAIN B = 1..11 + n
      /\ \A i \in 1..11 : B[i] = F[i]
      /\ \A i \in 1..n : B[11 + i] = G[i]
  <2> DEFINE S == {F[i] : i \in 1..11} \cup {G[i] : i \in 1..n}
  <2>1. F \in Seq(S) /\ G \in Seq(S)
    <3> DEFINE X == {F[i] : i \in 1..11}
               Y == {G[i] : i \in 1..n}
    <3>1. F \in Seq(X) /\ G \in Seq(Y) /\ S = X \cup Y
      BY <1>2, <1>3
    <3> HIDE DEF X, Y, S
    <3> QED BY <3>1
  <2> HIDE DEF S
  <2>2. Len(F) = 11 /\ Len(G) = n
    BY <1>2, <1>3
  <2>3. /\ DOMAIN B = 1..Len(F) + Len(G)
        /\ \A i \in 1..Len(F) : B[i] = F[i]
        /\ \A i \in 1..Len(G) : B[Len(F) + i] = G[i]
    BY <1>4, <2>1, JoinedFields
  <2> QED BY <2>2, <2>3
<1>7. \A i \in 1..n : G[i].tag = "sig_slot"
  <2>1. \A slot : SlotField(slot).tag = "sig_slot"
    BY DEF SlotField
  <2> QED BY <1>3, <2>1
<1>8. \A j \in DOMAIN B : j \in 1..11 \/ (j - 11 \in 1..n /\ j = 11 + (j - 11))
  BY <1>1, <1>6
<1>9. \A j \in DOMAIN B : ~(j \in 1..11) => B[j].tag = "sig_slot"
  BY <1>6, <1>7, <1>8
<1>10. ASSUME NEW k \in 1..11
       PROVE  /\ Tagged(B, Names[k]) = {k} /\ Max(Tagged(B, Names[k])) = k
              /\ Value(B, Names[k]) = Carried(p)[k]
  <2>1. k \in DOMAIN B /\ k \in Int /\ B[k].tag = Names[k] /\ B[k].value = Carried(p)[k]
    BY <1>1, <1>5, <1>6
  <2>2. ASSUME NEW j \in DOMAIN B, B[j].tag = Names[k] PROVE j = k
    <3>1. j \in 1..11
      BY <1>9, <2>2, NamesDiffer
    <3>2. Names[j] = Names[k]
      BY <1>5, <1>6, <2>2, <3>1
    <3> QED BY <3>1, <3>2, NamesDiffer
  <2> QED BY <2>1, <2>2, OneTagged
<1>11. Tagged(B, "sig_slot") = {11 + i : i \in 1..n}
  <2>1. \A j \in 1..11 : B[j].tag # "sig_slot"
    BY <1>5, <1>6, NamesDiffer
  <2>2. ASSUME NEW i \in 1..n PROVE 11 + i \in DOMAIN B /\ B[11 + i].tag = "sig_slot"
    <3>1. B[11 + i] = G[i] /\ G[i].tag = "sig_slot"
      BY <1>6, <1>7
    <3>2. 11 + i \in 1..11 + n
      BY <1>1
    <3> QED BY <1>6, <3>1, <3>2
  <2>3. \A j \in DOMAIN B : B[j].tag = "sig_slot" => j \in {11 + i : i \in 1..n}
    BY <1>8, <2>1
  <2> QED BY <2>2, <2>3 DEF Tagged
<1> QED BY <1>1, <1>3, <1>6, <1>10, <1>11 DEF n, B

\* A slot reads back from its field: unsigned when it is framed by the sentinel, which
\* no suite's signature is as long as.
LEMMA SlotReadsBack ==
  ASSUME NEW slot, IsSlot(slot), None \notin Nat
  PROVE  /\ SlotOf(SlotField(slot)) = slot
         /\ SlotField(slot).framed = Sentinel => SlotField(slot).raw = 0
<1> DEFINE f == SlotField(slot)
<1>1. slot = [suite |-> slot.suite, key_id |-> slot.key_id, signature |-> slot.signature]
  BY DEF IsSlot, AnySlots
<1>2. \A t, s, key, fr, r, x :
        /\ [tag |-> t, suite |-> s, key_id |-> key, framed |-> fr, raw |-> r, len |-> x].suite = s
        /\ [tag |-> t, suite |-> s, key_id |-> key, framed |-> fr, raw |-> r, len |-> x].key_id = key
        /\ [tag |-> t, suite |-> s, key_id |-> key, framed |-> fr, raw |-> r, len |-> x].framed = fr
        /\ [tag |-> t, suite |-> s, key_id |-> key, framed |-> fr, raw |-> r, len |-> x].raw = r
  OBVIOUS
<1>3. /\ f.suite = slot.suite /\ f.key_id = slot.key_id
      /\ f.framed = (IF is_framed_only(slot) THEN Sentinel ELSE slot.signature)
      /\ f.raw = (IF is_framed_only(slot) THEN 0 ELSE slot.signature)
  BY <1>2, Zenon DEF SlotField
<1> HIDE DEF f
<1>4. Framed(f) = slot.signature /\ (f.framed = Sentinel => f.raw = 0)
  <2>1. CASE is_framed_only(slot)
    <3>1. f.framed = Sentinel /\ f.raw = 0 /\ slot.signature = None
      BY <1>3, <2>1, Zenon DEF is_framed_only
    <3> QED BY <3>1 DEF Framed
  <2>2. CASE ~is_framed_only(slot)
    <3>1. f.framed = slot.signature /\ f.raw = slot.signature
      BY <1>3, <2>2, Zenon
    <3>2. slot.signature = signature_len[slot.suite] /\ slot.suite \in DOMAIN signature_len
      BY <2>2 DEF is_framed_only, IsSlot, AnySlots
    <3>3. slot.signature \in Nat /\ slot.signature <= 4627
      BY <3>2, SuiteLengths
    <3>4. slot.signature # Sentinel
      BY <3>3 DEF Sentinel
    <3> QED BY <3>1, <3>4, Zenon DEF Framed
  <2> QED BY <2>1, <2>2
<1>5. SlotOf(f) = slot
  BY <1>1, <1>3, <1>4, Zenon DEF SlotOf, Slot
<1> QED BY <1>4, <1>5 DEF f

\* What the reader finds under each name.
LEMMA ValuesRead ==
  ASSUME NEW order \in Orders, NEW p, OfOrder(p, order)
  PROVE  LET B == fields(p)
         IN  /\ Value(B, "product_id") = display(p.product_id)
             /\ Value(B, "resolver_uri") = p.resolver_uri
             /\ Value(B, "passport_id") = p.passport_id /\ Value(B, "eo_id") = p.eo_id
             /\ Value(B, "status") = p.status /\ Value(B, "safety") = p.safety
             /\ Value(B, "validity_from") = Cal!display_timestamp(p.validity.from)
             /\ Value(B, "validity_to") = TimeText(p.validity.to)
             /\ Value(B, "as_of") = Cal!display_timestamp(p.as_of)
             /\ Value(B, "log_head") = p.log_head
             /\ SlotCount(B) = Len(Taken(p))
             /\ \A i : SlotPlace(B, i) = 11 + i
             /\ \A tag \in Required : Tagged(B, tag) # {}
<1> DEFINE B == fields(p)
<1>1. \A k \in 1..11 : /\ Tagged(B, Names[k]) = {k} /\ Max(Tagged(B, Names[k])) = k
                       /\ Value(B, Names[k]) = Carried(p)[k]
  BY FieldsOfCard
<1>2. /\ Names[1] = "product_id" /\ Names[2] = "resolver_uri" /\ Names[3] = "passport_id"
      /\ Names[4] = "eo_id" /\ Names[5] = "status" /\ Names[6] = "safety"
      /\ Names[7] = "validity_from" /\ Names[8] = "validity_to" /\ Names[9] = "as_of"
      /\ Names[10] = "log_head" /\ Names[11] = "sig_count"
  BY DEF Names
<1>3. /\ Carried(p)[1] = display(p.product_id) /\ Carried(p)[2] = p.resolver_uri
      /\ Carried(p)[3] = p.passport_id /\ Carried(p)[4] = p.eo_id
      /\ Carried(p)[5] = p.status /\ Carried(p)[6] = p.safety
      /\ Carried(p)[7] = Cal!display_timestamp(p.validity.from)
      /\ Carried(p)[8] = TimeText(p.validity.to)
      /\ Carried(p)[9] = Cal!display_timestamp(p.as_of) /\ Carried(p)[10] = p.log_head
      /\ Carried(p)[11] = Len(Taken(p))
  BY DEF Carried
<1> HIDE DEF B
<1>4. /\ 1 \in 1..11 /\ 2 \in 1..11 /\ 3 \in 1..11 /\ 4 \in 1..11 /\ 5 \in 1..11 /\ 6 \in 1..11
      /\ 7 \in 1..11 /\ 8 \in 1..11 /\ 9 \in 1..11 /\ 10 \in 1..11 /\ 11 \in 1..11
  OBVIOUS
<1>5. /\ Value(B, "product_id") = display(p.product_id)
      /\ Value(B, "resolver_uri") = p.resolver_uri
      /\ Value(B, "passport_id") = p.passport_id /\ Value(B, "eo_id") = p.eo_id
      /\ Value(B, "status") = p.status /\ Value(B, "safety") = p.safety
  BY <1>1, <1>2, <1>3, <1>4
<1>6. /\ Value(B, "validity_from") = Cal!display_timestamp(p.validity.from)
      /\ Value(B, "validity_to") = TimeText(p.validity.to)
      /\ Value(B, "as_of") = Cal!display_timestamp(p.as_of) /\ Value(B, "log_head") = p.log_head
  BY <1>1, <1>2, <1>3, <1>4
<1>7. /\ Tagged(B, "sig_count") = {11} /\ Max(Tagged(B, "sig_count")) = 11
      /\ Value(B, "sig_count") = Len(Taken(p))
  BY <1>1, <1>2, <1>3, <1>4
<1>8. SlotCount(B) = Len(Taken(p)) /\ \A i : SlotPlace(B, i) = 11 + i
  BY <1>7 DEF SlotCount, SlotPlace
<1>9. \A tag \in Required : Tagged(B, tag) # {}
  <2>1. \A tag \in Required : \E k \in 1..11 : tag = Names[k]
    BY <1>2, <1>4 DEF Required
  <2> QED BY <1>1, <2>1
<1> QED BY <1>5, <1>6, <1>8, <1>9 DEF B

\* An instant is read from its text when the year has four digits.
FourDigitsOf(t) == Cal!FourDigits(Cal!display_timestamp(t).date.year)

LEMMA InstantRead ==
  ASSUME NEW t \in Stamps
  PROVE  ReadTime(Cal!display_timestamp(t)) = IF FourDigitsOf(t) THEN t ELSE Invalid
<1>1. IsInstant(t) /\ Cal!display_timestamp(t) # None
  BY StampsAre
<1>2. 0 \in Int /\ Cal!Zone(0)
  BY SMT DEF Cal!Zone, Cal!DayLength
<1>3. Cal!parse_timestamp(Cal!display_timestamp(t)) = IF FourDigitsOf(t) THEN t ELSE Invalid
  <2> PICK u : u = Cal!Instant(t.day, t.sec, t.nanos)
    OBVIOUS
  <2>1. Cal!parse_timestamp(Cal!display_timestamp(u)) =
          IF Cal!FourDigits(Cal!display_timestamp(u).date.year) THEN u ELSE Invalid
    BY <1>1, <1>2, InstantsReadBack, Zenon DEF IsInstant
  <2>2. u = t
    BY <1>1, Zenon DEF IsInstant
  <2> QED BY <2>1, <2>2, Zenon DEF FourDigitsOf
<1> QED BY <1>1, <1>3, Zenon DEF ReadTime

LEMMA OptInstantRead ==
  ASSUME NEW t \in Stamps \cup {None}
  PROVE  ReadTime(TimeText(t)) = IF t = None \/ FourDigitsOf(t) THEN t ELSE Invalid
<1>1. CASE t = None
  BY <1>1, Zenon DEF ReadTime, TimeText
<1>2. CASE t # None
  BY <1>2, InstantRead, Zenon DEF TimeText
<1> QED BY <1>1, <1>2

LEMMA ReadsBackAsMade ==
  ASSUME OrdersReadBack, NEW order \in Orders, NEW p, OfOrder(p, order), IsPayload(p)
  PROVE  decode(fields(p)) = IF Dated(p) THEN p ELSE Invalid
<1> DEFINE B == fields(p)
           n == Len(Taken(p))
           from == p.validity.from
           to == p.validity.to
<1>1. /\ parse(display(p.product_id)) = p.product_id /\ p.product_id # Invalid
      /\ p.validity = [from |-> p.validity.from, to |-> p.validity.to]
      /\ Len(p.signatures) <= Slots
  BY DEF OrdersReadBack, OfOrder
<1>2. /\ Taken(p) = p.signatures /\ n \in Nat /\ p.signatures \in Seq(AnySlots)
      /\ \A i \in 1..n : IsSlot(p.signatures[i])
  BY <1>1, TakenSlots DEF OfOrder
<1>3. /\ Value(B, "product_id") = display(p.product_id)
      /\ Value(B, "resolver_uri") = p.resolver_uri
      /\ Value(B, "passport_id") = p.passport_id /\ Value(B, "eo_id") = p.eo_id
      /\ Value(B, "status") = p.status /\ Value(B, "safety") = p.safety
      /\ Value(B, "validity_from") = Cal!display_timestamp(from)
      /\ Value(B, "validity_to") = TimeText(to)
      /\ Value(B, "as_of") = Cal!display_timestamp(p.as_of)
      /\ Value(B, "log_head") = p.log_head
      /\ SlotCount(B) = n /\ \A i : SlotPlace(B, i) = 11 + i
      /\ \A tag \in Required : Tagged(B, tag) # {}
  BY ValuesRead
<1>4. /\ \A i \in 1..n : B[11 + i] = SlotField(Taken(p)[i])
      /\ Tagged(B, "sig_slot") = {11 + i : i \in 1..n}
  BY FieldsOfCard
<1>5. n = Len(p.signatures)
  BY <1>2
<1>14. /\ from \in Stamps /\ p.as_of \in Stamps /\ to \in Stamps \cup {None}
       /\ from # Invalid /\ p.as_of # Invalid /\ to # Invalid
  BY StampsAre, CarrierConstantsOK, Zenon DEF OfOrder
<1>15. /\ ReadTime(Value(B, "validity_from")) = IF FourDigitsOf(from) THEN from ELSE Invalid
       /\ ReadTime(Value(B, "as_of")) = IF FourDigitsOf(p.as_of) THEN p.as_of ELSE Invalid
       /\ ReadTime(Value(B, "validity_to")) =
            IF to = None \/ FourDigitsOf(to) THEN to ELSE Invalid
  BY <1>3, <1>14, InstantRead, OptInstantRead, Zenon
<1>16. from # None /\ p.as_of # None =>
         (Dated(p) <=> /\ FourDigitsOf(from) /\ FourDigitsOf(p.as_of)
                       /\ to = None \/ FourDigitsOf(to))
  BY Zenon DEF Dated, FourDigitsOf
<1> HIDE DEF B, n, from, to
<1>17. from # None /\ p.as_of # None
  BY <1>14, StampsAre, Zenon
<1>18. Dated(p) <=> \A tag \in {"validity_from", "validity_to", "as_of"} :
                      ReadTime(Value(B, tag)) # Invalid
  BY <1>14, <1>15, <1>16, <1>17, Zenon
<1>6. \A i \in 1..n : B[11 + i] = SlotField(p.signatures[i])
  BY <1>2, <1>4
<1>7. \A i \in 1..n : /\ SlotOf(B[11 + i]) = p.signatures[i]
                      /\ B[11 + i].framed = Sentinel => B[11 + i].raw = 0
  <2>1. None \notin Nat
    BY CarrierConstantsOK, Zenon
  <2> QED BY <1>2, <1>6, <2>1, SlotReadsBack
<1>8. Readable(B) <=> Dated(p)
  <2>1. {SlotPlace(B, i) : i \in 1..SlotCount(B)} = {11 + i : i \in 1..n}
    BY <1>3
  <2>2. \A i \in Tagged(B, "sig_slot") : B[i].framed = Sentinel => B[i].raw = 0
    BY <1>4, <1>7
  <2>3. parse(Value(B, "product_id")) # Invalid
    BY <1>1, <1>3
  <2>4. Tagged(B, "sig_slot") = {SlotPlace(B, i) : i \in 1..SlotCount(B)}
    BY <1>4, <2>1
  <2> QED BY <1>3, <1>18, <2>2, <2>3, <2>4, Zenon DEF Readable
<1>19. CASE ~Dated(p)
  BY <1>8, <1>19, Zenon DEF decode, B
<1>20. CASE Dated(p)
  <2>1. [i \in 1..SlotCount(B) |-> SlotOf(B[SlotPlace(B, i)])] = p.signatures
    <3>1. [i \in 1..SlotCount(B) |-> SlotOf(B[SlotPlace(B, i)])] = [i \in 1..n |-> p.signatures[i]]
      BY <1>3, <1>7
    <3>2. p.signatures = [i \in 1..n |-> p.signatures[i]]
      BY <1>2, <1>5
    <3> QED BY <3>1, <3>2
  <2> DEFINE s == [i \in 1..SlotCount(B) |-> SlotOf(B[SlotPlace(B, i)])]
  <2>2. decode(B) =
           [product_id |-> parse(Value(B, "product_id")), resolver_uri |-> Value(B, "resolver_uri"),
            passport_id |-> Value(B, "passport_id"), eo_id |-> Value(B, "eo_id"),
            status |-> Value(B, "status"), safety |-> Value(B, "safety"),
            validity |-> [from |-> ReadTime(Value(B, "validity_from")),
                          to   |-> ReadTime(Value(B, "validity_to"))],
            as_of |-> ReadTime(Value(B, "as_of")), log_head |-> Value(B, "log_head"),
            signatures |-> s]
    BY <1>8, <1>20, Zenon DEF decode
  <2>3. s = p.signatures
    BY <2>1
  <2> HIDE DEF s
  <2>4. /\ ReadTime(Value(B, "validity_from")) = from /\ ReadTime(Value(B, "validity_to")) = to
        /\ ReadTime(Value(B, "as_of")) = p.as_of
    BY <1>15, <1>16, <1>17, <1>20, Zenon
  <2>5. p.validity = [from |-> from, to |-> to]
    BY <1>1 DEF from, to
  <2>6. decode(B) =
           [product_id |-> p.product_id, resolver_uri |-> p.resolver_uri,
            passport_id |-> p.passport_id, eo_id |-> p.eo_id, status |-> p.status,
            safety |-> p.safety, validity |-> p.validity, as_of |-> p.as_of,
            log_head |-> p.log_head, signatures |-> p.signatures]
    BY <1>1, <1>3, <2>2, <2>3, <2>4, <2>5, Zenon
  <2> QED BY <1>20, <2>6 DEF IsPayload, B
<1> QED BY <1>19, <1>20

\* However many slots of a card are signed, and however far the log has gone on, the
\* card reads back as the payload it was made of exactly when every date on it has a
\* year of four digits, and is refused otherwise; what was ordered reads back from its
\* own text (packer.rs:79, :133, time.rs:58).
THEOREM CardsAlwaysReadBack ==
  ASSUME InvalidApart, OrdersReadBack
  PROVE  CSpec => []CardReadsBack
<1>1. ASSUME card # None, NEW order \in Orders, FitsAs(card, order)
      PROVE  CardReadsBack
  <2>1. /\ OfOrder(card.payload, order) /\ IsPayload(card.payload)
        /\ card.packed = pack(card.packer, card.payload)
        /\ ~(encode(card.payload).projected > byte_capacity(card.packer.max_version, card.packer.ec))
    BY <1>1 DEF FitsAs
  <2>2. card.packed = PackedAs(card.packer, card.payload)
    BY <2>1, PackedCard
  <2>3. card.packed.bytes = fields(card.payload)
    BY <2>2 DEF PackedAs
  <2> QED BY <2>1, <2>3, ReadsBackAsMade DEF CardReadsBack
<1>2. FInv => CardReadsBack
  BY <1>1 DEF FInv, CardFits, CardReadsBack
<1> QED BY <1>2, FInvariance, PTL
=============================================================================
