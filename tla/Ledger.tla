------------------------------- MODULE Ledger -------------------------------
(***************************************************************************)
(* What the event log promises (I4), with no chain, no salts and no        *)
(* concurrency: a list that only grows at its end, and in which every      *)
(* event was decided by somebody who had read the whole list before it.    *)
(***************************************************************************)
EXTENDS Integers, Sequences

VARIABLE entries   \* sequence of [event, read]

Init == entries = << >>

\* One author reads everything there is and adds one event to it, as one
\* atomic act.
Record ==
  LET n == Len(entries)
  IN  /\ Len(entries') = n + 1
      /\ SubSeq(entries', 1, n) = entries
      /\ entries'[n+1].event.seq = n
      /\ entries'[n+1].read = [i \in 1..n |-> entries[i].event]

Spec == Init /\ [][Record]_entries
=============================================================================
