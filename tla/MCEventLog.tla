----------------------------- MODULE MCEventLog -----------------------------
(* Small instances of EventLog: the payload sets of the runs.              *)
EXTENDS EventLog, TLC

CONSTANTS eo, alice   \* names of custodians

Symmetric == Permutations(Authors) \cup Permutations(Salts)

\* Status changes there and back, the events that leave another status behind,
\* and a custody transfer.
Change(from, to) == [type |-> "status.change", from |-> from, to |-> to]
EventPayloads ==
  {Change(from, to) : from, to \in {"issued", "suspended", "end-of-waste"}}
  \cup {[type |-> "split", parent_consumed |-> TRUE], [type |-> "issuance"],
        [type |-> "decompose"],
        [type |-> "custody.transfer", from |-> eo, to |-> alice]}

OnePayload == {[type |-> "milestone.record"]}
=============================================================================
