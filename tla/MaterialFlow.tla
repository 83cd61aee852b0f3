---------------------------- MODULE MaterialFlow ----------------------------
(***************************************************************************)
(* Material moving through passports: a chain of issuances, splits and     *)
(* combines as the callers of the transform crate drive it.  A caller      *)
(* reads the live amounts, calls split or combine, applies the outcome to  *)
(* the live amounts and records the step in the provenance graph; passport *)
(* ids are handed out in order, so outputs and children are always new.    *)
(* A refused call changes nothing, so it is no step.                       *)
(***************************************************************************)
EXTENDS Transform

CONSTANTS
  MaxPassports,   \* bound on the passports ever issued
  MaxParts,       \* bound on the carve-outs, or inputs, of one step
  MaxTaints,      \* bound on the taints ever raised
  Amounts,        \* the amounts a caller may name
  Dimensions,     \* the dimensions of material
  Kinds,          \* the kinds of taint
  Careful         \* whether callers name each input once, in its dimension

ASSUME FlowConstantsOK ==
  /\ MaxPassports \in Nat /\ MaxParts \in Nat /\ MaxTaints \in Nat
  /\ Amounts \subseteq Int /\ Careful \in BOOLEAN

Ids == 0 .. MaxPassports - 1
Quantities == [amount : Amounts, dim : Dimensions]

VARIABLES
  live,          \* what each issued passport holds; ids are its domain
  issued, lost,  \* totals per dimension
  graph,         \* ProvenanceGraph
  taint_index,   \* the taints raised on each passport
  lineage        \* history: the passports whose material is in this one

fvars == <<live, issued, lost, graph, taint_index, lineage>>

next == Cardinality(DOMAIN live)   \* the next unused id

\* The passports a caller considers: those that still hold something.
Candidates == {id \in DOMAIN live : live[id].amount > 0}

FInit ==
  /\ live = << >> /\ lineage = << >>
  /\ issued = [d \in Dimensions |-> 0]
  /\ lost = [d \in Dimensions |-> 0]
  /\ graph = [inputs_of |-> [n \in Ids |-> {}], outputs_of |-> [n \in Ids |-> {}]]
  /\ taint_index = [n \in Ids |-> {}]

\* New material enters under a new passport.
Issue(quantity) ==
  /\ next < MaxPassports /\ quantity.amount > 0
  /\ live' = [id \in 0..next |-> IF id = next THEN quantity ELSE live[id]]
  /\ issued' = [issued EXCEPT ![quantity.dim] = @ + quantity.amount]
  /\ lineage' = [id \in 0..next |-> IF id = next THEN {id} ELSE lineage[id]]
  /\ UNCHANGED <<lost, graph, taint_index>>

\* A caller splits what a passport holds; the parent keeps the remainder.
SplitOff(parent, carves) ==
  LET outcome  == split(live[parent], carves)
      last     == next + Len(carves) - 1
      children == next .. last
  IN  /\ last < MaxPassports
      /\ outcome # Refused
      /\ live' = [id \in 0..last |->
                    CASE id \in children -> carves[id - next + 1]
                      [] id = parent     -> outcome.remainder
                      [] OTHER           -> live[id]]
      /\ lineage' = [id \in 0..last |->
                       IF id \in children THEN lineage[parent] \cup {id}
                                          ELSE lineage[id]]
      /\ graph' = record_split(graph, parent, children)
      /\ UNCHANGED <<issued, lost, taint_index>>

\* What a list of inputs takes from one passport.
TakenFrom(id, inputs) ==
  SumFunction([i \in DOMAIN inputs |->
                 IF inputs[i].input = id THEN inputs[i].quantity.amount ELSE 0])

\* How every caller in the repository lists the inputs of a combine.
ListedCarefully(inputs) ==
  /\ \A i, j \in DOMAIN inputs : inputs[i].input = inputs[j].input => i = j
  /\ \A i \in DOMAIN inputs :
       inputs[i].quantity.dim = live[inputs[i].input].dim

\* A caller combines parts of what passports hold into a new passport.
CombineInto(output, inputs) ==
  LET used    == {inputs[i].input : i \in DOMAIN inputs}
      outcome == combine(output, inputs, [id \in used |-> live[id]])
  IN  /\ next < MaxPassports /\ output.amount >= 0
      /\ Careful => ListedCarefully(inputs)
      /\ outcome # Refused
      /\ live' = [id \in 0..next |->
                    IF id = next
                      THEN output
                      ELSE [live[id] EXCEPT !.amount = @ - TakenFrom(id, inputs)]]
      /\ lost' = [lost EXCEPT ![output.dim] = @ + outcome.loss.amount]
      /\ lineage' = [id \in 0..next |->
                       IF id = next THEN {id} \cup UNION {lineage[s] : s \in used}
                                    ELSE lineage[id]]
      /\ graph' = record_combine(graph, next, used)
      /\ UNCHANGED <<issued, taint_index>>

\* A taint is raised on a passport, before or after its material moved on.
Taint(id, kind) ==
  LET taint == [source |-> id, kind |-> kind]
  IN  /\ Cardinality(UNION {taint_index[n] : n \in Ids}) < MaxTaints
      /\ taint_index' = [taint_index EXCEPT ![id] = @ \cup {taint}]
      /\ UNCHANGED <<live, issued, lost, graph, lineage>>

Lists(S) == UNION {[1..n -> S] : n \in 0..MaxParts}

FNext ==
  \/ \E quantity \in Quantities : Issue(quantity)
  \/ \E parent \in Candidates, carves \in Lists(Quantities) :
       SplitOff(parent, carves)
  \/ \E inputs \in Lists([input : Candidates, quantity : Quantities]),
        output \in Quantities : CombineInto(output, inputs)
  \/ \E id \in DOMAIN live, kind \in Kinds : Taint(id, kind)

FSpec == FInit /\ [][FNext]_fvars

-----------------------------------------------------------------------------
(* Properties.                                                             *)

FTypeOK ==
  /\ DOMAIN live = 0 .. next - 1 /\ DOMAIN lineage = DOMAIN live
  /\ \A id \in DOMAIN live : live[id] \in [amount : Int, dim : Dimensions]
  /\ \A id \in DOMAIN lineage : lineage[id] \subseteq DOMAIN live
  /\ issued \in [Dimensions -> Nat] /\ lost \in [Dimensions -> Nat]
  /\ graph \in [inputs_of : [Ids -> SUBSET Ids], outputs_of : [Ids -> SUBSET Ids]]
  /\ taint_index \in [Ids -> SUBSET [source : Ids, kind : Kinds]]

HeldIn(dim) ==
  SumFunction([id \in DOMAIN live |->
                 IF live[id].dim = dim THEN live[id].amount ELSE 0])

\* Through any chain of splits and combines nothing appears and nothing
\* vanishes unaccounted: what was issued is what passports hold plus the losses
\* booked by combines (the chain test's invariant).
Conservation == \A d \in Dimensions : issued[d] = HeldIn(d) + lost[d]

\* No passport ever gives more than it holds: "Checks per-input availability"
\* (combine.rs:66), "sum(children) <= parent" (split.rs:5).
NothingOverdrawn == \A id \in DOMAIN live : live[id].amount >= 0

\* The routing set of a recall on a passport is exactly the passports its
\* material went into, over any number of splits and combines.
RecallExact ==
  \A root \in DOMAIN live :
    recall_set(graph, root) = {id \in DOMAIN live : root \in lineage[id]}

\* A taint shows on a passport exactly when a recall on the taint's source
\* reaches that passport: the walk up and the walk down agree, whether the
\* taint was raised before or after the material moved on.
TaintsMatchRecall ==
  \A id \in DOMAIN live : \A n \in DOMAIN live : \A t \in taint_index[n] :
    t \in taints_of(graph, id, taint_index) <=> id \in recall_set(graph, n)

=============================================================================
