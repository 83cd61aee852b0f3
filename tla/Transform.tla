------------------------------ MODULE Transform ------------------------------
(***************************************************************************)
(* The functions of the transform crate: split, combine, the provenance    *)
(* graph and the taints read off it.                                       *)
(*                                                                         *)
(* A quantity is [amount, dim], the amount being an integer number of the  *)
(* canonical unit of its dimension: conversions between units of one       *)
(* dimension are exact rational factors, and an inexact one is an error,   *)
(* so no amount changes by being written in another unit.  Every error of  *)
(* a function is the one value Refused.                                    *)
(***************************************************************************)
EXTENDS Integers, Sequences, FiniteSetsExt

CONSTANT Refused   \* the Err of split and combine

TotalOf(quantities) ==
  SumFunction([i \in DOMAIN quantities |-> quantities[i].amount])

-----------------------------------------------------------------------------
(* Split and combine.                                                      *)

\* A deviation: the last carve-out is left out of the total.
split_misses_last(available, carves) ==
  LET total == TotalOf(SubSeq(carves, 1, Len(carves) - 1))
  IN  IF /\ \A i \in DOMAIN carves :
              carves[i].amount >= 0 /\ carves[i].dim = available.dim
         /\ total <= available.amount
        THEN [remainder       |-> [available EXCEPT !.amount = @ - total],
              parent_consumed |-> total = available.amount]
        ELSE Refused

split(available, carves) ==
  LET total == TotalOf(carves)
  IN  IF /\ carves # << >>
         /\ \A i \in DOMAIN carves :
              carves[i].amount >= 0 /\ carves[i].dim = available.dim
         /\ total <= available.amount
        THEN [remainder       |-> [available EXCEPT !.amount = @ - total],
              parent_consumed |-> total = available.amount]
        ELSE Refused

\* The part of an input list that combine compares with the caller's view:
\* each reference by itself.
Covered(ref, available) ==
  /\ ref.input \in DOMAIN available
  /\ ref.quantity.amount <= available[ref.input].amount

Taken(inputs) == TotalOf([i \in DOMAIN inputs |-> inputs[i].quantity])

\* Deviations: the view is not consulted; the mass balance is not checked.
combine_unseen(output, inputs, available) ==
  IF /\ inputs # << >>
     /\ \A i \in DOMAIN inputs :
          inputs[i].quantity.amount >= 0 /\ inputs[i].quantity.dim = output.dim
     /\ output.amount <= Taken(inputs)
    THEN [loss |-> [output EXCEPT !.amount = Taken(inputs) - @]]
    ELSE Refused
combine_unbalanced(output, inputs, available) ==
  IF /\ inputs # << >>
     /\ \A i \in DOMAIN inputs :
          /\ inputs[i].quantity.amount >= 0 /\ inputs[i].quantity.dim = output.dim
          /\ Covered(inputs[i], available)
    THEN [loss |-> [output EXCEPT !.amount = Taken(inputs) - @]]
    ELSE Refused

combine(output, inputs, available) ==
  IF /\ inputs # << >>
     /\ \A i \in DOMAIN inputs :
          /\ inputs[i].quantity.amount >= 0
          /\ inputs[i].quantity.dim = output.dim
          /\ Covered(inputs[i], available)
     /\ output.amount <= Taken(inputs)
    THEN [loss |-> [output EXCEPT !.amount = Taken(inputs) - @]]
    ELSE Refused

-----------------------------------------------------------------------------
(* The provenance graph: both directions of every edge are kept.           *)

\* Every source gains every target as output, every target every source as
\* input.
Link(graph, sources, targets) ==
  [inputs_of  |-> [n \in DOMAIN graph.inputs_of |->
                     graph.inputs_of[n] \cup (IF n \in targets THEN sources ELSE {})],
   outputs_of |-> [n \in DOMAIN graph.outputs_of |->
                     graph.outputs_of[n] \cup (IF n \in sources THEN targets ELSE {})]]

record_split(graph, parent, children) == Link(graph, {parent}, children)

\* A deviation: the edge is kept in one direction only.
record_combine_one_way(graph, output, inputs) ==
  [Link(graph, inputs, {output}) EXCEPT !.outputs_of = graph.outputs_of]

record_combine(graph, output, inputs) == Link(graph, inputs, {output})

Closed(adjacency, S) == \A n \in S : adjacency[n] \subseteq S

\* A deviation: the worklist is not continued past the first neighbours.
walk_one_hop(adjacency, start) == adjacency[start]

\* What the worklist has seen when it runs empty: the least set that holds the
\* neighbours of the start and of its own members.
walk(adjacency, start) ==
  {n \in DOMAIN adjacency :
     \A S \in SUBSET DOMAIN adjacency :
       adjacency[start] \subseteq S /\ Closed(adjacency, S) => n \in S}

ancestors(graph, id)   == walk(graph.inputs_of, id)
descendants(graph, id) == walk(graph.outputs_of, id)
recall_set(graph, root) == descendants(graph, root) \cup {root}

taints_of(graph, id, index) ==
  UNION {index[s] : s \in ancestors(graph, id) \cup {id}}

=============================================================================
