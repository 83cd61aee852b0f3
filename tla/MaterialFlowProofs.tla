------------------------- MODULE MaterialFlowProofs -------------------------
(***************************************************************************)
(* What recalls and taints reach and what passports hold, for every number *)
(* of passports, amounts and dimensions and every chain of splits and      *)
(* combines.  Amounts play no part in the recalls: only which passports a  *)
(* step took from and which it made.                                       *)
(***************************************************************************)
EXTENDS MaterialFlow, InductionProofs

\* Passports are numbered in order, and edges and lineages stay among them.
ShapeOK ==
  /\ next \in Nat /\ next <= MaxPassports
  /\ DOMAIN live = 0 .. next - 1 /\ DOMAIN lineage = DOMAIN live
  /\ graph = [inputs_of |-> graph.inputs_of, outputs_of |-> graph.outputs_of]
  /\ graph.inputs_of \in [Ids -> SUBSET DOMAIN live]
  /\ graph.outputs_of \in [Ids -> SUBSET DOMAIN live]

\* A lineage holds the passport itself and the lineage of all its members.
LineageOK ==
  \A id \in DOMAIN live :
    /\ id \in lineage[id] /\ lineage[id] \subseteq DOMAIN live
    /\ \A a \in lineage[id] : lineage[a] \subseteq lineage[id]

\* Every edge leads from a member of a lineage.
EdgesSound ==
  /\ \A q \in Ids : \A p \in graph.outputs_of[q] : q \in lineage[p]
  /\ \A p \in Ids : \A q \in graph.inputs_of[p] :
       p \in DOMAIN live /\ q \in lineage[p]

\* A set that a walk down from root cannot leave holds what is made of root.
DownComplete ==
  \A S \in SUBSET Ids, root \in Ids :
    Closed(graph.outputs_of, S) /\ graph.outputs_of[root] \subseteq S =>
      \A p \in DOMAIN live : root \in lineage[p] /\ p # root => p \in S

\* A set that a walk up from p cannot leave holds what p is made of.
UpComplete ==
  \A S \in SUBSET Ids, p \in DOMAIN live :
    Closed(graph.inputs_of, S) /\ graph.inputs_of[p] \subseteq S =>
      \A q \in lineage[p] : q # p => q \in S

TaintsAtSource ==
  taint_index \in [Ids -> SUBSET [source : Ids, kind : Kinds]]
  /\ \A n \in Ids : \A t \in taint_index[n] : t.source = n

FInv ==
  /\ ShapeOK
  /\ LineageOK
  /\ EdgesSound
  /\ DownComplete
  /\ UpComplete
  /\ TaintsAtSource

-----------------------------------------------------------------------------
(* What the walks find.                                                    *)

LEMMA IssuedAreIds == ShapeOK => DOMAIN live \subseteq Ids /\ next \in Nat
  BY FlowConstantsOK DEF ShapeOK, Ids

LEMMA RecallFromInv == FInv => RecallExact
<1> SUFFICES ASSUME FInv, NEW root \in DOMAIN live
             PROVE  recall_set(graph, root) = {id \in DOMAIN live : root \in lineage[id]}
  BY DEF RecallExact
<1> DEFINE adj  == graph.outputs_of
           Made == {id \in DOMAIN live : root \in lineage[id]}
<1>1. root \in Ids /\ DOMAIN live \subseteq Ids
  BY IssuedAreIds DEF FInv
<1>2. DOMAIN adj = Ids /\ \A q \in Ids : adj[q] \subseteq DOMAIN live
  BY DEF FInv, ShapeOK
<1>3. recall_set(graph, root) = {n \in Ids :
        \A S \in SUBSET Ids : adj[root] \subseteq S /\ Closed(adj, S) => n \in S} \cup {root}
  BY <1>2, Zenon DEF recall_set, descendants, walk
<1>4. root \in Made
  BY DEF FInv, LineageOK
<1>5. adj[root] \subseteq Made
  BY <1>1, <1>2 DEF FInv, EdgesSound
<1>6. Closed(adj, Made)
  <2> SUFFICES ASSUME NEW q \in Made, NEW p \in adj[q] PROVE p \in Made
    BY DEF Closed
  <2>1. q \in Ids /\ p \in DOMAIN live
    BY <1>1, <1>2
  <2>2. q \in lineage[p] /\ root \in lineage[q]
    BY <2>1 DEF FInv, EdgesSound
  <2> QED BY <2>1, <2>2 DEF FInv, LineageOK
<1>7. \A p \in Made : p # root => \A S \in SUBSET Ids :
        adj[root] \subseteq S /\ Closed(adj, S) => p \in S
  BY <1>1 DEF FInv, DownComplete
<1>8. Made \in SUBSET Ids
  BY <1>1
<1> HIDE DEF adj, Made
<1>9. recall_set(graph, root) = Made
  BY <1>1, <1>3, <1>4, <1>5, <1>6, <1>7, <1>8
<1> QED BY <1>9 DEF Made

LEMMA AncestorsFromInv ==
  ASSUME FInv, NEW id \in DOMAIN live
  PROVE  ancestors(graph, id) \cup {id} = lineage[id]
<1> DEFINE adj  == graph.inputs_of
           From == lineage[id]
<1>1. id \in Ids /\ DOMAIN live \subseteq Ids
  BY IssuedAreIds DEF FInv
<1>2. DOMAIN adj = Ids /\ \A p \in Ids : adj[p] \subseteq DOMAIN live
  BY DEF FInv, ShapeOK
<1>3. ancestors(graph, id) = {n \in Ids :
        \A S \in SUBSET Ids : adj[id] \subseteq S /\ Closed(adj, S) => n \in S}
  BY <1>2, Zenon DEF ancestors, walk
<1>4. id \in From /\ From \subseteq DOMAIN live
  BY DEF FInv, LineageOK
<1>5. adj[id] \subseteq From
  BY <1>1, <1>2 DEF FInv, EdgesSound
<1>6. Closed(adj, From)
  <2> SUFFICES ASSUME NEW p \in From, NEW q \in adj[p] PROVE q \in From
    BY DEF Closed
  <2>1. p \in Ids /\ q \in DOMAIN live
    BY <1>1, <1>2, <1>4
  <2>2. q \in lineage[p]
    BY <2>1 DEF FInv, EdgesSound
  <2> QED BY <2>2 DEF FInv, LineageOK
<1>7. \A q \in From : q # id => \A S \in SUBSET Ids :
        adj[id] \subseteq S /\ Closed(adj, S) => q \in S
  BY DEF FInv, UpComplete
<1>8. From \in SUBSET Ids
  BY <1>1, <1>4
<1> HIDE DEF adj, From
<1>9. ancestors(graph, id) \cup {id} = From
  BY <1>1, <1>3, <1>4, <1>5, <1>6, <1>7, <1>8
<1> QED BY <1>9 DEF From

LEMMA TaintsFromInv == FInv => TaintsMatchRecall
<1> SUFFICES ASSUME FInv, NEW id \in DOMAIN live, NEW n \in DOMAIN live,
                    NEW t \in taint_index[n]
             PROVE  t \in taints_of(graph, id, taint_index)
                      <=> id \in recall_set(graph, n)
  BY DEF TaintsMatchRecall
<1>1. n \in Ids /\ id \in Ids /\ lineage[id] \subseteq Ids
  BY IssuedAreIds DEF FInv, LineageOK
<1>2. taints_of(graph, id, taint_index) = UNION {taint_index[s] : s \in lineage[id]}
  BY AncestorsFromInv DEF taints_of
<1>3. \A s \in lineage[id] : t \in taint_index[s] <=> s = n
  BY <1>1 DEF FInv, TaintsAtSource
<1>4. t \in taints_of(graph, id, taint_index) <=> n \in lineage[id]
  BY <1>2, <1>3
<1>5. id \in recall_set(graph, n) <=> n \in lineage[id]
  BY RecallFromInv DEF RecallExact
<1> QED BY <1>4, <1>5

-----------------------------------------------------------------------------
(* A step makes passports targets of passports sources.                    *)

LEMMA GrowStep ==
  ASSUME ShapeOK, LineageOK, EdgesSound, DownComplete, UpComplete,
         NEW m \in Nat, next <= m, m <= MaxPassports,
         NEW sources \in SUBSET DOMAIN live, NEW targets, targets = next .. m - 1,
         DOMAIN live' = 0 .. m - 1,
         lineage' = [id \in 0 .. m - 1 |->
                       IF id \in targets THEN {id} \cup UNION {lineage[s] : s \in sources}
                                         ELSE lineage[id]],
         graph' = Link(graph, sources, targets)
  PROVE  ShapeOK' /\ LineageOK' /\ EdgesSound' /\ DownComplete' /\ UpComplete'
<1> DEFINE old == DOMAIN live
           new == DOMAIN live'
           ins == graph.inputs_of
           outs == graph.outputs_of
<1>1. /\ next \in Nat /\ old = 0 .. next - 1 /\ DOMAIN lineage = old
      /\ ins \in [Ids -> SUBSET old] /\ outs \in [Ids -> SUBSET old]
      /\ old \subseteq Ids /\ new \subseteq Ids
  BY IssuedAreIds, FlowConstantsOK DEF ShapeOK, Ids
<1>2. /\ new = old \cup targets
      /\ \A t \in targets : t \notin old
      /\ targets \subseteq new /\ sources \subseteq old
  BY <1>1
<1>3. DOMAIN lineage' = new
  OBVIOUS
<1>4. \A t \in targets : lineage'[t] = {t} \cup UNION {lineage[s] : s \in sources}
  BY <1>2
<1>5. \A id \in old : lineage'[id] = lineage[id]
  BY <1>2
<1>6. /\ graph' = [inputs_of |-> graph'.inputs_of, outputs_of |-> graph'.outputs_of]
      /\ graph'.inputs_of = [n \in Ids |-> ins[n] \cup (IF n \in targets THEN sources ELSE {})]
      /\ graph'.outputs_of = [n \in Ids |-> outs[n] \cup (IF n \in sources THEN targets ELSE {})]
  <2>1. DOMAIN ins = Ids /\ DOMAIN outs = Ids
    BY <1>1
  <2> QED BY <2>1 DEF Link
<1>7. next' = m
  <2>1. Cardinality(0 .. m - 1) = m
    BY FS_Interval
  <2> QED BY <2>1 DEF next
<1> HIDE DEF old, new, ins, outs
<1>8. ShapeOK'
  <2>1. graph'.inputs_of \in [Ids -> SUBSET new]
    BY <1>1, <1>2, <1>6
  <2>2. graph'.outputs_of \in [Ids -> SUBSET new]
    BY <1>1, <1>2, <1>6
  <2> QED BY <1>3, <1>6, <1>7, <2>1, <2>2 DEF ShapeOK, new
\* The old lineages, by name.
<1>9. \A id \in old : /\ id \in lineage[id] /\ lineage[id] \subseteq old
                      /\ \A a \in lineage[id] : lineage[a] \subseteq lineage[id]
  BY DEF LineageOK, old
<1>10. LineageOK'
  <2> SUFFICES ASSUME NEW id \in new
               PROVE  /\ id \in lineage'[id] /\ lineage'[id] \subseteq new
                      /\ \A a \in lineage'[id] : lineage'[a] \subseteq lineage'[id]
    BY DEF LineageOK, new
  <2>1. CASE id \in old
    BY <2>1, <1>2, <1>5, <1>9
  <2>2. CASE id \in targets
    <3>1. lineage'[id] = {id} \cup UNION {lineage[s] : s \in sources}
      BY <2>2, <1>4
    <3>2. lineage'[id] \subseteq new
      BY <3>1, <1>2, <1>9
    <3>3. ASSUME NEW a \in lineage'[id], a # id
          PROVE  lineage'[a] \subseteq lineage'[id]
      <4>1. PICK s \in sources : a \in lineage[s]
        BY <3>1, <3>3
      <4>2. a \in old /\ lineage[a] \subseteq lineage[s]
        BY <4>1, <1>2, <1>9
      <4> QED BY <4>2, <3>1, <1>5
    <3> QED BY <3>1, <3>2, <3>3
  <2> QED BY <2>1, <2>2, <1>2
<1>11. EdgesSound'
  <2>1. ASSUME NEW q \in Ids, NEW p \in graph'.outputs_of[q]
        PROVE  q \in lineage'[p]
    <3>1. CASE p \in outs[q]
      <4>1. p \in old /\ q \in lineage[p]
        BY <3>1, <1>1 DEF EdgesSound, outs
      <4> QED BY <4>1, <1>5
    <3>2. CASE q \in sources /\ p \in targets
      <4>1. q \in lineage[q]
        BY <3>2, <1>2, <1>9
      <4> QED BY <3>2, <4>1, <1>4
    <3> QED BY <3>1, <3>2, <1>6
  <2>2. ASSUME NEW p \in Ids, NEW q \in graph'.inputs_of[p]
        PROVE  p \in new /\ q \in lineage'[p]
    <3>1. CASE q \in ins[p]
      <4>1. p \in old /\ q \in lineage[p]
        BY <3>1 DEF EdgesSound, ins, old
      <4> QED BY <4>1, <1>2, <1>5
    <3>2. CASE p \in targets /\ q \in sources
      <4>1. q \in lineage[q]
        BY <3>2, <1>2, <1>9
      <4> QED BY <3>2, <4>1, <1>2, <1>4
    <3> QED BY <3>1, <3>2, <1>6
  <2> QED BY <2>1, <2>2 DEF EdgesSound, new
<1>12. DownComplete'
  <2> SUFFICES ASSUME NEW S \in SUBSET Ids, NEW root \in Ids,
                      Closed(graph'.outputs_of, S), graph'.outputs_of[root] \subseteq S,
                      NEW p \in new, root \in lineage'[p], p # root
               PROVE  p \in S
    BY DEF DownComplete, new
  <2>1. /\ \A n \in S : graph'.outputs_of[n] \subseteq S
        /\ \A n \in Ids : outs[n] \subseteq graph'.outputs_of[n]
        /\ \A n \in sources : targets \subseteq graph'.outputs_of[n]
    BY <1>1, <1>2, <1>6 DEF Closed
  <2>2. Closed(outs, S) /\ outs[root] \subseteq S
    BY <2>1 DEF Closed
  <2>3. \A x \in old : root \in lineage[x] /\ x # root => x \in S
    BY <2>2 DEF DownComplete, outs, old
  <2>4. CASE p \in old
    BY <2>3, <2>4, <1>5
  <2>5. CASE p \in targets
    <3>1. PICK s \in sources : root \in lineage[s]
      BY <2>5, <1>4
    <3>2. s = root \/ s \in S
      BY <3>1, <2>3, <1>2
    <3>3. targets \subseteq S
      BY <3>2, <2>1, <1>1, <1>2
    <3> QED BY <3>3, <2>5
  <2> QED BY <2>4, <2>5, <1>2
<1>13. UpComplete'
  <2> SUFFICES ASSUME NEW S \in SUBSET Ids, NEW p \in new,
                      Closed(graph'.inputs_of, S), graph'.inputs_of[p] \subseteq S,
                      NEW q \in lineage'[p], q # p
               PROVE  q \in S
    BY DEF UpComplete, new
  <2>1. /\ \A n \in S : graph'.inputs_of[n] \subseteq S
        /\ \A n \in Ids : ins[n] \subseteq graph'.inputs_of[n]
        /\ \A n \in targets : sources \subseteq graph'.inputs_of[n]
    BY <1>1, <1>2, <1>6 DEF Closed
  <2>2. Closed(ins, S)
    BY <2>1 DEF Closed
  <2>3. \A x \in old : ins[x] \subseteq S => \A y \in lineage[x] : y # x => y \in S
    BY <2>2 DEF UpComplete, ins, old
  <2>4. CASE p \in old
    BY <2>1, <2>3, <2>4, <1>1, <1>5
  <2>5. CASE p \in targets
    <3>1. PICK s \in sources : q \in lineage[s]
      BY <2>5, <1>4
    <3>2. s \in S
      BY <2>1, <2>5
    <3>3. ins[s] \subseteq S
      BY <2>2, <3>2 DEF Closed
    <3> QED BY <3>1, <3>2, <3>3, <2>3, <1>2
  <2> QED BY <2>4, <2>5, <1>2
<1> QED BY <1>8, <1>10, <1>11, <1>12, <1>13

-----------------------------------------------------------------------------
(* The invariant.                                                          *)

LEMMA FInvInit == FInit => FInv
<1> SUFFICES ASSUME FInit PROVE FInv
  OBVIOUS
<1>1. live = << >> /\ lineage = << >> /\ DOMAIN live = {} /\ DOMAIN lineage = {}
  BY DEF FInit
<1>2. next = 0
  BY <1>1, FS_EmptySet DEF next
<1>3. ShapeOK
  BY <1>1, <1>2, FlowConstantsOK DEF ShapeOK, FInit
<1>4. LineageOK /\ EdgesSound /\ DownComplete /\ UpComplete
  BY <1>1 DEF LineageOK, EdgesSound, DownComplete, UpComplete, FInit
<1>5. TaintsAtSource
  BY DEF TaintsAtSource, FInit
<1> QED BY <1>3, <1>4, <1>5 DEF FInv

LEMMA IssueStep ==
  ASSUME FInv, NEW quantity \in Quantities, Issue(quantity)
  PROVE  FInv'
<1>1. next \in Nat /\ next < MaxPassports /\ MaxPassports \in Nat
  BY FlowConstantsOK DEF FInv, ShapeOK, Issue
<1> DEFINE m == next + 1
<1>2. /\ m \in Nat /\ next <= m /\ m <= MaxPassports
      /\ next .. m - 1 = {next} /\ 0 .. m - 1 = 0 .. next
  BY <1>1
<1>3. lineage' = [id \in 0 .. m - 1 |->
                    IF id \in {next} THEN {id} \cup UNION {lineage[s] : s \in {}}
                                     ELSE lineage[id]]
  BY <1>2 DEF Issue
<1>4. DOMAIN live' = 0 .. m - 1
  BY <1>2 DEF Issue
<1>5. graph' = Link(graph, {}, {next})
  <2>1. DOMAIN graph.inputs_of = Ids /\ DOMAIN graph.outputs_of = Ids
    BY DEF FInv, ShapeOK
  <2>2. graph.inputs_of = [n \in DOMAIN graph.inputs_of |->
          graph.inputs_of[n] \cup (IF n \in {next} THEN {} ELSE {})]
    BY <2>1 DEF FInv, ShapeOK
  <2>3. graph.outputs_of = [n \in DOMAIN graph.outputs_of |->
          graph.outputs_of[n] \cup (IF n \in {} THEN {next} ELSE {})]
    BY <2>1 DEF FInv, ShapeOK
  <2>4. graph' = [inputs_of |-> graph.inputs_of, outputs_of |-> graph.outputs_of]
    BY DEF FInv, ShapeOK, Issue
  <2> QED BY <2>2, <2>3, <2>4, Zenon DEF Link
<1>6. TaintsAtSource'
  BY DEF FInv, TaintsAtSource, Issue
<1> HIDE DEF m
<1>7. ShapeOK' /\ LineageOK' /\ EdgesSound' /\ DownComplete' /\ UpComplete'
  BY <1>2, <1>3, <1>4, <1>5, GrowStep DEF FInv
<1> QED BY <1>6, <1>7 DEF FInv

LEMMA SplitStep ==
  ASSUME FInv, NEW parent \in Candidates, NEW carves, Len(carves) \in Nat,
         SplitOff(parent, carves)
  PROVE  FInv'
<1> DEFINE last     == next + Len(carves) - 1
           children == next .. last
           m        == next + Len(carves)
<1>1. next \in Nat /\ last < MaxPassports /\ MaxPassports \in Nat /\ parent \in DOMAIN live
  BY FlowConstantsOK DEF FInv, ShapeOK, SplitOff, Candidates
<1>2. /\ m \in Nat /\ next <= m /\ m <= MaxPassports
      /\ children = next .. m - 1 /\ 0 .. m - 1 = 0 .. last
  BY <1>1
<1>3. lineage' = [id \in 0 .. last |-> IF id \in children THEN lineage[parent] \cup {id}
                                                          ELSE lineage[id]]
  BY DEF SplitOff
<1>4. DOMAIN live' = 0 .. last
  BY DEF SplitOff
<1>5. graph' = Link(graph, {parent}, children)
  BY DEF SplitOff, record_split
<1>6. TaintsAtSource'
  BY DEF FInv, TaintsAtSource, SplitOff
<1> HIDE DEF m, last, children
<1>7. lineage' = [id \in 0 .. m - 1 |->
                    IF id \in children THEN {id} \cup UNION {lineage[s] : s \in {parent}}
                                       ELSE lineage[id]]
  BY <1>2, <1>3
<1>8. ShapeOK' /\ LineageOK' /\ EdgesSound' /\ DownComplete' /\ UpComplete'
  BY <1>1, <1>2, <1>4, <1>5, <1>7, GrowStep DEF FInv
<1> QED BY <1>6, <1>8 DEF FInv

LEMMA CombineStep ==
  ASSUME FInv, NEW output, NEW inputs,
         \A i \in DOMAIN inputs : inputs[i].input \in Candidates,
         CombineInto(output, inputs)
  PROVE  FInv'
<1> DEFINE used == {inputs[i].input : i \in DOMAIN inputs}
           m    == next + 1
<1>1. next \in Nat /\ next < MaxPassports /\ MaxPassports \in Nat
  BY FlowConstantsOK DEF FInv, ShapeOK, CombineInto
<1>2. /\ m \in Nat /\ next <= m /\ m <= MaxPassports
      /\ next .. m - 1 = {next} /\ 0 .. m - 1 = 0 .. next
  BY <1>1
<1>3. lineage' = [id \in 0 .. next |->
                    IF id = next THEN {id} \cup UNION {lineage[s] : s \in used}
                                 ELSE lineage[id]]
  BY DEF CombineInto
<1>4. DOMAIN live' = 0 .. m - 1
  BY <1>2 DEF CombineInto
<1>5. graph' = Link(graph, used, {next})
  BY DEF CombineInto, record_combine
<1>6. TaintsAtSource'
  BY DEF FInv, TaintsAtSource, CombineInto
<1>7. used \in SUBSET DOMAIN live
  BY DEF Candidates
<1> HIDE DEF m, used
<1>8. lineage' = [id \in 0 .. m - 1 |->
                    IF id \in {next} THEN {id} \cup UNION {lineage[s] : s \in used}
                                     ELSE lineage[id]]
  BY <1>2, <1>3
<1>9. ShapeOK' /\ LineageOK' /\ EdgesSound' /\ DownComplete' /\ UpComplete'
  BY <1>2, <1>4, <1>5, <1>7, <1>8, GrowStep DEF FInv
<1> QED BY <1>6, <1>9 DEF FInv

LEMMA FInvStep == FInv /\ [FNext]_fvars => FInv'
<1> SUFFICES ASSUME FInv, [FNext]_fvars PROVE FInv'
  OBVIOUS
<1>1. ASSUME NEW quantity \in Quantities, Issue(quantity) PROVE FInv'
  BY <1>1, IssueStep
<1>2. ASSUME NEW parent \in Candidates, NEW carves \in Lists(Quantities),
             SplitOff(parent, carves)
      PROVE  FInv'
  <2>1. Len(carves) \in Nat
    <3>1. PICK n \in 0..MaxParts : carves \in [1..n -> Quantities]
      BY DEF Lists
    <3> QED BY <3>1, FlowConstantsOK
  <2> QED BY <1>2, <2>1, SplitStep
<1>3. ASSUME NEW inputs \in Lists([input : Candidates, quantity : Quantities]),
             NEW output \in Quantities, CombineInto(output, inputs)
      PROVE  FInv'
  <2>1. \A i \in DOMAIN inputs : inputs[i].input \in Candidates
    BY DEF Lists
  <2> QED BY <1>3, <2>1, CombineStep
<1>4. ASSUME NEW id \in DOMAIN live, NEW kind \in Kinds, Taint(id, kind)
      PROVE  FInv'
  <2>1. id \in Ids
    BY IssuedAreIds DEF FInv
  <2>2. TaintsAtSource'
    BY <1>4, <2>1 DEF FInv, TaintsAtSource, Taint
  <2>3. UNCHANGED <<live, graph, lineage>>
    BY <1>4 DEF Taint
  <2>4. ShapeOK' /\ LineageOK' /\ EdgesSound' /\ DownComplete' /\ UpComplete'
    BY <2>3 DEF FInv, ShapeOK, LineageOK, EdgesSound, DownComplete, UpComplete, next
  <2> QED BY <2>2, <2>4 DEF FInv
<1>5. CASE UNCHANGED fvars
  <2>1. UNCHANGED <<live, graph, lineage, taint_index>>
    BY <1>5 DEF fvars
  <2> QED BY <2>1 DEF FInv, ShapeOK, LineageOK, EdgesSound, DownComplete, UpComplete,
                      TaintsAtSource, next
<1> QED BY <1>1, <1>2, <1>3, <1>4, <1>5 DEF FNext

LEMMA FInvariance == FSpec => []FInv
  BY FInvInit, FInvStep, PTL DEF FSpec

-----------------------------------------------------------------------------
(* Amounts.                                                                *)

AmountsOK ==
  /\ \A id \in DOMAIN live : live[id] \in [amount : Int, dim : Dimensions]
  /\ issued \in [Dimensions -> Nat] /\ lost \in [Dimensions -> Nat]

\* What callers that list inputs carefully can rely on comes with the types.
MInv == /\ FInv
        /\ AmountsOK
        /\ Careful => NothingOverdrawn /\ Conservation

\* What each passport of a holding adds to a dimension.
Share(l, d) == [id \in DOMAIN l |-> IF l[id].dim = d THEN l[id].amount ELSE 0]

LEMMA HeldIsSum ==
  ASSUME NEW d
  PROVE  /\ HeldIn(d) = SumFunctionOnSet(Share(live, d), DOMAIN live)
         /\ HeldIn(d)' = SumFunctionOnSet(Share(live', d), DOMAIN live')
  BY Zenon DEF HeldIn, SumFunction, Share

LEMMA TotalIsSum ==
  ASSUME NEW qs, IsFiniteSet(DOMAIN qs), \A i \in DOMAIN qs : qs[i].amount \in Int
  PROVE  /\ TotalOf(qs) = SumFunctionOnSet([i \in DOMAIN qs |-> qs[i].amount], DOMAIN qs)
         /\ TotalOf(qs) \in Int
<1> DEFINE c == [i \in DOMAIN qs |-> qs[i].amount]
<1>1. DOMAIN c = DOMAIN qs /\ \A i \in DOMAIN qs : c[i] \in Int
  OBVIOUS
<1>2. TotalOf(qs) = SumFunctionOnSet(c, DOMAIN qs)
  BY <1>1, Zenon DEF TotalOf, SumFunction
<1> HIDE DEF c
<1>3. TotalOf(qs) \in Int
  BY <1>1, <1>2, SumIsInt
<1> QED BY <1>2, <1>3 DEF c

\* What a list takes from a passport it does not name, or names once.
LEMMA TakenIsSum ==
  ASSUME NEW inputs, IsFiniteSet(DOMAIN inputs),
         \A i \in DOMAIN inputs : inputs[i].quantity.amount \in Int,
         NEW id
  PROVE  /\ TakenFrom(id, inputs) \in Int
         /\ TakenFrom(id, inputs) =
              SumFunctionOnSet([i \in DOMAIN inputs |->
                IF inputs[i].input = id THEN inputs[i].quantity.amount ELSE 0], DOMAIN inputs)
         /\ (\A i \in DOMAIN inputs : inputs[i].input # id) => TakenFrom(id, inputs) = 0
         /\ \A i \in DOMAIN inputs :
              /\ inputs[i].input = id
              /\ \A j \in DOMAIN inputs : inputs[j].input = inputs[i].input => j = i
              => TakenFrom(id, inputs) = inputs[i].quantity.amount
<1> DEFINE I == DOMAIN inputs
           t == [i \in I |-> IF inputs[i].input = id THEN inputs[i].quantity.amount ELSE 0]
<1>1. DOMAIN t = I /\ \A i \in I : t[i] \in Int
  OBVIOUS
<1>2. TakenFrom(id, inputs) = SumFunctionOnSet(t, I)
  BY <1>1, Zenon DEF TakenFrom, SumFunction
<1>3. \A i \in I : /\ inputs[i].input # id => t[i] = 0
                   /\ inputs[i].input = id => t[i] = inputs[i].quantity.amount
  OBVIOUS
<1> HIDE DEF t
<1>4. TakenFrom(id, inputs) \in Int
  BY <1>1, <1>2, SumIsInt
<1>5. (\A i \in I : inputs[i].input # id) => TakenFrom(id, inputs) = 0
  BY <1>2, <1>3, SumZero
<1>6. ASSUME NEW i \in I, inputs[i].input = id,
             \A j \in I : inputs[j].input = inputs[i].input => j = i
      PROVE  TakenFrom(id, inputs) = inputs[i].quantity.amount
  <2>1. \A j \in I : j # i => t[j] = 0
    BY <1>3, <1>6
  <2>2. t[i] = inputs[i].quantity.amount
    BY <1>3, <1>6
  <2> QED BY <1>1, <1>2, <2>1, <2>2, SumOne
<1> QED BY <1>2, <1>4, <1>5, <1>6 DEF t

\* All that a list takes, passport by passport.
LEMMA TakenByPassport ==
  ASSUME NEW inputs, IsFiniteSet(DOMAIN inputs),
         \A i \in DOMAIN inputs : inputs[i].quantity.amount \in Int,
         NEW A, IsFiniteSet(A), \A i \in DOMAIN inputs : inputs[i].input \in A
  PROVE  /\ Taken(inputs) \in Int
         /\ SumFunctionOnSet([id \in A |-> TakenFrom(id, inputs)], A) = Taken(inputs)
<1> DEFINE I == DOMAIN inputs
           k == [i \in I |-> inputs[i].input]
           a == [i \in I |-> inputs[i].quantity.amount]
           qs == [i \in I |-> inputs[i].quantity]
<1>1. DOMAIN qs = I /\ \A i \in I : qs[i].amount = a[i] /\ qs[i].amount \in Int
  OBVIOUS
<1>2. a = [i \in DOMAIN qs |-> qs[i].amount]
  BY <1>1
<1>3. Taken(inputs) = TotalOf(qs)
  BY Zenon DEF Taken
<1>4. Taken(inputs) = SumFunctionOnSet(a, I) /\ Taken(inputs) \in Int
  <2> HIDE DEF qs, a
  <2> QED BY <1>1, <1>2, <1>3, TotalIsSum
<1>5. SumFunctionOnSet([id \in A |->
        SumFunctionOnSet([i \in I |-> IF k[i] = id THEN a[i] ELSE 0], I)], A)
          = SumFunctionOnSet(a, I)
  <2>1. \A i \in I : k[i] \in A /\ a[i] \in Int
    OBVIOUS
  <2> HIDE DEF k, a
  <2> QED BY <2>1, SumByTarget
<1>6. ASSUME NEW id \in A
      PROVE  SumFunctionOnSet([i \in I |-> IF k[i] = id THEN a[i] ELSE 0], I)
               = TakenFrom(id, inputs)
  <2>1. [i \in I |-> IF k[i] = id THEN a[i] ELSE 0]
          = [i \in I |-> IF inputs[i].input = id THEN inputs[i].quantity.amount ELSE 0]
    OBVIOUS
  <2> QED BY <2>1, TakenIsSum
<1>7. [id \in A |-> SumFunctionOnSet([i \in I |-> IF k[i] = id THEN a[i] ELSE 0], I)]
        = [id \in A |-> TakenFrom(id, inputs)]
  <2> HIDE DEF k, a
  <2> QED BY <1>6
<1> QED BY <1>4, <1>5, <1>7

LEMMA IdsFinite == ShapeOK => IsFiniteSet(DOMAIN live)
<1>1. ShapeOK => next - 1 \in Int /\ DOMAIN live = 0 .. next - 1
  BY DEF ShapeOK
<1> QED BY <1>1, FS_Interval

LEMMA QuantityTyped ==
  ASSUME NEW q \in Quantities
  PROVE  /\ q \in [amount : Int, dim : Dimensions]
         /\ q.amount \in Int /\ q.dim \in Dimensions
<1>1. q.amount \in Amounts /\ q.dim \in Dimensions
  BY DEF Quantities
<1>2. q.amount \in Int
  BY <1>1, FlowConstantsOK
<1>3. q = [amount |-> q.amount, dim |-> q.dim]
  BY DEF Quantities
<1> QED BY <1>1, <1>2, <1>3

\* What a passport holds after giving some of it away.
LEMMA LessOf ==
  ASSUME NEW q \in [amount : Int, dim : Dimensions], NEW x \in Int,
         NEW r, r = [q EXCEPT !.amount = @ - x]
  PROVE  /\ r \in [amount : Int, dim : Dimensions]
         /\ r.amount = q.amount - x /\ r.dim = q.dim
<1>1. q = [amount |-> q.amount, dim |-> q.dim] /\ q.amount - x \in Int
  OBVIOUS
<1>2. r = [amount |-> q.amount - x, dim |-> q.dim]
  BY <1>1
<1> QED BY <1>1, <1>2

-----------------------------------------------------------------------------
(* The amounts of a step.                                                  *)

LEMMA IssueAmounts ==
  ASSUME MInv, NEW quantity \in Quantities, Issue(quantity)
  PROVE  AmountsOK' /\ (Careful => NothingOverdrawn' /\ Conservation')
<1> DEFINE old == DOMAIN live
<1>1. /\ next \in Nat /\ old = 0 .. next - 1 /\ IsFiniteSet(old)
      /\ 0 .. next = old \cup {next} /\ next \notin old
  BY IdsFinite DEF MInv, FInv, ShapeOK
<1>2. /\ DOMAIN live' = 0 .. next
      /\ \A id \in old : live'[id] = live[id]
      /\ live'[next] = quantity
  BY <1>1 DEF Issue
<1>3. /\ quantity \in [amount : Int, dim : Dimensions]
      /\ quantity.amount \in Nat /\ quantity.dim \in Dimensions /\ quantity.amount > 0
  <2>1. quantity.amount > 0
    BY DEF Issue
  <2> QED BY <2>1, QuantityTyped
<1>4. issued' = [issued EXCEPT ![quantity.dim] = @ + quantity.amount] /\ lost' = lost
  BY DEF Issue
<1>5. /\ \A id \in old : live[id] \in [amount : Int, dim : Dimensions]
      /\ issued \in [Dimensions -> Nat] /\ lost \in [Dimensions -> Nat]
  BY DEF MInv, AmountsOK
<1>6. AmountsOK'
  <2>1. issued' \in [Dimensions -> Nat]
    BY <1>3, <1>4, <1>5
  <2>2. \A id \in DOMAIN live' : live'[id] \in [amount : Int, dim : Dimensions]
    BY <1>1, <1>2, <1>3, <1>5
  <2> QED BY <2>1, <2>2, <1>4, <1>5 DEF AmountsOK
<1>7. ASSUME Careful PROVE NothingOverdrawn'
  BY <1>7, <1>1, <1>2, <1>3 DEF MInv, NothingOverdrawn
<1>8. ASSUME Careful, NEW d \in Dimensions
      PROVE  issued'[d] = HeldIn(d)' + lost'[d]
  <2> DEFINE f == Share(live, d)
             g == Share(live', d)
  <2>1. \A id \in old : f[id] \in Int /\ g[id] = f[id]
    BY <1>1, <1>2, <1>5 DEF Share
  <2>2. g[next] = IF quantity.dim = d THEN quantity.amount ELSE 0
    BY <1>1, <1>2 DEF Share
  <2>3. g[next] \in Int
    BY <2>2, <1>3
  <2> HIDE DEF f, g
  <2>4. SumFunctionOnSet(g, old \cup {next}) = g[next] + SumFunctionOnSet(g, old)
    BY <1>1, <2>1, <2>3, SumAdd
  <2>5. SumFunctionOnSet(f, old) = SumFunctionOnSet(g, old)
    BY <1>1, <2>1, SumEqual
  <2>6. SumFunctionOnSet(f, old) \in Int
    BY <1>1, <2>1, SumIsInt
  <2>7. HeldIn(d)' = g[next] + HeldIn(d) /\ HeldIn(d) \in Int
    BY <1>1, <1>2, <2>4, <2>5, <2>6, HeldIsSum DEF f, g
  <2>8. issued[d] = HeldIn(d) + lost[d]
    BY <1>8 DEF MInv, Conservation
  <2>9. issued'[d] = issued[d] + g[next] /\ lost'[d] = lost[d]
    BY <1>3, <1>4, <1>5, <2>2
  <2> QED BY <2>3, <2>7, <2>8, <2>9, <1>5
<1> QED BY <1>6, <1>7, <1>8 DEF Conservation

LEMMA SplitAmounts ==
  ASSUME MInv, NEW parent \in Candidates, NEW carves \in Lists(Quantities),
         SplitOff(parent, carves)
  PROVE  AmountsOK' /\ (Careful => NothingOverdrawn' /\ Conservation')
<1> DEFINE old      == DOMAIN live
           last     == next + Len(carves) - 1
           children == next .. last
           total    == TotalOf(carves)
           pd       == live[parent].dim
<1>1. PICK n \in 0 .. MaxParts : carves \in [1..n -> Quantities]
  BY DEF Lists
<1>2. n \in Nat /\ Len(carves) = n /\ DOMAIN carves = 1..n /\ IsFiniteSet(1..n)
  BY <1>1, FlowConstantsOK, FS_Interval
<1>3. /\ next \in Nat /\ old = 0 .. next - 1 /\ IsFiniteSet(old)
      /\ 0 .. last = old \cup children /\ old \cap children = {}
      /\ IsFiniteSet(children) /\ parent \in old
  <2>1. next \in Nat /\ old = 0 .. next - 1 /\ parent \in old
    BY DEF MInv, FInv, ShapeOK, Candidates
  <2>2. IsFiniteSet(old)
    BY IdsFinite DEF MInv, FInv
  <2>3. last \in Int /\ IsFiniteSet(children)
    BY <1>2, <2>1, FS_Interval
  <2> QED BY <1>2, <2>1, <2>2, <2>3
<1>4. \A i \in 1..n : /\ carves[i] \in [amount : Int, dim : Dimensions]
                      /\ carves[i].amount \in Int
  BY <1>1, QuantityTyped
<1>5. /\ total = SumFunctionOnSet([i \in 1..n |-> carves[i].amount], 1..n)
      /\ total \in Int
  BY <1>2, <1>4, TotalIsSum
<1>6. /\ split(live[parent], carves) # Refused
      /\ DOMAIN live' = 0 .. last
      /\ live' = [id \in 0..last |->
                    CASE id \in children -> carves[id - next + 1]
                      [] id = parent     -> split(live[parent], carves).remainder
                      [] OTHER           -> live[id]]
      /\ issued' = issued /\ lost' = lost
  BY DEF SplitOff
<1>7. /\ \A i \in 1..n : carves[i].amount >= 0 /\ carves[i].dim = pd
      /\ total <= live[parent].amount
      /\ split(live[parent], carves).remainder = [live[parent] EXCEPT !.amount = @ - total]
  <2> DEFINE ok == /\ carves # << >>
                   /\ \A i \in DOMAIN carves : carves[i].amount >= 0 /\ carves[i].dim = pd
                   /\ total <= live[parent].amount
             res == [remainder       |-> [live[parent] EXCEPT !.amount = @ - total],
                     parent_consumed |-> total = live[parent].amount]
  <2>1. split(live[parent], carves) = IF ok THEN res ELSE Refused
    BY Zenon DEF split
  <2> HIDE DEF ok, res
  <2>2. ok /\ split(live[parent], carves) = res
    BY <2>1, <1>6
  <2> QED BY <2>2, <1>2 DEF ok, res
<1>8. /\ \A id \in old : live[id] \in [amount : Int, dim : Dimensions]
      /\ issued \in [Dimensions -> Nat] /\ lost \in [Dimensions -> Nat]
  BY DEF MInv, AmountsOK
<1>9. /\ live'[parent] \in [amount : Int, dim : Dimensions]
      /\ live'[parent].dim = pd /\ live'[parent].amount = live[parent].amount - total
  <2> HIDE DEF total
  <2>1. parent \in 0..last /\ parent \notin children
    BY <1>3
  <2>2. live'[parent] = [live[parent] EXCEPT !.amount = @ - total]
    BY <1>6, <1>7, <2>1
  <2> QED BY <2>2, <1>3, <1>5, <1>8, LessOf
<1>10. \A id \in old : id # parent => live'[id] = live[id]
  BY <1>3, <1>6
<1>11. \A i \in 1..n : next + i - 1 \in children /\ live'[next + i - 1] = carves[i]
  <2> TAKE i \in 1..n
  <2>1. next + i - 1 \in children /\ next + i - 1 \in 0..last /\ (next + i - 1) - next + 1 = i
    BY <1>2, <1>3
  <2>2. live'[next + i - 1] = carves[(next + i - 1) - next + 1]
    <3>1. next + i - 1 # parent
      BY <1>3, <2>1
    <3> DEFINE j == next + i - 1
               rest == split(live[parent], carves).remainder
    <3>2. live' = [id \in 0..last |->
                    CASE id \in children -> carves[id - next + 1]
                      [] id = parent     -> rest
                      [] OTHER           -> live[id]]
      BY <1>6
    <3> HIDE DEF j, rest, last, children
    <3>3. j \in 0..last /\ j \in children /\ j # parent
      BY <2>1, <3>1 DEF j
    <3>4. live'[j] = carves[j - next + 1]
      BY <3>2, <3>3
    <3> QED BY <3>4 DEF j
  <2> QED BY <2>1, <2>2
<1>12. children = {next + i - 1 : i \in 1..n}
  <2>1. ASSUME NEW c \in children PROVE \E i \in 1..n : c = next + i - 1
    <3>1. c - next + 1 \in 1..n /\ c = next + (c - next + 1) - 1
      BY <1>2, <1>3
    <3> QED BY <3>1
  <2> QED BY <2>1, <1>11
<1> HIDE DEF children, last, total, old
<1>13. AmountsOK'
  <2>1. \A id \in DOMAIN live' : live'[id] \in [amount : Int, dim : Dimensions]
    BY <1>3, <1>4, <1>6, <1>8, <1>9, <1>10, <1>11, <1>12
  <2> QED BY <2>1, <1>6, <1>8 DEF AmountsOK
<1>14. ASSUME Careful PROVE NothingOverdrawn'
  <2>1. \A id \in old : live[id].amount >= 0
    BY <1>14 DEF MInv, NothingOverdrawn, old
  <2>2. live'[parent].amount >= 0
    BY <1>3, <1>5, <1>7, <1>8, <1>9
  <2>3. \A id \in DOMAIN live' : live'[id].amount >= 0
    BY <2>1, <2>2, <1>3, <1>6, <1>7, <1>10, <1>11, <1>12
  <2> QED BY <2>3 DEF NothingOverdrawn
<1>15. ASSUME Careful, NEW d \in Dimensions
       PROVE  issued'[d] = HeldIn(d)' + lost'[d]
  <2> DEFINE f == Share(live, d)
             g == Share(live', d)
             k == [i \in 1..n |-> next + i - 1]
             c == [i \in 1..n |-> IF pd = d THEN carves[i].amount ELSE 0]
             cut == IF pd = d THEN total ELSE 0
  <2>1. \A id \in old : f[id] \in Int /\ (id # parent => g[id] = f[id])
    BY <1>3, <1>6, <1>8, <1>10 DEF Share, old
  <2>2. g[parent] = f[parent] - cut /\ cut \in Int
    BY <1>3, <1>5, <1>6, <1>8, <1>9 DEF Share, old
  <2>3. \A i \in 1..n : c[i] \in Int /\ g[k[i]] = c[i]
    <3> TAKE i \in 1..n
    <3>1. /\ k[i] = next + i - 1 /\ k[i] \in children /\ live'[k[i]] = carves[i]
          /\ k[i] \in DOMAIN live'
      BY <1>3, <1>6, <1>11
    <3>2. g[k[i]] = IF carves[i].dim = d THEN carves[i].amount ELSE 0
      BY <3>1 DEF Share
    <3> QED BY <3>2, <1>4, <1>7
  <2>4. \A i, j \in 1..n : k[i] = k[j] => i = j
    BY <1>3
  <2>5. {k[i] : i \in 1..n} = children
    BY <1>12
  <2>6. SumFunctionOnSet(c, 1..n) = cut
    <3>1. CASE pd = d
      <4>1. c = [i \in 1..n |-> carves[i].amount]
        BY <3>1
      <4> QED BY <4>1, <3>1, <1>5
    <3>2. CASE pd # d
      <4>1. \A i \in 1..n : c[i] = 0
        BY <3>2
      <4> HIDE DEF c
      <4> QED BY <4>1, <3>2, <1>2, SumZero
    <3> QED BY <3>1, <3>2
  <2> HIDE DEF f, g, k, c, cut
  <2>7. SumFunctionOnSet(g, children) = cut
    <3>1. /\ \A i \in 1..n : k[i] \in children
          /\ \A y \in children : \E i \in 1..n : y = k[i]
      BY <2>5
    <3> DEFINE J == 1..n
    <3>2. /\ IsFiniteSet(J) /\ \A i \in J : k[i] \in children
          /\ \A y \in children : \E i \in J : y = k[i]
          /\ \A i, j \in J : k[i] = k[j] => i = j
          /\ \A i \in J : c[i] \in Int /\ g[k[i]] = c[i]
      BY <1>2, <2>3, <2>4, <3>1
    <3> HIDE DEF J
    <3>3. SumFunctionOnSet(g, children) = SumFunctionOnSet(c, J)
      BY <3>2, SumRenamed
    <3> QED BY <2>6, <3>3 DEF J
  <2>8. \A id \in children : g[id] \in Int
    <3>1. \A id \in {k[i] : i \in 1..n} : g[id] \in Int
      BY <2>3
    <3> QED BY <2>5, <3>1
  <2>9. \A id \in old : g[id] \in Int
    BY <2>1, <2>2
  <2>10. SumFunctionOnSet(g, old \cup children)
          = SumFunctionOnSet(g, old) + SumFunctionOnSet(g, children)
    BY <1>3, <2>8, <2>9, SumDisjoint
  <2>11. /\ SumFunctionOnSet(f, old) = f[parent] + SumFunctionOnSet(f, old \ {parent})
         /\ SumFunctionOnSet(g, old) = g[parent] + SumFunctionOnSet(g, old \ {parent})
    BY <1>3, <2>1, <2>9, SumRemove
  <2>12. /\ SumFunctionOnSet(f, old \ {parent}) = SumFunctionOnSet(g, old \ {parent})
         /\ SumFunctionOnSet(f, old \ {parent}) \in Int
    <3>1. IsFiniteSet(old \ {parent})
      BY <1>3, FS_RemoveElement
    <3>2. \A id \in old \ {parent} : f[id] \in Int /\ g[id] = f[id]
      BY <2>1
    <3> QED BY <3>1, <3>2, SumEqual, SumIsInt
  <2>13. HeldIn(d)' = HeldIn(d)
    <3>1. HeldIn(d)' = SumFunctionOnSet(g, old \cup children)
      BY <1>3, <1>6, HeldIsSum DEF g
    <3>2. HeldIn(d) = SumFunctionOnSet(f, old)
      BY HeldIsSum DEF f, old
    <3>3. f[parent] \in Int
      BY <1>3, <2>1
    <3> QED BY <3>1, <3>2, <3>3, <2>2, <2>7, <2>10, <2>11, <2>12
  <2>14. issued[d] = HeldIn(d) + lost[d]
    BY <1>15 DEF MInv, Conservation
  <2> QED BY <2>13, <2>14, <1>6
<1> QED BY <1>13, <1>14, <1>15 DEF Conservation

LEMMA CombineAmounts ==
  ASSUME MInv, NEW inputs \in Lists([input : Candidates, quantity : Quantities]),
         NEW output \in Quantities, CombineInto(output, inputs)
  PROVE  AmountsOK' /\ (Careful => NothingOverdrawn' /\ Conservation')
<1> DEFINE old  == DOMAIN live
           used == {inputs[i].input : i \in DOMAIN inputs}
           view == [id \in used |-> live[id]]
           I    == DOMAIN inputs
<1>1. PICK n \in 0 .. MaxParts : inputs \in [1..n -> [input : Candidates, quantity : Quantities]]
  BY DEF Lists
<1>2. n \in Nat /\ I = 1..n /\ IsFiniteSet(I)
  BY <1>1, FlowConstantsOK, FS_Interval
<1>3. \A i \in I : /\ inputs[i].input \in old /\ inputs[i].input \in used
                   /\ inputs[i].quantity \in [amount : Int, dim : Dimensions]
                   /\ inputs[i].quantity.amount \in Int
  BY <1>1, QuantityTyped DEF Candidates
<1>4. /\ next \in Nat /\ old = 0 .. next - 1 /\ IsFiniteSet(old)
      /\ 0 .. next = old \cup {next} /\ next \notin old
  BY IdsFinite DEF MInv, FInv, ShapeOK
<1>5. /\ \A id \in old : live[id] \in [amount : Int, dim : Dimensions]
      /\ issued \in [Dimensions -> Nat] /\ lost \in [Dimensions -> Nat]
  BY DEF MInv, AmountsOK
<1>6. /\ Taken(inputs) \in Int
      /\ SumFunctionOnSet([id \in old |-> TakenFrom(id, inputs)], old) = Taken(inputs)
  BY <1>2, <1>3, <1>4, TakenByPassport
<1>7. /\ output \in [amount : Int, dim : Dimensions] /\ output.amount \in Int
      /\ output.dim \in Dimensions /\ output.amount >= 0
  BY QuantityTyped DEF CombineInto
<1>8. /\ combine(output, inputs, view) # Refused
      /\ live' = [id \in 0..next |->
                    IF id = next
                      THEN output
                      ELSE [live[id] EXCEPT !.amount = @ - TakenFrom(id, inputs)]]
      /\ lost' = [lost EXCEPT ![output.dim] = @ + combine(output, inputs, view).loss.amount]
      /\ issued' = issued
      /\ Careful => ListedCarefully(inputs)
  BY DEF CombineInto
<1>9. /\ \A i \in I : /\ inputs[i].quantity.amount >= 0
                      /\ inputs[i].quantity.dim = output.dim
                      /\ inputs[i].quantity.amount <= live[inputs[i].input].amount
      /\ output.amount <= Taken(inputs)
      /\ combine(output, inputs, view).loss.amount = Taken(inputs) - output.amount
  <2> DEFINE ok == /\ inputs # << >>
                   /\ \A i \in DOMAIN inputs :
                        /\ inputs[i].quantity.amount >= 0
                        /\ inputs[i].quantity.dim = output.dim
                        /\ Covered(inputs[i], view)
                   /\ output.amount <= Taken(inputs)
             res == [loss |-> [output EXCEPT !.amount = Taken(inputs) - @]]
  <2>1. combine(output, inputs, view) = IF ok THEN res ELSE Refused
    BY Zenon DEF combine
  <2>2. res.loss.amount = Taken(inputs) - output.amount
    BY <1>7
  <2> HIDE DEF ok, res, view
  <2>3. ok /\ combine(output, inputs, view) = res
    BY <2>1, <1>8
  <2>4. ASSUME NEW i \in I
        PROVE  /\ inputs[i].quantity.amount >= 0
               /\ inputs[i].quantity.dim = output.dim
               /\ inputs[i].quantity.amount <= live[inputs[i].input].amount
    <3>1. view[inputs[i].input] = live[inputs[i].input]
      BY <1>3 DEF view
    <3> QED BY <2>3, <3>1 DEF ok, Covered
  <2>5. output.amount <= Taken(inputs)
    BY <2>3 DEF ok
  <2>6. combine(output, inputs, view).loss.amount = Taken(inputs) - output.amount
    BY <2>2, <2>3
  <2> QED BY <2>4, <2>5, <2>6
<1>10. /\ DOMAIN live' = 0..next /\ live'[next] = output
       /\ \A id \in old : live'[id] = [live[id] EXCEPT !.amount = @ - TakenFrom(id, inputs)]
  BY <1>4, <1>8
<1>11. \A id \in old :
         /\ TakenFrom(id, inputs) \in Int
         /\ (\A i \in I : inputs[i].input # id) => TakenFrom(id, inputs) = 0
         /\ \A i \in I :
              /\ inputs[i].input = id
              /\ \A j \in I : inputs[j].input = inputs[i].input => j = i
              => TakenFrom(id, inputs) = inputs[i].quantity.amount
  BY <1>2, <1>3, TakenIsSum
<1>12. \A id \in old : /\ live'[id] \in [amount : Int, dim : Dimensions]
                       /\ live'[id].amount = live[id].amount - TakenFrom(id, inputs)
                       /\ live'[id].dim = live[id].dim
  <2> TAKE id \in old
  <2>1. /\ live[id] \in [amount : Int, dim : Dimensions] /\ TakenFrom(id, inputs) \in Int
        /\ live'[id] = [live[id] EXCEPT !.amount = @ - TakenFrom(id, inputs)]
    BY <1>5, <1>10, <1>11
  <2> QED BY <2>1, LessOf
<1>13. lost'[output.dim] = lost[output.dim] + (Taken(inputs) - output.amount)
       /\ (\A d \in Dimensions : d # output.dim => lost'[d] = lost[d])
       /\ lost' \in [Dimensions -> Nat]
  <2> DEFINE x == Taken(inputs) - output.amount
  <2>1. lost' = [lost EXCEPT ![output.dim] = @ + x]
    BY <1>8, <1>9
  <2>2. x \in Nat
    BY <1>6, <1>7, <1>9
  <2> HIDE DEF x
  <2> QED BY <2>1, <2>2, <1>5, <1>7 DEF x
<1> HIDE DEF old, used, view, I
<1>14. AmountsOK'
  <2>1. \A id \in DOMAIN live' : live'[id] \in [amount : Int, dim : Dimensions]
    BY <1>4, <1>7, <1>10, <1>12
  <2> QED BY <2>1, <1>5, <1>8, <1>13 DEF AmountsOK
<1>15. ASSUME Careful
       PROVE  /\ \A i, j \in I : inputs[i].input = inputs[j].input => i = j
              /\ \A i \in I : live[inputs[i].input].dim = output.dim
  BY <1>8, <1>9, <1>15 DEF ListedCarefully, I
<1>16. ASSUME Careful PROVE NothingOverdrawn'
  <2>1. \A id \in old : live[id].amount >= 0 /\ live[id].amount \in Int
    BY <1>5, <1>16 DEF MInv, NothingOverdrawn, old
  <2>2. ASSUME NEW id \in old PROVE live'[id].amount >= 0
    <3>1. CASE \A i \in I : inputs[i].input # id
      BY <3>1, <2>1, <1>11, <1>12
    <3>2. CASE \E i \in I : inputs[i].input = id
      <4>1. PICK i \in I : inputs[i].input = id
        BY <3>2
      <4>2. TakenFrom(id, inputs) = inputs[i].quantity.amount
        BY <4>1, <1>11, <1>15, <1>16
      <4>3. inputs[i].quantity.amount <= live[id].amount
        BY <4>1, <1>9
      <4> QED BY <4>2, <4>3, <2>1, <1>3, <1>12
    <3> QED BY <3>1, <3>2
  <2> QED BY <2>2, <1>4, <1>7, <1>10 DEF NothingOverdrawn
<1>17. ASSUME Careful, NEW d \in Dimensions
       PROVE  issued'[d] = HeldIn(d)' + lost'[d]
  <2> DEFINE f == Share(live, d)
             g == Share(live', d)
             t == [id \in old |-> IF live[id].dim = d THEN TakenFrom(id, inputs) ELSE 0]
             made == IF output.dim = d THEN output.amount ELSE 0
             taken == IF output.dim = d THEN Taken(inputs) ELSE 0
  <2>1. \A id \in old : /\ f[id] \in Int /\ g[id] \in Int /\ t[id] \in Int
                        /\ f[id] = g[id] + t[id]
    BY <1>4, <1>5, <1>10, <1>11, <1>12 DEF Share, old
  <2>2. g[next] = made /\ made \in Int
    BY <1>4, <1>7, <1>10 DEF Share
  <2>3. SumFunctionOnSet(t, old) = taken
    <3>1. CASE output.dim = d
      <4>1. ASSUME NEW id \in old PROVE t[id] = TakenFrom(id, inputs)
        <5>1. CASE live[id].dim = d
          BY <5>1
        <5>2. CASE live[id].dim # d
          <6>1. \A i \in I : inputs[i].input # id
            BY <3>1, <5>2, <1>15, <1>17
          <6> QED BY <6>1, <5>2, <1>11
        <5> QED BY <5>1, <5>2
      <4>2. t = [id \in old |-> TakenFrom(id, inputs)]
        BY <4>1
      <4> QED BY <3>1, <4>2, <1>6
    <3>2. CASE output.dim # d
      <4>1. ASSUME NEW id \in old PROVE t[id] = 0
        <5>1. CASE live[id].dim = d
          <6>1. \A i \in I : inputs[i].input # id
            BY <3>2, <5>1, <1>15, <1>17
          <6> QED BY <6>1, <5>1, <1>11
        <5>2. CASE live[id].dim # d
          BY <5>2
        <5> QED BY <5>1, <5>2
      <4> HIDE DEF t
      <4> QED BY <3>2, <4>1, <1>4, SumZero
    <3> QED BY <3>1, <3>2
  <2>4. lost'[d] = lost[d] + (taken - made) /\ taken \in Int
    BY <1>5, <1>6, <1>7, <1>13
  <2> HIDE DEF f, g, t, made, taken
  <2>5. SumFunctionOnSet(f, old) = SumFunctionOnSet(g, old) + SumFunctionOnSet(t, old)
    BY <1>4, <2>1, SumPointwise
  <2>6. SumFunctionOnSet(g, old \cup {next}) = g[next] + SumFunctionOnSet(g, old)
    BY <1>4, <2>1, <2>2, SumAdd
  <2>7. SumFunctionOnSet(g, old) \in Int
    BY <1>4, <2>1, SumIsInt
  <2>8. HeldIn(d)' = made + SumFunctionOnSet(g, old)
    BY <1>4, <1>10, <2>2, <2>6, HeldIsSum DEF g
  <2>9. HeldIn(d) = SumFunctionOnSet(g, old) + taken
    BY <2>3, <2>5, HeldIsSum DEF f, old
  <2>10. issued[d] = HeldIn(d) + lost[d] /\ issued'[d] = issued[d] /\ lost[d] \in Int
    BY <1>5, <1>8, <1>17 DEF MInv, Conservation
  <2> QED BY <2>2, <2>4, <2>7, <2>8, <2>9, <2>10
<1> QED BY <1>14, <1>16, <1>17 DEF Conservation

LEMMA MInvInit == FInit => MInv
<1> SUFFICES ASSUME FInit PROVE MInv
  OBVIOUS
<1>1. DOMAIN live = {}
  BY DEF FInit
<1>2. \A d \in Dimensions : HeldIn(d) = 0
  BY <1>1, HeldIsSum, SumEmpty
<1>3. AmountsOK /\ NothingOverdrawn /\ Conservation
  BY <1>1, <1>2 DEF AmountsOK, NothingOverdrawn, Conservation, FInit
<1> QED BY <1>3, FInvInit DEF MInv

LEMMA MInvStep == MInv /\ [FNext]_fvars => MInv'
<1> SUFFICES ASSUME MInv, [FNext]_fvars PROVE MInv'
  OBVIOUS
<1>1. FInv'
  BY FInvStep DEF MInv
<1>2. CASE \E quantity \in Quantities : Issue(quantity)
  BY <1>1, <1>2, IssueAmounts DEF MInv
<1>3. CASE \E parent \in Candidates, carves \in Lists(Quantities) : SplitOff(parent, carves)
  BY <1>1, <1>3, SplitAmounts DEF MInv
<1>4. CASE \E inputs \in Lists([input : Candidates, quantity : Quantities]),
              output \in Quantities : CombineInto(output, inputs)
  BY <1>1, <1>4, CombineAmounts DEF MInv
<1>5. ASSUME UNCHANGED <<live, issued, lost>> PROVE MInv'
  <2>1. \A d \in Dimensions : HeldIn(d)' = HeldIn(d)
    BY <1>5, HeldIsSum
  <2>2. AmountsOK' /\ (Careful => NothingOverdrawn' /\ Conservation')
    BY <1>5, <2>1 DEF MInv, AmountsOK, NothingOverdrawn, Conservation
  <2> QED BY <1>1, <2>2 DEF MInv
<1>6. CASE \E id \in DOMAIN live, kind \in Kinds : Taint(id, kind)
  BY <1>5, <1>6 DEF Taint
<1>7. CASE UNCHANGED fvars
  BY <1>5, <1>7 DEF fvars
<1> QED BY <1>2, <1>3, <1>4, <1>6, <1>7 DEF FNext

LEMMA MInvariance == FSpec => []MInv
  BY MInvInit, MInvStep, PTL DEF FSpec

LEMMA TypesFromInv == MInv => FTypeOK
<1> SUFFICES ASSUME MInv PROVE FTypeOK
  OBVIOUS
<1>1. DOMAIN live = 0 .. next - 1 /\ DOMAIN lineage = DOMAIN live
  BY DEF MInv, FInv, ShapeOK
<1>2. \A id \in DOMAIN lineage : lineage[id] \subseteq DOMAIN live
  BY DEF MInv, FInv, ShapeOK, LineageOK
<1>3. graph \in [inputs_of : [Ids -> SUBSET Ids], outputs_of : [Ids -> SUBSET Ids]]
  <2>1. DOMAIN live \subseteq Ids
    BY IssuedAreIds DEF MInv, FInv
  <2>2. /\ graph = [inputs_of |-> graph.inputs_of, outputs_of |-> graph.outputs_of]
        /\ graph.inputs_of \in [Ids -> SUBSET DOMAIN live]
        /\ graph.outputs_of \in [Ids -> SUBSET DOMAIN live]
    BY DEF MInv, FInv, ShapeOK
  <2>3. graph.inputs_of \in [Ids -> SUBSET Ids] /\ graph.outputs_of \in [Ids -> SUBSET Ids]
    BY <2>1, <2>2
  <2> QED BY <2>2, <2>3
<1> QED BY <1>1, <1>2, <1>3 DEF MInv, FInv, AmountsOK, TaintsAtSource, FTypeOK

-----------------------------------------------------------------------------
(* The theorems.                                                           *)

\* The routing set of a recall is exactly the passports the material went into
\* (provenance.rs:86).
THEOREM RecallAlwaysExact == FSpec => []RecallExact
  BY FInvariance, RecallFromInv, PTL

\* A taint shows exactly where a recall on its source goes (provenance.rs:94).
THEOREM TaintsAlwaysMatchRecall == FSpec => []TaintsMatchRecall
  BY FInvariance, TaintsFromInv, PTL

\* Passports, totals, the graph and the taints keep their types, however
\* carelessly callers list the inputs of a combine.
THEOREM FlowTypesAlwaysHold == FSpec => []FTypeOK
  BY MInvariance, TypesFromInv, PTL

\* When callers list each input once, in its dimension, nothing appears and
\* nothing vanishes unaccounted (combine.rs:120, split.rs:68).
THEOREM MatterAlwaysConserved ==
  ASSUME Careful
  PROVE  FSpec => []Conservation
<1>1. MInv => Conservation
  BY DEF MInv
<1> QED BY <1>1, MInvariance, PTL

\* ... and no passport gives more than it holds (combine.rs:66).
THEOREM NothingEverOverdrawn ==
  ASSUME Careful
  PROVE  FSpec => []NothingOverdrawn
<1>1. MInv => NothingOverdrawn
  BY DEF MInv
<1> QED BY <1>1, MInvariance, PTL
=============================================================================
