--------------------------- MODULE TopoSortProofs ---------------------------
(***************************************************************************)
(* For every assign form: the sort puts each binding behind what it needs, *)
(* refuses only circular forms, and the stages provide for each other.     *)
(***************************************************************************)
EXTENDS TopoSort, SequenceTheorems, WellFoundedInduction, TLAPS

N == Len(list)

\* The items are the bindings in another order.
Permuted ==
  /\ list \in Forms
  /\ items \in [1..N -> Binding]
  /\ \A i \in 1..N : items[i].index \in 1..N
  /\ EachFollowsWhatItNeeds

\* Where the sort is: what is done and what goes next.
SortInv ==
  /\ Permuted
  /\ finished_idx \in 0..N
  /\ done = Given(1..finished_idx)
  /\ move_to_front \subseteq (finished_idx + 1)..N
  /\ \A i \in move_to_front : items[i].needs \subseteq done
  /\ phase \in {"sort", "deadlock", "stage", "built"}
  /\ phase = "deadlock" => finished_idx < N /\ Ready = {}
  /\ phase \in {"stage", "built"} => finished_idx = N

\* Where the staging is: the items gone over are in the stages or in this
\* round, and each of those needs only what the stages finished provide.
StageInv ==
  /\ staged \in 0..N
  /\ phase \in {"sort", "deadlock"} => staged = 0
  /\ phase = "built" => staged = N
  /\ this_round_bindings \in Seq(1..N)
  /\ binding_lists \in Seq(Seq(1..N))
  /\ phase # "built" =>
       /\ current_provides = NamesUpTo(Len(binding_lists))
       /\ new_provides = UNION {list[k].has : k \in Range(this_round_bindings)}
       /\ \A k \in Range(this_round_bindings) : Item(k).needs \subseteq current_provides
  /\ current_provides \subseteq possible /\ new_provides \subseteq possible
  /\ \A i \in 1..staged :
       \/ phase # "built" /\ items[i].index \in Range(this_round_bindings)
       \/ \E s \in 1..Len(binding_lists) : items[i].index \in Range(binding_lists[s])
  /\ \A s \in 1..Len(binding_lists) : \A k \in Range(binding_lists[s]) :
       Item(k).needs \subseteq NamesUpTo(s - 1)

IInv == SortInv /\ StageInv

LEMMA ListType ==
  ASSUME list \in Forms
  PROVE  /\ list \in Seq([mentions : SUBSET Names, has : SUBSET Names])
         /\ N \in Nat /\ DOMAIN list = 1..N
         /\ possible \subseteq Names
         /\ \A k \in 1..N : /\ Item(k) \in Binding
                            /\ Item(k).index = k
                            /\ Item(k).has = list[k].has
                            /\ Item(k).needs \subseteq possible
                            /\ list[k].has \subseteq possible
<1>1. list \in Seq([mentions : SUBSET Names, has : SUBSET Names])
  BY FormsAssumption
<1>2. N \in Nat /\ DOMAIN list = 1..N
  BY <1>1 DEF N
<1>3. \A k \in 1..N : list[k] \in [mentions : SUBSET Names, has : SUBSET Names]
  BY <1>1, ElementOfSeq DEF N
<1>4. possible \subseteq Names
  BY <1>2, <1>3 DEF possible
<1>5. \A k \in 1..N : list[k].has \subseteq possible
  BY <1>2 DEF possible
<1> QED
  BY <1>1, <1>2, <1>3, <1>4, <1>5 DEF Item, Binding

LEMMA InitHolds == Init => IInv
<1> SUFFICES ASSUME Init PROVE IInv
  OBVIOUS
<1>1. list \in Forms
  BY DEF Init
<1>2. /\ N \in Nat /\ DOMAIN list = 1..N
      /\ \A k \in 1..N : Item(k) \in Binding /\ Item(k).index = k
  BY <1>1, ListType
<1>3. items = [k \in 1..N |-> Item(k)] /\ finished_idx = 0
  BY <1>2 DEF Init
<1>4. Permuted
  BY <1>1, <1>2, <1>3 DEF Permuted, EachFollowsWhatItNeeds
<1>5. SortInv
  BY <1>2, <1>4, <1>3 DEF SortInv, Init, Given
<1>6. StageInv
  BY <1>2 DEF StageInv, Init, NamesUpTo, Range
<1> QED
  BY <1>5, <1>6 DEF IInv

\* Putting one item in place.
LEMMA MoveKeepsOrder ==
  ASSUME SortInv, MoveToFront
  PROVE  SortInv'
<1>1. PICK idx \in move_to_front :
        /\ \A j \in move_to_front : idx <= j
        /\ items' = Swapped(items, finished_idx + 1, idx)
        /\ done' = (done \cup items[idx].has) \cap possible
        /\ finished_idx' = finished_idx + 1
        /\ move_to_front' = move_to_front \ {idx}
  BY DEF MoveToFront
<1>2. UNCHANGED <<list, phase>> /\ phase = "sort" /\ N' = N
  BY DEF MoveToFront, N
<1>3. /\ N \in Nat /\ DOMAIN list = 1..N /\ list \in Forms
      /\ \A k \in 1..N : list[k].has \subseteq possible /\ Item(k).has = list[k].has
  BY ListType DEF SortInv, Permuted
<1>4. PICK p \in 1..N : p = finished_idx + 1 /\ finished_idx \in 0..N
  BY <1>1, <1>3 DEF SortInv
<1>5. /\ items \in [1..N -> Binding] /\ DOMAIN items = 1..N
      /\ idx \in p..N /\ idx \in 1..N
  BY <1>3, <1>4 DEF SortInv, Permuted
<1>6. /\ items' \in [1..N -> Binding] /\ DOMAIN items' = 1..N
      /\ items'[p] = items[idx] /\ items'[idx] = items[p]
      /\ \A i \in 1..N : i # p /\ i # idx => items'[i] = items[i]
  BY <1>1, <1>4, <1>5 DEF Swapped
<1>7. \A i \in 1..N : items[i].index \in 1..N /\ items[i] = Item(items[i].index)
  BY <1>3, <1>5 DEF SortInv, Permuted, EachFollowsWhatItNeeds
<1>8. \A k : (Item(k))' = Item(k)
  BY <1>2 DEF Item, possible
<1>9. \A i \in 1..(p - 1) : items'[i] = items[i]
  BY <1>3, <1>4, <1>5, <1>6
<1>10. \A i \in 1..p : (Given(1..(i - 1)))' = Given(1..(i - 1))
  BY <1>9, <1>4 DEF Given
<1>11. /\ items[idx].needs \subseteq done /\ done = Given(1..(p - 1))
       /\ done \subseteq possible
  <2>1. finished_idx = p - 1
    BY <1>4
  <2>2. done = Given(1..(p - 1))
    BY <2>1 DEF SortInv
  <2>3. \A i \in 1..(p - 1) : items[i].has \subseteq possible
    BY <1>3, <1>4, <1>7
  <2> QED
    BY <1>1, <2>2, <2>3 DEF SortInv, Given
<1>12. EachFollowsWhatItNeeds'
  <2>1. \A i \in 1..N : items'[i] = (Item(items[i].index))'
    <3> SUFFICES ASSUME NEW i \in 1..N PROVE items'[i] = (Item(items[i].index))'
      OBVIOUS
    <3>1. PICK j \in 1..N : items'[i] = items[j]
      BY <1>4, <1>5, <1>6
    <3>2. items[j] = Item(items[j].index) /\ possible' = possible /\ list' = list
      BY <1>2, <1>7 DEF possible
    <3> QED
      BY <3>1, <3>2 DEF Item
  <2>2. \A i, j \in 1..N : items[i].index = items[j].index => i = j
    BY <1>5 DEF SortInv, Permuted, EachFollowsWhatItNeeds
  <2>3. \A i, j \in 1..N : items'[i].index = items'[j].index => i = j
    BY <2>2, <1>4, <1>5, <1>6
  <2>4. \A k \in 1..N : \E i \in 1..N : items'[i].index = k
    <3> SUFFICES ASSUME NEW k \in 1..N PROVE \E i \in 1..N : items'[i].index = k
      OBVIOUS
    <3>1. PICK i \in 1..N : items[i].index = k
      BY <1>3, <1>5 DEF SortInv, Permuted, EachFollowsWhatItNeeds
    <3> QED
      BY <3>1, <1>4, <1>5, <1>6
  <2>5. \A i \in 1..p : items'[i].needs \subseteq (Given(1..(i - 1)))'
    <3> SUFFICES ASSUME NEW i \in 1..p PROVE items'[i].needs \subseteq (Given(1..(i - 1)))'
      OBVIOUS
    <3>1. CASE i = p
      BY <3>1, <1>6, <1>10, <1>11
    <3>2. CASE i # p
      <4>1. i \in 1..finished_idx /\ i \in 1..(p - 1)
        BY <3>2, <1>4
      <4>2. items[i].needs \subseteq Given(1..(i - 1))
        BY <4>1 DEF SortInv, Permuted, EachFollowsWhatItNeeds
      <4> QED
        BY <4>1, <4>2, <1>9, <1>10
    <3> QED
      BY <3>1, <3>2
  <2> QED
    BY <2>1, <2>3, <2>4, <2>5, <1>1, <1>2, <1>3, <1>4, <1>6 DEF EachFollowsWhatItNeeds
<1>13. Permuted'
  <2>1. \A i \in 1..N : items'[i].index \in 1..N
    BY <1>4, <1>5, <1>6, <1>7
  <2> QED
    BY <2>1, <1>2, <1>3, <1>6, <1>12 DEF Permuted
<1>14. done' = done \cup items[idx].has
  BY <1>1, <1>3, <1>5, <1>7, <1>11
<1>15. done' = (Given(1..finished_idx))'
  <2>1. (Given(1..p))' = (Given(1..(p - 1)))' \cup items'[p].has
    BY <1>4 DEF Given
  <2>2. (Given(1..(p - 1)))' = done
    BY <1>4, <1>10, <1>11
  <2>3. finished_idx' = p
    BY <1>1, <1>4
  <2> QED
    BY <2>1, <2>2, <2>3, <1>6, <1>14
<1>16. \A i \in move_to_front' : i \in (p + 1)..N /\ items'[i] = items[i]
  BY <1>1, <1>4, <1>5, <1>6 DEF SortInv
<1>17. \A i \in move_to_front' : items'[i].needs \subseteq done'
  BY <1>1, <1>14, <1>16 DEF SortInv
<1> QED
  BY <1>1, <1>2, <1>4, <1>13, <1>15, <1>16, <1>17 DEF SortInv

\* What the items are, in any order.
LEMMA ItemsFacts ==
  ASSUME SortInv
  PROVE  /\ N \in Nat /\ DOMAIN list = 1..N
         /\ DOMAIN items = 1..N /\ Len(items) = N
         /\ \A i \in 1..N : /\ items[i].index \in 1..N
                            /\ items[i] = Item(items[i].index)
                            /\ items[i].has = list[items[i].index].has
                            /\ items[i].has \subseteq possible
                            /\ items[i].needs \subseteq possible
<1>1. /\ N \in Nat /\ DOMAIN list = 1..N
      /\ \A j \in 1..N : /\ list[j].has \subseteq possible
                         /\ Item(j).has = list[j].has
                         /\ Item(j).needs \subseteq possible
  BY ListType DEF SortInv, Permuted
<1>2. items \in [1..N -> Binding] /\ DOMAIN items = 1..N /\ Len(items) = N
  BY <1>1 DEF SortInv, Permuted
<1>3. \A i \in 1..N : items[i].index \in 1..N
  BY DEF SortInv, Permuted
<1>4. \A i \in 1..N : items[i] = Item(items[i].index)
  BY <1>2 DEF SortInv, Permuted, EachFollowsWhatItNeeds
<1> QED
  BY <1>1, <1>2, <1>3, <1>4

\* A step that leaves the sort alone keeps its invariant.
LEMMA SortAlone ==
  ASSUME SortInv, UNCHANGED <<sorting, phase>>
  PROVE  SortInv' /\ UNCHANGED <<N, possible>> /\ \A j : (Item(j))' = Item(j)
<1>1. UNCHANGED <<list, items, finished_idx, done, move_to_front, phase, N, possible>>
  BY DEF sorting, N, possible
<1>2. /\ \A j : (Item(j))' = Item(j)
      /\ \A places : (Given(places))' = Given(places)
      /\ Ready' = Ready
  BY <1>1 DEF Item, Given, Ready
<1>3. EachFollowsWhatItNeeds'
  <2>1. EachFollowsWhatItNeeds
    BY DEF SortInv, Permuted
  <2> QED
    BY <2>1, <1>1 DEF EachFollowsWhatItNeeds, Item, Given, possible
<1>4. Permuted'
  BY <1>1, <1>3 DEF Permuted, SortInv
<1> QED
  BY <1>1, <1>2, <1>4 DEF SortInv

\* The names of the items gone over are in the stages or in this round.
LEMMA StagedHave ==
  ASSUME SortInv, StageInv, phase = "stage"
  PROVE  \A i \in 1..staged : items[i].has \subseteq current_provides \cup new_provides
<1> SUFFICES ASSUME NEW i \in 1..staged
             PROVE  items[i].has \subseteq current_provides \cup new_provides
  OBVIOUS
<1>1. i \in 1..N /\ items[i].index \in 1..N /\ items[i].has = list[items[i].index].has
  BY ItemsFacts DEF StageInv
<1>2. /\ current_provides = NamesUpTo(Len(binding_lists))
      /\ new_provides = UNION {list[j].has : j \in Range(this_round_bindings)}
  BY DEF StageInv
<1>3. CASE items[i].index \in Range(this_round_bindings)
  BY <1>1, <1>2, <1>3
<1>4. CASE \E s \in 1..Len(binding_lists) : items[i].index \in Range(binding_lists[s])
  <2>1. PICK s \in 1..Len(binding_lists) : items[i].index \in Range(binding_lists[s])
    BY <1>4
  <2>2. items[i].has \subseteq StageNames(s)
    BY <1>1, <2>1 DEF StageNames
  <2> QED
    BY <2>1, <2>2, <1>2 DEF NamesUpTo
<1> QED
  BY <1>3, <1>4 DEF StageInv

LEMMA RangeOfAppend ==
  ASSUME NEW S, NEW seq \in Seq(S), NEW e \in S
  PROVE  Range(Append(seq, e)) = Range(seq) \cup {e}
<1>1. PICK m \in Nat : m = Len(seq)
  OBVIOUS
<1>2. /\ Append(seq, e) \in Seq(S) /\ Len(Append(seq, e)) = m + 1
      /\ \A i \in 1..m : Append(seq, e)[i] = seq[i]
      /\ Append(seq, e)[m + 1] = e
  BY <1>1, AppendProperties
<1>3. DOMAIN seq = 1..m /\ DOMAIN Append(seq, e) = 1..(m + 1)
  BY <1>1, <1>2
<1> QED
  BY <1>2, <1>3 DEF Range

\* Going over one item.  What it needs is in the stages or in this round, as
\* it follows what it needs.
LEMMA StageKeepsStages ==
  ASSUME SortInv, StageInv, Stage
  PROVE  IInv'
<1> DEFINE spec == items[staged + 1]
           k    == spec.index
<1>1. /\ phase = "stage" /\ staged < Len(items) /\ staged' = staged + 1
      /\ UNCHANGED <<list, items, finished_idx, done, move_to_front, phase>>
  BY DEF Stage, sorting
<1>2. /\ N \in Nat /\ DOMAIN list = 1..N
      /\ \A j \in 1..N : list[j].has \subseteq possible /\ Item(j).has = list[j].has
  BY ListType DEF SortInv, Permuted
<1>3. items \in [1..N -> Binding] /\ Len(items) = N
  BY <1>2 DEF SortInv, Permuted
<1>4. staged \in 0..N /\ staged + 1 \in 1..N /\ finished_idx = N
  BY <1>1, <1>2, <1>3 DEF SortInv, StageInv
<1>5. k \in 1..N /\ spec = Item(k) /\ spec.has = list[k].has /\ spec.has \subseteq possible
  BY <1>4, ItemsFacts
<1>6. spec.needs \subseteq Given(1..staged)
  <2>1. staged + 1 \in 1..finished_idx
    BY <1>4
  <2>2. spec.needs \subseteq Given(1..((staged + 1) - 1))
    BY <2>1 DEF SortInv, Permuted, EachFollowsWhatItNeeds
  <2> QED
    BY <2>2, <1>4
<1>7. /\ this_round_bindings \in Seq(1..N) /\ binding_lists \in Seq(Seq(1..N))
      /\ Len(binding_lists) \in Nat
      /\ current_provides = NamesUpTo(Len(binding_lists))
      /\ new_provides = UNION {list[j].has : j \in Range(this_round_bindings)}
      /\ current_provides \subseteq possible /\ new_provides \subseteq possible
      /\ \A j \in Range(this_round_bindings) : Item(j).needs \subseteq current_provides
  BY <1>1 DEF StageInv
<1>8. \A i \in 1..staged : items[i].has \subseteq current_provides \cup new_provides
  BY <1>1, StagedHave
<1>9. spec.needs \subseteq current_provides \cup new_provides
  BY <1>6, <1>8 DEF Given
<1>10. UNCHANGED <<sorting, phase>>
  BY DEF Stage
<1>11. SortInv' /\ UNCHANGED <<N, possible>> /\ \A j : (Item(j))' = Item(j)
  BY <1>10, SortAlone
<1>12. CASE RollsOver(spec)
  <2>1. /\ binding_lists' = Append(binding_lists, this_round_bindings)
        /\ current_provides' = current_provides \cup new_provides
        /\ new_provides' = spec.has
        /\ this_round_bindings' = <<k>>
    BY <1>12 DEF Stage
  <2> HIDE DEF spec, k
  <2>2. PICK n \in Nat : n = Len(binding_lists)
    BY <1>7
  <2>3. /\ binding_lists' \in Seq(Seq(1..N)) /\ Len(binding_lists') = n + 1
        /\ \A s \in 1..n : binding_lists'[s] = binding_lists[s]
        /\ binding_lists'[n + 1] = this_round_bindings
    BY <2>1, <2>2, <1>7, AppendProperties
  <2>4. \A s \in 1..n : (StageNames(s))' = StageNames(s)
    BY <2>3, <1>1 DEF StageNames
  <2>5. \A m \in 0..n : (NamesUpTo(m))' = NamesUpTo(m)
    BY <2>4 DEF NamesUpTo
  <2>6. (StageNames(n + 1))' = new_provides
    BY <2>3, <1>1, <1>7 DEF StageNames
  <2>7. (NamesUpTo(n + 1))' = (NamesUpTo(n))' \cup (StageNames(n + 1))'
    BY DEF NamesUpTo
  <2>8. current_provides' = (NamesUpTo(Len(binding_lists)))'
    <3>1. (NamesUpTo(n))' = current_provides
      BY <2>2, <2>5, <1>7
    <3>2. (NamesUpTo(n + 1))' = current_provides \cup new_provides
      BY <3>1, <2>6, <2>7
    <3> QED
      BY <3>2, <2>1, <2>3
  <2>9. Range(this_round_bindings') = {k} /\ this_round_bindings' \in Seq(1..N)
    BY <2>1, <1>5 DEF Range
  <2>10. \A s \in 1..Len(binding_lists') : \A j \in Range(binding_lists'[s]) :
            Item(j).needs \subseteq (NamesUpTo(s - 1))'
    <3> SUFFICES ASSUME NEW s \in 1..(n + 1), NEW j \in Range(binding_lists'[s])
                 PROVE  Item(j).needs \subseteq (NamesUpTo(s - 1))'
      BY <2>3
    <3>1. CASE s \in 1..n
      <4>1. Item(j).needs \subseteq NamesUpTo(s - 1)
        BY <3>1, <2>2, <2>3 DEF StageInv
      <4>2. s - 1 \in 0..n
        BY <3>1
      <4> QED
        BY <4>1, <4>2, <2>5
    <3>2. CASE s = n + 1
      <4>1. Item(j).needs \subseteq NamesUpTo(n)
        BY <3>2, <2>2, <2>3, <1>7
      <4> QED
        BY <3>2, <4>1, <2>5
    <3> QED
      BY <3>1, <3>2
  <2>11. \A i \in 1..(staged + 1) :
           \/ items[i].index \in Range(this_round_bindings')
           \/ \E s \in 1..Len(binding_lists') : items[i].index \in Range(binding_lists'[s])
    <3> SUFFICES ASSUME NEW i \in 1..staged
                 PROVE  \E s \in 1..(n + 1) : items[i].index \in Range(binding_lists'[s])
      BY <2>3, <2>9, <1>4 DEF spec, k
    <3>1. CASE items[i].index \in Range(this_round_bindings)
      BY <3>1, <2>2, <2>3
    <3>2. CASE \E s \in 1..n : items[i].index \in Range(binding_lists[s])
      BY <3>2, <2>2, <2>3
    <3> QED
      BY <3>1, <3>2, <2>2 DEF StageInv
  <2>12. new_provides' = UNION {list[j].has : j \in Range(this_round_bindings')}
    BY <2>1, <2>9, <1>5
  <2>13. \A j \in Range(this_round_bindings') : Item(j).needs \subseteq current_provides'
    BY <2>1, <2>9, <1>5, <1>9
  <2>14. StageInv'
    <3>1. staged' \in 0..N' /\ phase' = "stage"
      BY <1>1, <1>4, <1>11
    <3>2. /\ this_round_bindings' \in Seq(1..N') /\ binding_lists' \in Seq(Seq(1..N'))
          /\ current_provides' \subseteq possible' /\ new_provides' \subseteq possible'
      BY <2>1, <2>3, <2>9, <1>5, <1>7, <1>11
    <3>3. new_provides' = UNION {list'[j].has : j \in Range(this_round_bindings')}
      BY <2>12, <1>1
    <3>4. \A j \in Range(this_round_bindings') : (Item(j))'.needs \subseteq current_provides'
      BY <2>13, <1>11
    <3>5. \A s \in 1..Len(binding_lists') : \A j \in Range(binding_lists'[s]) :
            (Item(j))'.needs \subseteq (NamesUpTo(s - 1))'
      BY <2>10, <1>11
    <3>6. \A i \in 1..staged' :
            \/ items'[i].index \in Range(this_round_bindings')
            \/ \E s \in 1..Len(binding_lists') : items'[i].index \in Range(binding_lists'[s])
      BY <2>11, <1>1
    <3> QED
      BY <2>8, <3>1, <3>2, <3>3, <3>4, <3>5, <3>6 DEF StageInv
  <2> QED
    BY <2>14, <1>11 DEF IInv
<1>13. CASE ~RollsOver(spec)
  <2>1. /\ new_provides' = new_provides \cup spec.has
        /\ this_round_bindings' = Append(this_round_bindings, k)
        /\ UNCHANGED <<binding_lists, current_provides>>
    BY <1>13 DEF Stage
  <2>2. spec.needs \subseteq current_provides
    BY <1>13 DEF RollsOver
  <2> HIDE DEF spec, k
  <2>3. /\ this_round_bindings' \in Seq(1..N)
        /\ Range(this_round_bindings') = Range(this_round_bindings) \cup {k}
    <3>1. this_round_bindings' \in Seq(1..N)
      BY <2>1, <1>5, <1>7, AppendProperties
    <3>2. Range(Append(this_round_bindings, k)) = Range(this_round_bindings) \cup {k}
      <4> DEFINE T == 1..N
      <4>1. this_round_bindings \in Seq(T) /\ k \in T
        BY <1>5, <1>7
      <4> HIDE DEF T
      <4> QED
        BY <4>1, RangeOfAppend
    <3> QED
      BY <3>1, <3>2, <2>1
  <2>4. \A s : (StageNames(s))' = StageNames(s)
    BY <2>1, <1>1 DEF StageNames
  <2>5. \A m : (NamesUpTo(m))' = NamesUpTo(m)
    BY <2>4 DEF NamesUpTo
  <2>6. new_provides' = UNION {list[j].has : j \in Range(this_round_bindings')}
    BY <2>1, <2>3, <1>5, <1>7
  <2>7. \A j \in Range(this_round_bindings') : Item(j).needs \subseteq current_provides'
    BY <2>1, <2>2, <2>3, <1>5, <1>7
  <2>8. \A i \in 1..(staged + 1) :
          \/ items[i].index \in Range(this_round_bindings')
          \/ \E s \in 1..Len(binding_lists) : items[i].index \in Range(binding_lists[s])
    BY <2>3, <1>4 DEF StageInv, spec, k
  <2>9. (NamesUpTo(Len(binding_lists)))' = NamesUpTo(Len(binding_lists))
    BY <2>1, <2>5
  <2>10. \A s \in 1..Len(binding_lists) : \A j \in Range(binding_lists[s]) :
           Item(j).needs \subseteq (NamesUpTo(s - 1))'
    BY <2>5 DEF StageInv
  <2>11. StageInv'
    BY <2>1, <2>3, <2>6, <2>7, <2>8, <2>9, <2>10, <1>1, <1>4, <1>5, <1>7, <1>11 DEF StageInv
  <2> QED
    BY <2>11, <1>11 DEF IInv
<1> QED
  BY <1>12, <1>13

\* Closing the last stage.
LEMMA BuildKeepsStages ==
  ASSUME SortInv, StageInv, Build
  PROVE  IInv'
<1>1. /\ phase = "stage" /\ phase' = "built" /\ staged = N /\ staged' = staged
      /\ UNCHANGED <<list, items, finished_idx, done, move_to_front,
                     current_provides, new_provides, this_round_bindings>>
  BY ItemsFacts DEF Build, sorting
<1>2. N \in Nat /\ DOMAIN list = 1..N
  BY ItemsFacts
<1>3. UNCHANGED <<N, possible>> /\ \A j : (Item(j))' = Item(j)
  BY <1>1 DEF N, possible, Item
<1>4. SortInv'
  <2>1. Permuted'
    BY <1>1, <1>3 DEF SortInv, Permuted, EachFollowsWhatItNeeds, Given, Item, possible
  <2> QED
    BY <2>1, <1>1, <1>3 DEF SortInv, Given
<1>5. PICK n \in Nat : n = Len(binding_lists)
  <2>1. binding_lists \in Seq(Seq(1..N))
    BY DEF StageInv
  <2> QED
    BY <2>1
<1>6. /\ this_round_bindings \in Seq(1..N) /\ binding_lists \in Seq(Seq(1..N))
      /\ current_provides = NamesUpTo(n)
  BY <1>1, <1>5 DEF StageInv
<1>7. CASE this_round_bindings = <<>>
  <2>1. binding_lists' = binding_lists /\ Range(this_round_bindings) = {}
    <3>1. binding_lists' = binding_lists
      BY <1>7 DEF Build
    <3>2. DOMAIN this_round_bindings = {}
      BY <1>7
    <3> QED
      BY <3>1, <3>2 DEF Range
  <2>2. \A m : (NamesUpTo(m))' = NamesUpTo(m)
    BY <2>1, <1>1 DEF NamesUpTo, StageNames
  <2>3. StageInv'
    BY <2>1, <2>2, <1>1, <1>2, <1>3 DEF StageInv
  <2> QED
    BY <2>3, <1>4 DEF IInv
<1>8. CASE this_round_bindings # <<>>
  <2>1. binding_lists' = Append(binding_lists, this_round_bindings)
    BY <1>8 DEF Build
  <2>2. /\ binding_lists' \in Seq(Seq(1..N)) /\ Len(binding_lists') = n + 1
        /\ \A s \in 1..n : binding_lists'[s] = binding_lists[s]
        /\ binding_lists'[n + 1] = this_round_bindings
    BY <2>1, <1>5, <1>6, AppendProperties
  <2>3. \A s \in 1..n : (StageNames(s))' = StageNames(s)
    BY <2>2, <1>1 DEF StageNames
  <2>4. \A m \in 0..n : (NamesUpTo(m))' = NamesUpTo(m)
    BY <2>3 DEF NamesUpTo
  <2>5. \A s \in 1..Len(binding_lists') : \A j \in Range(binding_lists'[s]) :
          Item(j).needs \subseteq (NamesUpTo(s - 1))'
    <3> SUFFICES ASSUME NEW s \in 1..(n + 1), NEW j \in Range(binding_lists'[s])
                 PROVE  Item(j).needs \subseteq (NamesUpTo(s - 1))'
      BY <2>2
    <3>1. CASE s \in 1..n
      <4>1. Item(j).needs \subseteq NamesUpTo(s - 1)
        BY <3>1, <1>5, <2>2 DEF StageInv
      <4>2. s - 1 \in 0..n
        BY <3>1
      <4> QED
        BY <4>1, <4>2, <2>4
    <3>2. CASE s = n + 1
      <4>1. Item(j).needs \subseteq NamesUpTo(n)
        BY <3>2, <2>2, <1>1, <1>6 DEF StageInv
      <4> QED
        BY <3>2, <4>1, <2>4
    <3> QED
      BY <3>1, <3>2
  <2>6. \A i \in 1..staged :
          \E s \in 1..(n + 1) : items[i].index \in Range(binding_lists'[s])
    <3> SUFFICES ASSUME NEW i \in 1..staged
                 PROVE  \E s \in 1..(n + 1) : items[i].index \in Range(binding_lists'[s])
      OBVIOUS
    <3>1. CASE items[i].index \in Range(this_round_bindings)
      BY <3>1, <2>2
    <3>2. CASE \E s \in 1..n : items[i].index \in Range(binding_lists[s])
      BY <3>2, <2>2
    <3> QED
      BY <3>1, <3>2, <1>5 DEF StageInv
  <2>7. StageInv'
    BY <2>2, <2>5, <2>6, <1>1, <1>2, <1>3, <1>6 DEF StageInv
  <2> QED
    BY <2>7, <1>4 DEF IInv
<1> QED
  BY <1>7, <1>8

\* While the sort goes on nothing is staged.
LEMMA SortingKeepsStages ==
  ASSUME StageInv, phase = "sort", phase' \in {"sort", "deadlock", "stage"},
         UNCHANGED <<list, staging>>
  PROVE  StageInv'
<1>1. /\ UNCHANGED <<staged, current_provides, new_provides, this_round_bindings, binding_lists>>
      /\ UNCHANGED <<list, N, possible>> /\ staged = 0
  BY DEF staging, N, possible, StageInv
<1>2. \A j : (Item(j))' = Item(j)
  BY <1>1 DEF Item
<1>3. \A m : (NamesUpTo(m))' = NamesUpTo(m)
  BY <1>1 DEF NamesUpTo, StageNames
<1> QED
  BY <1>1, <1>2, <1>3 DEF StageInv

\* Every step.
LEMMA NextKeeps == IInv /\ [Next]_vars => IInv'
<1> SUFFICES ASSUME SortInv, StageInv, [Next]_vars PROVE IInv'
  BY DEF IInv
<1>1. /\ N \in Nat /\ DOMAIN list = 1..N /\ Len(items) = N
      /\ finished_idx \in 0..N
  BY ItemsFacts DEF SortInv
<1>2. CASE FindReady
  <2>1. /\ phase = "sort" /\ phase' = "sort" /\ move_to_front' = Ready
        /\ UNCHANGED <<list, items, finished_idx, done, staging, N, possible>>
    BY <1>2 DEF FindReady, N, possible
  <2>2. Permuted'
    BY <2>1 DEF SortInv, Permuted, EachFollowsWhatItNeeds, Given, Item
  <2>3. SortInv'
    BY <2>1, <2>2, <1>1 DEF SortInv, Given, Ready
  <2> QED
    BY <2>1, <2>3, SortingKeepsStages DEF IInv
<1>3. CASE Deadlock
  <2>1. /\ phase = "sort" /\ phase' = "deadlock" /\ Ready = {} /\ finished_idx < N
        /\ UNCHANGED <<list, items, finished_idx, done, move_to_front, staging, N, possible>>
    BY <1>1, <1>3 DEF Deadlock, sorting, N, possible
  <2>2. Permuted'
    BY <2>1 DEF SortInv, Permuted, EachFollowsWhatItNeeds, Given, Item
  <2>3. SortInv'
    BY <2>1, <2>2, <1>1 DEF SortInv, Given, Ready
  <2> QED
    BY <2>1, <2>3, SortingKeepsStages DEF IInv
<1>4. CASE MoveToFront
  BY <1>4, MoveKeepsOrder, SortingKeepsStages DEF MoveToFront, IInv
<1>5. CASE Sorted
  <2>1. /\ phase = "sort" /\ phase' = "stage" /\ finished_idx = N
        /\ UNCHANGED <<list, items, finished_idx, done, move_to_front, staging, N, possible>>
    BY <1>1, <1>5 DEF Sorted, sorting, N, possible
  <2>2. Permuted'
    BY <2>1 DEF SortInv, Permuted, EachFollowsWhatItNeeds, Given, Item
  <2>3. SortInv'
    BY <2>1, <2>2, <1>1 DEF SortInv, Given
  <2> QED
    BY <2>1, <2>3, SortingKeepsStages DEF IInv
<1>6. CASE Stage
  BY <1>6, StageKeepsStages
<1>7. CASE Build
  BY <1>7, BuildKeepsStages
<1>8. CASE UNCHANGED vars
  <2>1. SortInv' /\ UNCHANGED <<N, possible>> /\ \A j : (Item(j))' = Item(j)
    BY <1>8, SortAlone DEF vars
  <2>2. UNCHANGED <<list, items, phase, staged, current_provides, new_provides, this_round_bindings, binding_lists>>
    BY <1>8 DEF vars, sorting, staging
  <2>3. \A m : (NamesUpTo(m))' = NamesUpTo(m)
    BY <2>2 DEF NamesUpTo, StageNames
  <2>4. StageInv'
    BY <2>1, <2>2, <2>3 DEF StageInv
  <2> QED
    BY <2>1, <2>4 DEF IInv
<1> QED
  BY <1>2, <1>3, <1>4, <1>5, <1>6, <1>7, <1>8 DEF Next

LEMMA Inductive == Spec => []IInv
  BY InitHolds, NextKeeps, PTL DEF Spec

\* The sort only ever swaps places, and an item is put in place behind the
\* ones it needs (util/mod.rs toposort).
THEOREM SortOrders == Spec => []EachFollowsWhatItNeeds
<1>1. IInv => EachFollowsWhatItNeeds
  BY DEF IInv, SortInv, Permuted
<1> QED
  BY Inductive, <1>1, PTL

\* The types of all states.
THEOREM SortTypeCorrect == Spec => []TypeOK
<1>1. IInv => TypeOK
  <2> SUFFICES ASSUME IInv PROVE TypeOK
    OBVIOUS
  <2>1. /\ N \in Nat /\ DOMAIN list = 1..N /\ Len(items) = N
        /\ \A i \in 1..N : items[i].has \subseteq possible
    BY ItemsFacts DEF IInv
  <2>2. list \in Forms /\ items \in Seq(Binding) /\ finished_idx \in 0..N
    BY <2>1 DEF IInv, SortInv, Permuted
  <2>3. done \subseteq possible /\ move_to_front \subseteq 1..N
    BY <2>1, <2>2 DEF IInv, SortInv, Given
  <2> QED
    BY <2>1, <2>2, <2>3 DEF IInv, SortInv, StageInv, TypeOK, N
<1> QED
  BY Inductive, <1>1, PTL

\* A binding in a stage is given what it needs by the stages before, and no
\* binding is left out (codegen.rs hoist_assign_form).
THEOREM StagesAreComplete == Spec => []StagesProvide
<1>1. IInv => StagesProvide
  <2> SUFFICES ASSUME IInv, phase = "built" PROVE StagesProvide
    BY DEF StagesProvide
  <2>1. /\ N \in Nat /\ DOMAIN list = 1..N /\ DOMAIN items = 1..N
    BY ItemsFacts DEF IInv
  <2>2. DOMAIN binding_lists = 1..Len(binding_lists) /\ staged = N
    BY DEF IInv, StageInv
  <2>3. ASSUME NEW k \in DOMAIN list
        PROVE  \E s \in DOMAIN binding_lists : k \in Range(binding_lists[s])
    <3>1. PICK i \in 1..N : items[i].index = k
      BY <2>1 DEF IInv, SortInv, Permuted, EachFollowsWhatItNeeds
    <3> QED
      BY <3>1, <2>2 DEF IInv, StageInv
  <2> QED
    BY <2>2, <2>3 DEF StagesProvide, IInv, StageInv
<1> QED
  BY Inductive, <1>1, PTL

\* A form is refused exactly when its bindings are circular.  Refused: what is
\* not in place is a circle.  Sorted: the first of a circle in the order needs
\* a name that is given before it, so by another of the circle.
THEOREM RefusesCircles == Spec => []OnlyCirclesDeadlock
<1>1. IInv => OnlyCirclesDeadlock
  <2> SUFFICES ASSUME IInv PROVE OnlyCirclesDeadlock
    OBVIOUS
  <2>1. /\ N \in Nat /\ DOMAIN list = 1..N /\ DOMAIN items = 1..N /\ Len(items) = N
        /\ finished_idx \in 0..N /\ done = Given(1..finished_idx)
    BY ItemsFacts DEF IInv, SortInv
  <2>2. \A i \in 1..N : /\ items[i].index \in 1..N
                        /\ items[i] = Item(items[i].index)
                        /\ items[i].has = list[items[i].index].has
    BY ItemsFacts DEF IInv
  <2>3. \A k \in 1..N : \E i \in 1..N : items[i].index = k
    BY <2>1 DEF IInv, SortInv, Permuted, EachFollowsWhatItNeeds
  <2>4. ASSUME phase = "deadlock" PROVE Circular
    <3> DEFINE S == {items[i].index : i \in (finished_idx + 1)..N}
    <3>1. finished_idx < N /\ Ready = {}
      BY <2>4 DEF IInv, SortInv
    <3>2. S \in (SUBSET DOMAIN list) \ {{}}
      <4>1. finished_idx + 1 \in (finished_idx + 1)..N
        BY <2>1, <3>1
      <4>2. items[finished_idx + 1].index \in S
        BY <4>1
      <4>3. \A i \in (finished_idx + 1)..N : items[i].index \in 1..N
        BY <2>1, <2>2
      <4>4. S \subseteq 1..N
        BY <4>3
      <4> QED
        BY <4>2, <4>4, <2>1
    <3>3. ASSUME NEW k \in S
          PROVE  \E n \in Item(k).needs : \A j \in DOMAIN list : n \in list[j].has => j \in S
      <4>1. PICK i \in (finished_idx + 1)..N : k = items[i].index
        BY <3>3
      <4>2. i \in 1..N /\ Item(k) = items[i]
        BY <4>1, <2>1, <2>2
      <4>3. PICK n \in items[i].needs : n \notin done
        BY <4>1, <3>1, <2>1 DEF Ready
      <4>4. ASSUME NEW j \in 1..N, n \in list[j].has PROVE j \in S
        <5>1. PICK m \in 1..N : items[m].index = j
          BY <2>3
        <5>2. n \in items[m].has
          BY <5>1, <4>4, <2>2
        <5>3. m \notin 1..finished_idx
          BY <5>2, <4>3, <2>1 DEF Given
        <5>4. m \in (finished_idx + 1)..N
          BY <5>3, <2>1
        <5> QED
          BY <5>1, <5>4
      <4> QED
        BY <4>2, <4>3, <4>4, <2>1
    <3> HIDE DEF S
    <3> QED
      BY <3>2, <3>3 DEF Circular
  <2>5. ASSUME phase \in {"stage", "built"}, Circular PROVE FALSE
    <3>1. PICK S \in (SUBSET DOMAIN list) \ {{}} :
            \A k \in S : \E n \in Item(k).needs : \A j \in DOMAIN list : n \in list[j].has => j \in S
      BY <2>5 DEF Circular
    <3> DEFINE T == {i \in 1..N : items[i].index \in S}
    <3>2. PICK k \in S : k \in 1..N
      BY <3>1, <2>1
    <3>3. T # {} /\ T \subseteq Nat
      <4>1. PICK i \in 1..N : items[i].index = k
        BY <3>2, <2>3
      <4>2. i \in T
        BY <4>1
      <4> QED
        BY <4>2, <2>1
    <3>4. PICK i \in T : \A m \in T : ~(<<m, i>> \in OpToRel(<, Nat))
      <4> HIDE DEF T
      <4> QED
        BY <3>3, NatLessThanWellFounded, WFMin
    <3>5. \A m \in T : ~(m < i)
      BY <3>3, <3>4 DEF OpToRel
    <3>6. i \in 1..finished_idx /\ items[i].index \in S
      BY <2>1, <2>5 DEF IInv, SortInv
    <3>7. items[i].needs \subseteq Given(1..(i - 1))
      BY <3>6 DEF IInv, SortInv, Permuted, EachFollowsWhatItNeeds
    <3>8. PICK n \in items[i].needs : \A j \in DOMAIN list : n \in list[j].has => j \in S
      BY <3>1, <3>6, <2>1, <2>2
    <3>9. PICK m \in 1..(i - 1) : n \in items[m].has
      BY <3>7, <3>8 DEF Given
    <3>10. m \in 1..N /\ m < i
      BY <3>6, <2>1
    <3>11. m \in T
      BY <3>8, <3>9, <3>10, <2>1, <2>2
    <3> QED
      BY <3>5, <3>10, <3>11
  <2> QED
    BY <2>4, <2>5 DEF OnlyCirclesDeadlock
<1> QED
  BY Inductive, <1>1, PTL
(***************************************************************************)
(* The best stack.                                                         *)
(***************************************************************************)
\* What the i-th item needs is given before place c + 1.
NeedsWithin(i, c) == items[i].needs \subseteq Given(1..c)

\* The rounds of the sort begin after the places in B.  The items that could
\* go next at the beginning of a round went next, and no other item could.
Rounds(B) ==
  /\ 0 \in B /\ B \subseteq 0..finished_idx
  /\ \A c \in B :
       \/ \E d \in B :
            /\ \A i \in (c + 1)..d : NeedsWithin(i, c)
            /\ \A i \in (d + 1)..N : ~NeedsWithin(i, c)
       \/ /\ \A i \in (c + 1)..finished_idx \cup move_to_front : NeedsWithin(i, c)
          /\ finished_idx > c \/ move_to_front # {} =>
               \A i \in (finished_idx + 1)..N \ move_to_front : ~NeedsWithin(i, c)

\* A stage begins where a round begins: at place c + 1.
AtRound(B) ==
  \E c \in B :
    /\ c <= staged
    /\ current_provides = Given(1..c)
    /\ \A i \in (c + 1)..staged : NeedsWithin(i, c)
    /\ binding_lists # <<>> =>
         \A i \in (c + 1)..N : ~(items[i].needs \subseteq NamesUpTo(Len(binding_lists) - 1))

\* No binding could go into the stage before its own.
NoneEarlier ==
  \A s \in 2..Len(binding_lists) : \A k \in Range(binding_lists[s]) :
    ~(Item(k).needs \subseteq NamesUpTo(s - 2))

RoundInv ==
  /\ phase # "built" =>
       /\ \E B \in SUBSET (0..N) : Rounds(B) /\ AtRound(B)
       /\ new_provides \subseteq Given(1..staged)
       /\ binding_lists # <<>> => \A k \in Range(this_round_bindings) :
            ~(Item(k).needs \subseteq NamesUpTo(Len(binding_lists) - 1))
  /\ phase \in {"sort", "deadlock"} => binding_lists = <<>>
  /\ NoneEarlier
  /\ phase = "built" => output_let = binding_lists


\* The lets are built from the innermost out, in the order of the stages.
LEMMA WrappedIsTheStack ==
  ASSUME NEW S, NEW lists \in Seq(S)
  PROVE  Wrapped(lists) = lists
<1> DEFINE n == Len(lists)
           Step(f) == [m \in 0..n |-> IF m = 0 THEN <<>> ELSE <<lists[n - m + 1]>> \o f[m - 1]]
           around == CHOOSE f : f = Step(f)
           tail == [m \in 0..n |-> SubSeq(lists, n - m + 1, n)]
<1>1. n \in Nat
  OBVIOUS
<1>2. Wrapped(lists) = around[n]
  BY DEF Wrapped
<1>3. ASSUME NEW m \in 0..n
      PROVE  /\ m = 0 => tail[m] = <<>>
             /\ m # 0 => tail[m] = <<lists[n - m + 1]>> \o tail[m - 1]
  <2>1. CASE m = 0
    BY <1>1, <2>1, SubSeqEmpty
  <2>2. CASE m # 0
    <3>1. /\ n - m + 1 \in 1..n /\ n \in (n - m + 1)..n
          /\ m - 1 \in 0..n /\ n - (m - 1) + 1 = (n - m + 1) + 1
      BY <1>1, <2>2
    <3>2. SubSeq(lists, n - m + 1, n) = <<lists[n - m + 1]>> \o SubSeq(lists, (n - m + 1) + 1, n)
      BY <3>1, SubSeqRecursiveFirst
    <3> QED
      BY <2>2, <3>1, <3>2
  <2> QED
    BY <2>1, <2>2
<1>4. tail = Step(tail)
  BY <1>3
<1>5. around = Step(around)
  <2> HIDE DEF Step, tail
  <2> QED
    BY <1>4
<1> HIDE DEF around
<1>6. ASSUME NEW m \in 0..n, m # 0
      PROVE  around[m] = <<lists[n - m + 1]>> \o around[m - 1]
  <2> DEFINE F == Step(around)
  <2>1. F[m] = <<lists[n - m + 1]>> \o around[m - 1]
    BY <1>6
  <2> HIDE DEF Step
  <2> QED
    BY <2>1, <1>5
<1>7. around[0] = <<>>
  BY <1>5, <1>1
<1> DEFINE T == {m \in 0..n : around[m] # tail[m]}
<1>8. T = {}
  <2> SUFFICES ASSUME T # {} PROVE FALSE
    OBVIOUS
  <2>1. T \subseteq Nat
    BY <1>1
  <2>2. PICK m \in T : \A j \in T : ~(<<j, m>> \in OpToRel(<, Nat))
    <3> HIDE DEF T
    <3> QED
      BY <2>1, NatLessThanWellFounded, WFMin
  <2>3. m \in 0..n /\ around[m] # tail[m]
    OBVIOUS
  <2> HIDE DEF tail
  <2>4. m # 0
    BY <2>3, <1>3, <1>7
  <2>5. m - 1 \in 0..n /\ m - 1 < m /\ m - 1 \in Nat
    BY <2>3, <2>4, <1>1
  <2>6. m - 1 \notin T
    BY <2>2, <2>5, <2>1 DEF OpToRel
  <2>7. around[m - 1] = tail[m - 1]
    BY <2>5, <2>6
  <2> QED
    BY <2>3, <2>4, <2>7, <1>3, <1>6
<1>9. around[n] = tail[n]
  <2> HIDE DEF tail
  <2>1. n \in 0..n
    BY <1>1
  <2> QED
    BY <2>1, <1>8
<1>10. tail[n] = lists
  <2>1. n - n + 1 = 1 /\ n \in 0..n
    BY <1>1
  <2> QED
    BY <2>1, SubSeqFull
<1> QED
  BY <1>2, <1>9, <1>10

\* A round goes on: the item that moves was one of those that go in this
\* round, and the one it changes places with was not, unless it is the same.
LEMMA MoveKeepsRounds ==
  ASSUME SortInv, MoveToFront, NEW B, Rounds(B)
  PROVE  (Rounds(B))'
<1>1. PICK idx \in move_to_front :
        /\ \A j \in move_to_front : idx <= j
        /\ items' = Swapped(items, finished_idx + 1, idx)
        /\ finished_idx' = finished_idx + 1
        /\ move_to_front' = move_to_front \ {idx}
  BY DEF MoveToFront
<1>2. N' = N /\ N \in Nat /\ DOMAIN items = 1..N /\ finished_idx \in 0..N
  BY ItemsFacts DEF MoveToFront, N, SortInv
<1>3. PICK p \in 1..N : p = finished_idx + 1 /\ idx \in p..N /\ idx \in 1..N
  BY <1>1, <1>2 DEF SortInv
<1>4. /\ items'[p] = items[idx] /\ items'[idx] = items[p]
      /\ \A i \in 1..N : i # p /\ i # idx => items'[i] = items[i]
  BY <1>1, <1>2, <1>3 DEF Swapped
<1>5. \A c \in 0..finished_idx : (Given(1..c))' = Given(1..c)
  <2> SUFFICES ASSUME NEW c \in 0..finished_idx PROVE (Given(1..c))' = Given(1..c)
    OBVIOUS
  <2>1. \A i \in 1..c : items'[i] = items[i]
    BY <1>2, <1>3, <1>4
  <2> QED
    BY <2>1 DEF Given
<1>6. ASSUME NEW c \in 0..finished_idx
      PROVE  /\ (NeedsWithin(p, c))' <=> NeedsWithin(idx, c)
             /\ (NeedsWithin(idx, c))' <=> NeedsWithin(p, c)
             /\ \A i \in 1..N : i # p /\ i # idx => ((NeedsWithin(i, c))' <=> NeedsWithin(i, c))
  BY <1>4, <1>5 DEF NeedsWithin
<1>7. B \subseteq 0..finished_idx /\ 0 \in B
  BY DEF Rounds
<1>8. idx # p => p \notin move_to_front
  BY <1>1, <1>3
<1>9. ASSUME NEW c \in B
      PROVE  \/ \E d \in B :
                  /\ \A i \in (c + 1)..d : (NeedsWithin(i, c))'
                  /\ \A i \in (d + 1)..N : ~(NeedsWithin(i, c))'
             \/ /\ \A i \in (c + 1)..(finished_idx + 1) \cup (move_to_front \ {idx}) : (NeedsWithin(i, c))'
                /\ \A i \in (finished_idx + 2)..N \ (move_to_front \ {idx}) : ~(NeedsWithin(i, c))'
  <2>1. c \in 0..finished_idx
    BY <1>7
  <2>2. CASE \E d \in B : /\ \A i \in (c + 1)..d : NeedsWithin(i, c)
                          /\ \A i \in (d + 1)..N : ~NeedsWithin(i, c)
    <3>1. PICK d \in B : /\ \A i \in (c + 1)..d : NeedsWithin(i, c)
                         /\ \A i \in (d + 1)..N : ~NeedsWithin(i, c)
      BY <2>2
    <3>2. d \in 0..finished_idx
      BY <1>7
    <3>3. \A i \in (c + 1)..d : i \in 1..N /\ i # p /\ i # idx
      BY <2>1, <3>2, <1>2, <1>3
    <3>4. \A i \in (c + 1)..d : (NeedsWithin(i, c))'
      BY <3>1, <3>3, <2>1, <1>6
    <3>5. p \in (d + 1)..N /\ idx \in (d + 1)..N /\ \A i \in (d + 1)..N : i \in 1..N
      BY <3>2, <1>2, <1>3
    <3>6. \A i \in (d + 1)..N : ~(NeedsWithin(i, c))'
      BY <3>1, <3>5, <2>1, <1>6
    <3> QED
      BY <3>4, <3>6
  <2>3. CASE /\ \A i \in (c + 1)..finished_idx \cup move_to_front : NeedsWithin(i, c)
             /\ finished_idx > c \/ move_to_front # {} =>
                  \A i \in (finished_idx + 1)..N \ move_to_front : ~NeedsWithin(i, c)
    <3>1. (NeedsWithin(p, c))'
      BY <2>1, <2>3, <1>6
    <3>2. \A i \in (c + 1)..finished_idx : i \in 1..N /\ i # p /\ i # idx
      BY <2>1, <1>2, <1>3
    <3>3. \A i \in (c + 1)..finished_idx : (NeedsWithin(i, c))'
      BY <3>2, <2>1, <2>3, <1>6
    <3>4. \A i \in move_to_front \ {idx} : i \in 1..N /\ i # p /\ i # idx
      BY <1>2, <1>8 DEF SortInv
    <3>5. \A i \in move_to_front \ {idx} : (NeedsWithin(i, c))'
      BY <3>4, <2>1, <2>3, <1>6
    <3>6. \A i \in (c + 1)..(finished_idx + 1) : i \in (c + 1)..finished_idx \/ i = p
      BY <1>2, <1>3, <2>1
    <3>7. \A i \in (finished_idx + 1)..N \ move_to_front : ~NeedsWithin(i, c)
      BY <1>1, <2>3
    <3>8. ASSUME NEW i \in (finished_idx + 2)..N \ (move_to_front \ {idx})
          PROVE  ~(NeedsWithin(i, c))'
      <4>1. i \in 1..N /\ i # p /\ i \in (finished_idx + 1)..N
        BY <1>2, <1>3
      <4>2. CASE i = idx
        <5>1. p \in (finished_idx + 1)..N \ move_to_front
          BY <4>1, <4>2, <1>2, <1>3, <1>8
        <5> QED
          BY <5>1, <4>2, <3>7, <2>1, <1>6
      <4>3. CASE i # idx
        BY <4>1, <4>3, <3>7, <2>1, <1>6
      <4> QED
        BY <4>2, <4>3
    <3> QED
      BY <3>1, <3>3, <3>5, <3>6, <3>8
  <2> QED
    BY <2>2, <2>3 DEF Rounds
<1>10. B \subseteq 0..(finished_idx + 1) /\ (finished_idx + 1) + 1 = finished_idx + 2
  BY <1>2, <1>7
<1> QED
  BY <1>1, <1>2, <1>7, <1>9, <1>10 DEF Rounds

\* A round begins behind what is in place.
LEMMA FindReadyKeepsRounds ==
  ASSUME SortInv, FindReady, NEW B, Rounds(B)
  PROVE  (Rounds(B \cup {finished_idx}))'
<1>1. /\ move_to_front = {} /\ move_to_front' = Ready
      /\ UNCHANGED <<list, items, finished_idx, done, N>>
  BY DEF FindReady, N
<1>2. N \in Nat /\ Len(items) = N /\ finished_idx \in 0..N /\ done = Given(1..finished_idx)
  BY ItemsFacts DEF SortInv
<1>3. \A i, c : (NeedsWithin(i, c))' <=> NeedsWithin(i, c)
  BY <1>1 DEF NeedsWithin, Given
<1>4. /\ \A i \in Ready : NeedsWithin(i, finished_idx)
      /\ \A i \in (finished_idx + 1)..N \ Ready : ~NeedsWithin(i, finished_idx)
  BY <1>2 DEF Ready, NeedsWithin
<1>5. B \subseteq 0..finished_idx /\ 0 \in B
  BY DEF Rounds
<1>6. ASSUME NEW c \in B \cup {finished_idx}
      PROVE  \/ \E d \in B \cup {finished_idx} :
                  /\ \A i \in (c + 1)..d : NeedsWithin(i, c)
                  /\ \A i \in (d + 1)..N : ~NeedsWithin(i, c)
             \/ /\ \A i \in (c + 1)..finished_idx \cup Ready : NeedsWithin(i, c)
                /\ \A i \in (finished_idx + 1)..N \ Ready : ~NeedsWithin(i, c)
  <2>1. CASE c = finished_idx
    <3>1. (c + 1)..finished_idx = {}
      BY <2>1, <1>2
    <3> QED
      BY <3>1, <2>1, <1>4
  <2>2. CASE c # finished_idx
    <3>1. c \in B /\ finished_idx > c
      BY <2>2, <1>2, <1>5
    <3>2. CASE \E d \in B : /\ \A i \in (c + 1)..d : NeedsWithin(i, c)
                            /\ \A i \in (d + 1)..N : ~NeedsWithin(i, c)
      BY <3>2
    <3>3. CASE /\ \A i \in (c + 1)..finished_idx : NeedsWithin(i, c)
               /\ \A i \in (finished_idx + 1)..N : ~NeedsWithin(i, c)
      BY <3>3
    <3> QED
      BY <3>1, <3>2, <3>3, <1>1 DEF Rounds
  <2> QED
    BY <2>1, <2>2
<1> QED
  BY <1>1, <1>2, <1>3, <1>5, <1>6 DEF Rounds

\* Going over one item.  If it rolls over, the stage that ends holds all the
\* items that could have gone in, and no item behind could.
LEMMA StageKeepsRounds ==
  ASSUME SortInv, StageInv, RoundInv, Stage
  PROVE  RoundInv'
<1> DEFINE spec == items[staged + 1]
<1>1. /\ phase = "stage" /\ phase' = "stage" /\ staged < Len(items) /\ staged' = staged + 1
      /\ UNCHANGED <<list, items, finished_idx, done, move_to_front>>
  BY DEF Stage, sorting
<1>2. /\ N \in Nat /\ N' = N /\ DOMAIN items = 1..N /\ Len(items) = N
      /\ staged \in 0..N /\ staged + 1 \in 1..N
  BY <1>1, ItemsFacts DEF StageInv, N
<1>3. PICK k \in 1..N : k = spec.index /\ spec = Item(k) /\ spec.has = list[k].has
  BY <1>2, ItemsFacts
<1>13. PICK n \in Nat : n = Len(binding_lists)
  <2>1. binding_lists \in Seq(Seq(1..N))
    BY DEF StageInv
  <2> QED
    BY <2>1
<1>14. PICK m \in 0..N : m = staged
  BY <1>2
<1>4. /\ \A j : (Item(j))' = Item(j)
      /\ \A places : (Given(places))' = Given(places)
      /\ \A i, c : (NeedsWithin(i, c))' <=> NeedsWithin(i, c)
      /\ \A B : (Rounds(B))' <=> Rounds(B)
  BY <1>1, <1>2 DEF Item, possible, Given, NeedsWithin, Rounds
<1>5. PICK B \in SUBSET (0..N) : Rounds(B) /\ AtRound(B)
  BY <1>1 DEF RoundInv
<1>6. PICK c \in B :
        /\ c <= staged
        /\ current_provides = Given(1..c)
        /\ \A i \in (c + 1)..staged : NeedsWithin(i, c)
        /\ binding_lists # <<>> =>
             \A i \in (c + 1)..N : ~(items[i].needs \subseteq NamesUpTo(n - 1))
  BY <1>5, <1>13 DEF AtRound
<1>7. c \in 0..N /\ c \in Int /\ staged + 1 \in (c + 1)..N
  BY <1>2, <1>5, <1>6
<1>8. /\ n \in Nat /\ binding_lists \in Seq(Seq(1..N)) /\ current_provides = NamesUpTo(n)
      /\ this_round_bindings \in Seq(1..N)
      /\ new_provides = UNION {list[j].has : j \in Range(this_round_bindings)}
      /\ new_provides \subseteq Given(1..staged)
      /\ binding_lists # <<>> => \A j \in Range(this_round_bindings) :
           ~(Item(j).needs \subseteq NamesUpTo(n - 1))
      /\ n = 0 <=> binding_lists = <<>>
  BY <1>1, <1>13 DEF StageInv, RoundInv
<1>9. \A u \in 0..N : \A l \in 0..u : Given(1..l) \subseteq Given(1..u)
  BY DEF Given
<1>10. Given(1..(staged + 1)) = Given(1..staged) \cup spec.has
  <2>1. \A i : i \in 1..(staged + 1) <=> i \in 1..staged \/ i = staged + 1
    BY <1>2
  <2> QED
    BY <2>1 DEF Given
<1> HIDE DEF spec
<1>11. CASE RollsOver(spec)
  <2>1. /\ binding_lists' = Append(binding_lists, this_round_bindings)
        /\ current_provides' = current_provides \cup new_provides
        /\ new_provides' = spec.has /\ this_round_bindings' = <<k>>
    BY <1>3, <1>11 DEF Stage, spec
  <2>2. /\ binding_lists' \in Seq(Seq(1..N)) /\ Len(binding_lists') = n + 1
        /\ \A s \in 1..n : binding_lists'[s] = binding_lists[s]
        /\ binding_lists'[n + 1] = this_round_bindings /\ binding_lists' # <<>>
    BY <2>1, <1>8, <1>13, AppendProperties
  <2>3. \A s \in 1..n : (StageNames(s))' = StageNames(s)
    BY <2>2, <1>1 DEF StageNames
  <2>4. \A l \in 0..n : (NamesUpTo(l))' = NamesUpTo(l)
    <3> SUFFICES ASSUME NEW l \in 0..n PROVE (NamesUpTo(l))' = NamesUpTo(l)
      OBVIOUS
    <3>1. \A s \in 1..l : s \in 1..n
      BY <1>8
    <3> QED
      BY <3>1, <2>3 DEF NamesUpTo
  <2>5. ~NeedsWithin(staged + 1, c)
    BY <1>6, <1>11 DEF RollsOver, NeedsWithin, spec
  <2>6. PICK d \in B : /\ \A i \in (c + 1)..d : NeedsWithin(i, c)
                       /\ \A i \in (d + 1)..N : ~NeedsWithin(i, c)
    <3>1. \/ \E d \in B : /\ \A i \in (c + 1)..d : NeedsWithin(i, c)
                          /\ \A i \in (d + 1)..N : ~NeedsWithin(i, c)
          \/ \A i \in (c + 1)..finished_idx : NeedsWithin(i, c)
      BY <1>5, <1>6 DEF Rounds
    <3>2. finished_idx = N
      BY <1>1 DEF SortInv
    <3> QED
      BY <3>1, <3>2, <2>5, <1>7
  <2>7. d = staged \/ (d < staged /\ d <= c)
    <3>1. d \in 0..N
      BY <1>5
    <3>2. ~(staged + 1 <= d)
      BY <3>1, <2>5, <2>6, <1>7, <1>2
    <3>3. CASE d < staged /\ c < d
      <4>1. d + 1 \in (d + 1)..N /\ d + 1 \in (c + 1)..staged
        BY <3>1, <3>3, <1>2, <1>7
      <4> QED
        BY <4>1, <2>6, <1>6
    <3> QED
      BY <3>1, <3>2, <3>3, <1>2, <1>7
  <2>8. d = staged \/ c = staged
    <3>1. CASE d <= c /\ c < staged
      <4>1. c + 1 \in (c + 1)..staged /\ c + 1 \in (d + 1)..N
        BY <3>1, <1>2, <1>5, <1>7
      <4> QED
        BY <4>1, <2>6, <1>6
    <3> QED
      BY <3>1, <2>7, <1>6, <1>7, <1>2
  <2>9. staged \in B
    BY <2>8, <2>6
  <2>10. \A i \in (staged + 1)..N : ~NeedsWithin(i, c)
    <3>1. \A i \in (staged + 1)..N : i \in (d + 1)..N
      BY <2>7, <1>2, <1>5
    <3> QED
      BY <3>1, <2>6
  <2>11. current_provides' = Given(1..staged)
    <3>1. \A i \in 1..staged : items[i].has \subseteq current_provides \cup new_provides
      BY <1>1, StagedHave
    <3>2. Given(1..staged) \subseteq current_provides \cup new_provides
      BY <3>1 DEF Given
    <3>3. current_provides \subseteq Given(1..staged)
      BY <1>2, <1>6, <1>7, <1>9
    <3> QED
      BY <3>2, <3>3, <2>1, <1>8
  <2>12. (NamesUpTo(n))' = current_provides
    BY <2>4, <1>8
  <2>13. \A i \in (staged + 1)..N : ~(items[i].needs \subseteq (NamesUpTo(n))')
    BY <2>10, <2>12, <1>6 DEF NeedsWithin
  <2>14. (AtRound(B))'
    <3>1. m \in B /\ m <= m + 1 /\ current_provides' = (Given(1..m))'
      BY <2>9, <2>11, <1>2, <1>4, <1>14
    <3>2. (m + 1)..(m + 1) = {m + 1}
      BY <1>2, <1>14
    <3>3. spec.needs \subseteq Given(1..staged)
      <4>1. staged + 1 \in 1..finished_idx /\ (staged + 1) - 1 = staged
        BY <1>1, <1>2 DEF SortInv
      <4> QED
        BY <4>1 DEF SortInv, Permuted, EachFollowsWhatItNeeds, spec
    <3>4. NeedsWithin(m + 1, m)
      BY <3>3, <1>14 DEF NeedsWithin, spec
    <3>5. \A i \in (m + 1)..staged' : (NeedsWithin(i, m))'
      BY <3>2, <3>4, <1>1, <1>4, <1>14
    <3>6. (NamesUpTo(Len(binding_lists) - 1))' = (NamesUpTo(n))'
      <4>1. Len(binding_lists') - 1 = n
        BY <2>2, <1>8
      <4> QED
        BY <4>1 DEF NamesUpTo
    <3>7. binding_lists' # <<>> =>
            \A i \in (m + 1)..N' : ~(items'[i].needs \subseteq (NamesUpTo(Len(binding_lists) - 1))')
      BY <3>6, <2>13, <1>1, <1>2, <1>14
    <3> QED
      BY <3>1, <3>5, <3>7, <1>1, <1>14 DEF AtRound
  <2>15. \A j \in Range(this_round_bindings') : ~((Item(j))'.needs \subseteq (NamesUpTo(n))')
    <3>1. Range(this_round_bindings') = {k}
      BY <2>1 DEF Range
    <3>2. ~(spec.needs \subseteq (NamesUpTo(n))')
      BY <2>13, <1>2 DEF spec
    <3> QED
      BY <3>1, <3>2, <1>3, <1>4
  <2>16. new_provides' \subseteq (Given(1..staged))'
    <3>1. new_provides' \subseteq (Given(1..(m + 1)))'
      BY <2>1, <1>4, <1>10, <1>14
    <3> QED
      BY <3>1, <1>1, <1>14 DEF Given
  <2>17. NoneEarlier'
    <3> SUFFICES ASSUME NEW s \in 2..(n + 1), NEW j \in Range(binding_lists'[s])
                 PROVE  ~(Item(j).needs \subseteq (NamesUpTo(s - 2))')
      BY <2>2, <1>4 DEF NoneEarlier
    <3>1. s - 2 \in 0..n
      BY <1>8
    <3>2. CASE s \in 2..n
      <4>1. s \in 2..Len(binding_lists) /\ j \in Range(binding_lists[s])
        BY <3>2, <2>2, <1>8, <1>13
      <4>2. ~(Item(j).needs \subseteq NamesUpTo(s - 2))
        BY <4>1 DEF RoundInv, NoneEarlier
      <4> QED
        BY <4>2, <3>1, <2>4
    <3>3. CASE s = n + 1
      <4>1. s - 2 = n - 1 /\ n # 0
        BY <3>3, <1>8
      <4> QED
        BY <3>1, <3>3, <4>1, <2>2, <2>4, <1>8
    <3> QED
      BY <3>2, <3>3, <1>8
  <2>18. (NamesUpTo(Len(binding_lists) - 1))' = (NamesUpTo(n))'
    <3>1. Len(binding_lists') - 1 = n
      BY <2>2, <1>8
    <3> QED
      BY <3>1 DEF NamesUpTo
  <2>19. \E R \in SUBSET (0..N') : (Rounds(R))' /\ (AtRound(R))'
    BY <2>14, <1>2, <1>4, <1>5
  <2>20. \A j \in Range(this_round_bindings') :
           ~((Item(j))'.needs \subseteq (NamesUpTo(Len(binding_lists) - 1))')
    BY <2>15, <2>18
  <2> QED
    BY <2>16, <2>17, <2>19, <2>20, <1>1 DEF RoundInv
<1>12. CASE ~RollsOver(spec)
  <2>1. /\ new_provides' = new_provides \cup spec.has
        /\ this_round_bindings' = Append(this_round_bindings, k)
        /\ UNCHANGED <<binding_lists, current_provides>>
    BY <1>3, <1>12 DEF Stage, spec
  <2>2. NeedsWithin(staged + 1, c)
    BY <1>6, <1>12 DEF RollsOver, NeedsWithin, spec
  <2>3. \A u : (NamesUpTo(u))' = NamesUpTo(u)
    BY <2>1, <1>1 DEF NamesUpTo, StageNames
  <2>4. (AtRound(B))'
    <3>1. c <= staged + 1 /\ \A i \in (c + 1)..(staged + 1) : i \in (c + 1)..staged \/ i = staged + 1
      BY <1>2, <1>6, <1>7
    <3>2. \A i \in (c + 1)..(staged + 1) : (NeedsWithin(i, c))'
      BY <3>1, <2>2, <1>4, <1>6
    <3>3. current_provides' = (Given(1..c))'
      BY <2>1, <1>4, <1>6
    <3> QED
      BY <3>1, <3>2, <3>3, <2>1, <2>3, <1>1, <1>2, <1>6, <1>13 DEF AtRound
  <2>5. new_provides' \subseteq (Given(1..staged))'
    <3>1. new_provides' \subseteq (Given(1..(m + 1)))'
      BY <2>1, <1>4, <1>8, <1>10, <1>14
    <3> QED
      BY <3>1, <1>1, <1>14 DEF Given
  <2>6. Range(this_round_bindings') = Range(this_round_bindings) \cup {k}
    <3>1. Range(Append(this_round_bindings, k)) = Range(this_round_bindings) \cup {k}
      <4> DEFINE T == 1..N
      <4>1. this_round_bindings \in Seq(T) /\ k \in T
        BY <1>8
      <4> HIDE DEF T
      <4> QED
        BY <4>1, RangeOfAppend
    <3> QED
      BY <3>1, <2>1
  <2>7. binding_lists # <<>> => \A j \in Range(this_round_bindings') :
          ~(Item(j).needs \subseteq NamesUpTo(n - 1))
    BY <2>6, <1>2, <1>3, <1>6, <1>7, <1>8 DEF spec
  <2>8. NoneEarlier'
    BY <2>1, <2>3, <1>4 DEF RoundInv, NoneEarlier
  <2>9. \E R \in SUBSET (0..N') : (Rounds(R))' /\ (AtRound(R))'
    BY <2>4, <1>2, <1>4, <1>5
  <2>10. binding_lists' # <<>> => \A j \in Range(this_round_bindings') :
           ~((Item(j))'.needs \subseteq (NamesUpTo(Len(binding_lists) - 1))')
    BY <2>1, <2>3, <2>7, <1>4, <1>13
  <2> QED
    BY <2>5, <2>8, <2>9, <2>10, <1>1 DEF RoundInv
<1> QED
  BY <1>11, <1>12

\* The last stage ends.
LEMMA BuildKeepsRounds ==
  ASSUME SortInv, StageInv, RoundInv, Build
  PROVE  RoundInv'
<1>1. /\ phase = "stage" /\ phase' = "built"
      /\ UNCHANGED <<list, this_round_bindings>>
  BY DEF Build, sorting
<1>2. PICK n \in Nat : n = Len(binding_lists)
  <2>1. binding_lists \in Seq(Seq(1..N))
    BY DEF StageInv
  <2> QED
    BY <2>1
<1>3. this_round_bindings \in Seq(1..N) /\ binding_lists \in Seq(Seq(1..N))
  BY DEF StageInv
<1>4. \A j : (Item(j))' = Item(j)
  BY <1>1 DEF Item, possible
<1>5. NoneEarlier'
  <2>1. CASE this_round_bindings = <<>>
    <3>1. binding_lists' = binding_lists
      BY <2>1 DEF Build
    <3>2. \A m : (NamesUpTo(m))' = NamesUpTo(m)
      BY <3>1, <1>1 DEF NamesUpTo, StageNames
    <3> QED
      BY <3>1, <3>2, <1>4 DEF RoundInv, NoneEarlier
  <2>2. CASE this_round_bindings # <<>>
    <3>1. binding_lists' = Append(binding_lists, this_round_bindings)
      BY <2>2 DEF Build
    <3>2. /\ Len(binding_lists') = n + 1
          /\ \A s \in 1..n : binding_lists'[s] = binding_lists[s]
          /\ binding_lists'[n + 1] = this_round_bindings
      BY <3>1, <1>2, <1>3, AppendProperties
    <3>3. \A s \in 1..n : (StageNames(s))' = StageNames(s)
      BY <3>2, <1>1 DEF StageNames
    <3>4. \A l \in 0..n : (NamesUpTo(l))' = NamesUpTo(l)
      <4> SUFFICES ASSUME NEW l \in 0..n PROVE (NamesUpTo(l))' = NamesUpTo(l)
        OBVIOUS
      <4>1. \A s \in 1..l : s \in 1..n
        BY <1>2
      <4> QED
        BY <4>1, <3>3 DEF NamesUpTo
    <3>5. ASSUME NEW s \in 2..(n + 1), NEW j \in Range(binding_lists'[s])
          PROVE  ~(Item(j).needs \subseteq (NamesUpTo(s - 2))')
      <4>1. s - 2 \in 0..n
        BY <1>2
      <4>2. CASE s \in 2..n
        <5>1. s \in 2..Len(binding_lists) /\ j \in Range(binding_lists[s])
          BY <4>2, <3>2, <1>2
        <5>2. ~(Item(j).needs \subseteq NamesUpTo(s - 2))
          BY <5>1 DEF RoundInv, NoneEarlier
        <5> QED
          BY <5>2, <4>1, <3>4
      <4>3. CASE s = n + 1
        <5>1. s - 2 = n - 1 /\ binding_lists # <<>> /\ j \in Range(this_round_bindings)
          BY <4>3, <3>2, <1>2, <1>3
        <5>2. ~(Item(j).needs \subseteq NamesUpTo(s - 2))
          BY <5>1, <1>1, <1>2 DEF RoundInv
        <5> QED
          BY <5>2, <4>1, <3>4
      <4> QED
        BY <4>2, <4>3, <1>2
    <3> QED
      BY <3>2, <3>5, <1>4 DEF NoneEarlier
  <2> QED
    BY <2>1, <2>2
<1>6. output_let' = binding_lists'
  <2>1. output_let' = Wrapped(binding_lists')
    BY DEF Build
  <2>2. binding_lists' \in Seq(Seq(1..N))
    <3>1. CASE this_round_bindings = <<>>
      BY <3>1, <1>3 DEF Build
    <3>2. CASE this_round_bindings # <<>>
      <4>1. binding_lists' = Append(binding_lists, this_round_bindings)
        BY <3>2 DEF Build
      <4> QED
        BY <4>1, <1>3, AppendProperties
    <3> QED
      BY <3>1, <3>2
  <2> QED
    BY <2>1, <2>2, WrappedIsTheStack
<1> QED
  BY <1>1, <1>5, <1>6 DEF RoundInv

\* Every step.
LEMMA NextKeepsRounds == IInv /\ RoundInv /\ [Next]_vars => RoundInv'
<1> SUFFICES ASSUME SortInv, StageInv, RoundInv, [Next]_vars PROVE RoundInv'
  BY DEF IInv
<1>1. N \in Nat /\ Len(items) = N /\ finished_idx \in 0..N
  BY ItemsFacts DEF SortInv
\* While the sort goes on there are no stages, and the first begins in front.
<1>2. ASSUME phase = "sort", phase' \in {"sort", "deadlock", "stage"}, UNCHANGED <<list, staging>>,
             \E B \in SUBSET (0..N) : (Rounds(B))'
      PROVE  RoundInv'
  <2>1. /\ staged = 0 /\ binding_lists = <<>> /\ this_round_bindings = this_round_bindings'
        /\ staged' = 0 /\ binding_lists' = <<>> /\ UNCHANGED <<current_provides, new_provides, N>>
    BY <1>2 DEF StageInv, RoundInv, staging, N
  <2>2. current_provides = {} /\ new_provides = {}
    <3>1. current_provides = NamesUpTo(0)
      BY <2>1, <1>2 DEF StageInv
    <3>2. new_provides \subseteq Given(1..0)
      BY <2>1, <1>2 DEF RoundInv
    <3> QED
      BY <3>1, <3>2 DEF NamesUpTo, Given
  <2>3. PICK B \in SUBSET (0..N) : (Rounds(B))'
    BY <1>2
  <2>4. (AtRound(B))'
    <3>1. 0 \in B /\ (Given(1..0))' = {} /\ 1..0 = {} /\ (0 + 1)..0 = {}
      BY <2>3 DEF Rounds, Given
    <3> QED
      BY <3>1, <2>1, <2>2 DEF AtRound
  <2>5. NoneEarlier'
    BY <2>1 DEF NoneEarlier
  <2> QED
    BY <2>1, <2>2, <2>3, <2>4, <2>5, <1>2 DEF RoundInv
<1>3. ASSUME phase = "sort"
      PROVE  \E B \in SUBSET (0..N) : Rounds(B)
  BY <1>3 DEF RoundInv
<1>4. CASE FindReady
  <2>1. PICK B \in SUBSET (0..N) : Rounds(B)
    BY <1>3, <1>4 DEF FindReady
  <2>2. (Rounds(B \cup {finished_idx}))'
    BY <2>1, <1>4, FindReadyKeepsRounds
  <2>3. PICK c \in 0..N : c = finished_idx /\ finished_idx' = c
    BY <1>1, <1>4 DEF FindReady
  <2>4. (Rounds(B \cup {c}))'
    BY <2>2, <2>3 DEF Rounds
  <2> QED
    BY <2>3, <2>4, <1>2, <1>4 DEF FindReady
<1>5. CASE MoveToFront
  BY <1>2, <1>3, <1>5, MoveKeepsRounds DEF MoveToFront
<1>6. CASE Deadlock \/ Sorted
  <2>1. /\ phase = "sort" /\ phase' \in {"deadlock", "stage"}
        /\ UNCHANGED <<list, items, finished_idx, move_to_front, staging>>
    BY <1>6 DEF Deadlock, Sorted, sorting
  <2>2. \A B : (Rounds(B))' <=> Rounds(B)
    BY <2>1 DEF Rounds, NeedsWithin, Given, N
  <2> QED
    BY <2>1, <2>2, <1>2, <1>3
<1>7. CASE Stage
  BY <1>7, StageKeepsRounds
<1>8. CASE Build
  BY <1>8, BuildKeepsRounds
<1>9. CASE UNCHANGED vars
  <2>1. UNCHANGED <<list, items, finished_idx, move_to_front, phase, staged, current_provides,
                    new_provides, this_round_bindings, binding_lists, output_let>>
    BY <1>9 DEF vars, sorting, staging
  <2>2. /\ \A B : (Rounds(B))' <=> Rounds(B)
        /\ \A B : (AtRound(B))' <=> AtRound(B)
        /\ N' = N /\ \A j : (Item(j))' = Item(j)
        /\ \A m : (NamesUpTo(m))' = NamesUpTo(m)
        /\ \A places : (Given(places))' = Given(places)
    BY <2>1 DEF Rounds, AtRound, NeedsWithin, Given, N, Item, possible, NamesUpTo, StageNames
  <2>3. NoneEarlier'
    BY <2>1, <2>2 DEF RoundInv, NoneEarlier
  <2> QED
    BY <2>1, <2>2, <2>3 DEF RoundInv
<1> QED
  BY <1>4, <1>5, <1>6, <1>7, <1>8, <1>9 DEF Next

LEMMA InitRounds == Init => RoundInv
<1> SUFFICES ASSUME Init PROVE RoundInv
  OBVIOUS
<1>1. N \in Nat /\ 0 \in 0..N
  BY InitHolds, ItemsFacts DEF IInv
<1>2. /\ finished_idx = 0 /\ move_to_front = {} /\ staged = 0 /\ binding_lists = <<>>
      /\ current_provides = {} /\ new_provides = {} /\ phase = "sort"
  BY DEF Init
<1>3. Given(1..0) = {} /\ 1..0 = {} /\ (0 + 1)..0 = {}
  BY DEF Given
<1>4. Rounds({0})
  BY <1>2, <1>3 DEF Rounds
<1>5. AtRound({0})
  BY <1>2, <1>3 DEF AtRound
<1>6. NoneEarlier
  BY <1>2 DEF NoneEarlier
<1> QED
  BY <1>1, <1>2, <1>4, <1>5, <1>6 DEF RoundInv

\* A stage begins only where a binding needs the stage before, so that no
\* binding could go further out (codegen.rs hoist_assign_form,
\* "to get the best stack we can").  The sort goes in rounds, and what could
\* have gone in a round did, so that a stage ends where a round does.
THEOREM StacksBest == Spec => []BestStack
<1>1. Spec => []RoundInv
  BY InitRounds, Inductive, NextKeepsRounds, PTL DEF Spec
<1>2. IInv /\ RoundInv => BestStack
  <2> SUFFICES ASSUME IInv, RoundInv, phase = "built" PROVE BestStack
    BY DEF BestStack
  <2>1. output_let = binding_lists
    BY DEF RoundInv
  <2>2. ASSUME NEW s \in 2..Len(binding_lists), NEW k \in Range(binding_lists[s])
        PROVE  Item(k).needs \cap StageNames(s - 1) # {}
    <3>1. Len(binding_lists) \in Nat
      BY DEF IInv, StageInv
    <3>2. Item(k).needs \subseteq NamesUpTo(s - 1)
      BY <3>1 DEF IInv, StageInv
    <3>3. PICK m \in 0..Len(binding_lists) : s - 2 = m /\ s - 1 = m + 1
      BY <3>1
    <3>4. NamesUpTo(m + 1) = NamesUpTo(m) \cup StageNames(m + 1)
      <4>1. 1..(m + 1) = 1..m \cup {m + 1}
        BY <3>3
      <4> QED
        BY <4>1 DEF NamesUpTo
    <3>5. ~(Item(k).needs \subseteq NamesUpTo(m))
      BY <3>3 DEF RoundInv, NoneEarlier
    <3> QED
      BY <3>2, <3>3, <3>4, <3>5
  <2> QED
    BY <2>1, <2>2 DEF BestStack
<1> QED
  BY <1>1, <1>2, Inductive, PTL
=============================================================================
