------------------------------ MODULE TopoSort ------------------------------
(***************************************************************************)
(* The bindings of an assign form are put into an order in which each      *)
(* follows the ones it reads (util/mod.rs toposort, called by codegen.rs   *)
(* toposort_assign_bindings), and then broken up into stages that become   *)
(* a stack of parallel lets (codegen.rs hoist_assign_form).                *)
(***************************************************************************)
EXTENDS Integers, FiniteSets, Sequences, SequencesExt

CONSTANTS
  Names,      \* the names bindings give and mention
  Forms       \* the assign forms: sequences of [mentions, has]

\* make_provides_set collects what a binding's body mentions and what its
\* pattern names.  A form without bindings is its body (frontend.rs
\* handle_assign_form) and does not come here.
ASSUME FormsAssumption ==
  Forms \subseteq Seq([mentions : SUBSET Names, has : SUBSET Names]) \ {<<>>}

VARIABLES
  list,              \* the bindings as written
  items,             \* TopoSortItems
  finished_idx,      \* how many of them are in place
  done,              \* the names those have
  move_to_front,     \* the places still to go through in this round, in ascending order
  phase,             \* "sort", "deadlock", "stage" or "built"
  staged,            \* how many items hoist_assign_form has gone over
  current_provides, new_provides, this_round_bindings, binding_lists,
  output_let         \* the lets, the outermost first

sorting == <<list, items, finished_idx, done, move_to_front>>
staging == <<staged, current_provides, new_provides, this_round_bindings, binding_lists, output_let>>
vars == <<sorting, phase, staging>>

possible == UNION {list[k].has : k \in DOMAIN list}

\* Fault: items are numbered from zero.
Item_FromZero(k) == [index |-> k - 1, needs |-> list[k].mentions \cap possible, has |-> list[k].has]

\* The needs callback keeps what some binding gives.
Item(k) == [index |-> k, needs |-> list[k].mentions \cap possible, has |-> list[k].has]

Init ==
  /\ list \in Forms
  /\ items = [k \in DOMAIN list |-> Item(k)]
  /\ finished_idx = 0 /\ done = {} /\ move_to_front = {}
  /\ phase = "sort"
  /\ staged = 0 /\ current_provides = {} /\ new_provides = {}
  /\ this_round_bindings = <<>> /\ binding_lists = <<>> /\ output_let = <<>>

(***************************************************************************)
(* The sort.                                                               *)
(***************************************************************************)
\* Fault: what is given by a binding itself counts as given before it.
Ready_OwnCounts == {i \in (finished_idx + 1)..Len(items) : items[i].needs \subseteq done \cup items[i].has}

\* Places of the items with no new dependencies.
Ready == {i \in (finished_idx + 1)..Len(items) : items[i].needs \subseteq done}

FindReady ==
  /\ phase = "sort" /\ move_to_front = {} /\ finished_idx < Len(items)
  /\ Ready # {}
  /\ move_to_front' = Ready
  /\ UNCHANGED <<list, items, finished_idx, done, phase, staging>>

\* Circular dependency somewhere.
Deadlock ==
  /\ phase = "sort" /\ move_to_front = {} /\ finished_idx < Len(items)
  /\ Ready = {}
  /\ phase' = "deadlock"
  /\ UNCHANGED <<sorting, staging>>

\* Fault: the item moved overwrites the one whose place it takes.
Swapped_Overwrites(s, i, j) == [s EXCEPT ![i] = s[j]]

Swapped(s, i, j) == [s EXCEPT ![i] = s[j], ![j] = s[i]]

MoveToFront ==
  /\ phase = "sort"
  /\ \E idx \in move_to_front :
       /\ \A j \in move_to_front : idx <= j
       /\ items' = Swapped(items, finished_idx + 1, idx)
       /\ done' = (done \cup items[idx].has) \cap possible
       /\ finished_idx' = finished_idx + 1
       /\ move_to_front' = move_to_front \ {idx}
  /\ UNCHANGED <<list, phase, staging>>

Sorted ==
  /\ phase = "sort" /\ move_to_front = {} /\ finished_idx = Len(items)
  /\ phase' = "stage"
  /\ UNCHANGED <<sorting, staging>>

(***************************************************************************)
(* The stages.                                                             *)
(***************************************************************************)
\* Fault: a stage ends whenever a binding needs anything at all.
RollsOver_Always(spec) == spec.needs # {}

\* The item needs what the stages finished so far do not provide.
RollsOver(spec) == spec.needs \ current_provides # {}

Stage ==
  /\ phase = "stage" /\ staged < Len(items)
  /\ LET spec == items[staged + 1]
     IN \/ /\ RollsOver(spec)
           /\ binding_lists' = Append(binding_lists, this_round_bindings)
           /\ current_provides' = current_provides \cup new_provides
           /\ new_provides' = spec.has
           /\ this_round_bindings' = <<spec.index>>
        \/ /\ ~RollsOver(spec)
           /\ new_provides' = new_provides \cup spec.has
           /\ this_round_bindings' = Append(this_round_bindings, spec.index)
           /\ UNCHANGED <<binding_lists, current_provides>>
  /\ staged' = staged + 1
  /\ UNCHANGED <<sorting, phase, output_let>>

\* The last stage is the innermost let, and each one before it goes around:
\* the lets around the body from the m-th stage from the end on.
Wrapped(lists) ==
  LET around[m \in 0..Len(lists)] ==
        IF m = 0 THEN <<>> ELSE <<lists[Len(lists) - m + 1]>> \o around[m - 1]
  IN around[Len(lists)]

Build ==
  /\ phase = "stage" /\ staged = Len(items)
  /\ LET lists == IF this_round_bindings = <<>> THEN binding_lists
                  ELSE Append(binding_lists, this_round_bindings)
     IN /\ binding_lists' = lists
        /\ output_let' = Wrapped(lists)
  /\ phase' = "built"
  /\ UNCHANGED <<sorting, staged, current_provides, new_provides, this_round_bindings>>

Next == FindReady \/ Deadlock \/ MoveToFront \/ Sorted \/ Stage \/ Build

Spec == Init /\ [][Next]_vars

(***************************************************************************)
(* Properties                                                              *)
(***************************************************************************)
Binding == [index : Nat, needs : SUBSET Names, has : SUBSET Names]

\* The types of all states.
TypeOK ==
  /\ list \in Forms
  /\ items \in Seq(Binding) /\ Len(items) = Len(list)
  /\ finished_idx \in 0..Len(list)
  /\ done \subseteq possible
  /\ move_to_front \subseteq 1..Len(list)
  /\ phase \in {"sort", "deadlock", "stage", "built"}
  /\ staged \in 0..Len(list)
  /\ current_provides \subseteq possible /\ new_provides \subseteq possible
  /\ this_round_bindings \in Seq(1..Len(list))
  /\ binding_lists \in Seq(Seq(1..Len(list)))

Given(places) == UNION {items[i].has : i \in places}

\* Swapping items about loses none and doubles none, and each one in place
\* needs only what the ones before it have (util/mod.rs toposort).
EachFollowsWhatItNeeds ==
  /\ \A i \in DOMAIN items : items[i] = Item(items[i].index)
  /\ \A i, j \in DOMAIN items : items[i].index = items[j].index => i = j
  /\ \A k \in DOMAIN list : \E i \in DOMAIN items : items[i].index = k
  /\ \A i \in 1..finished_idx : items[i].needs \subseteq Given(1..(i - 1))

\* Bindings that need each other round in a circle: none of them can be first.
Circular ==
  \E S \in (SUBSET DOMAIN list) \ {{}} :
    \A k \in S : \E n \in Item(k).needs : \A j \in DOMAIN list : n \in list[j].has => j \in S

\* A form is refused exactly when its bindings are circular (the error of
\* codegen.rs toposort_assign_bindings says so).
OnlyCirclesDeadlock ==
  /\ phase = "deadlock" => Circular
  /\ phase \in {"stage", "built"} => ~Circular

StageNames(s) == UNION {list[k].has : k \in Range(binding_lists[s])}
NamesUpTo(n) == UNION {StageNames(s) : s \in 1..n}

\* No binding is left out of the stages, and what it needs is provided by the
\* stages around its own (codegen.rs hoist_assign_form).
StagesProvide ==
  phase = "built" =>
    /\ \A k \in DOMAIN list : \E s \in DOMAIN binding_lists : k \in Range(binding_lists[s])
    /\ \A s \in DOMAIN binding_lists : \A k \in Range(binding_lists[s]) :
         Item(k).needs \subseteq NamesUpTo(s - 1)

\* A stage begins only where a binding needs the stage before: hoist_assign_form
\* spills parallel sets "to get the best stack we can".
BestStack ==
  phase = "built" =>
    /\ output_let = binding_lists
    /\ \A s \in 2..Len(binding_lists) : \A k \in Range(binding_lists[s]) :
         Item(k).needs \cap StageNames(s - 1) # {}
=============================================================================
