------------------------------- MODULE PlanSeq -------------------------------
(***************************************************************************)
(* What the plans:* handlers promise to the regie: a service plan is a     *)
(* sequence of items.  An item belongs to one plan, new items go to the    *)
(* end, a removal keeps the order of the others and only a reorder moves   *)
(* items.  Plans implements this with rows and an order column.            *)
(***************************************************************************)
EXTENDS Naturals, Sequences, Functions

CONSTANTS PlanIds, ItemIds, NoPlan

VARIABLE seqs   \* seqs[p]: the items of plan p in order, NoPlan before it exists

Existing == {p \in PlanIds : seqs[p] # NoPlan}

UsedItems == UNION {Range(seqs[p]) : p \in Existing}

Init == seqs = [p \in PlanIds |-> NoPlan]

OnlyPlan(p) == \A q \in PlanIds \ {p} : seqs'[q] = seqs[q]

\* A new plan, empty or with copies of the items of another plan.
Create(p) ==
    /\ p \notin Existing
    /\ seqs'[p] # NoPlan
    /\ IsInjective(seqs'[p])
    /\ Range(seqs'[p]) \cap UsedItems = {}
    /\ OnlyPlan(p)

Add(p) ==
    /\ p \in Existing
    /\ \E i \in ItemIds \ UsedItems : seqs' = [seqs EXCEPT ![p] = Append(@, i)]

\* The items that stay keep their order: at tells where each of them was.
Remove(p) ==
    /\ p \in Existing
    /\ \E at \in [DOMAIN seqs'[p] -> DOMAIN seqs[p]] :
         /\ \A m, n \in DOMAIN seqs'[p] : m < n => at[m] < at[n]
         /\ seqs'[p] = [n \in DOMAIN seqs'[p] |-> seqs[p][at[n]]]
    /\ OnlyPlan(p)

Reorder(p) ==
    /\ p \in Existing
    /\ Len(seqs'[p]) = Len(seqs[p])
    /\ Range(seqs'[p]) = Range(seqs[p])
    /\ OnlyPlan(p)

Next ==
    \E p \in PlanIds :
        /\ seqs'[p] # seqs[p]
        /\ Create(p) \/ Add(p) \/ Remove(p) \/ Reorder(p)

Spec == Init /\ [][Next]_seqs
=============================================================================
