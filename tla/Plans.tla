-------------------------------- MODULE Plans --------------------------------
(***************************************************************************)
(* The service plans of the desktop application: the plans:* handlers of   *)
(* main/ipc/plans.ts over the SQLite tables ServicePlan and ServiceItem    *)
(* with their two unique indexes, (date) and (planId, order).              *)
(*                                                                         *)
(* A SQLite transaction is serializable, so a $transaction and a single    *)
(* Prisma call are one step each.  A handler that awaits more than one of  *)
(* them is a job: what it read at its first step is kept in job[h] and may *)
(* be stale when its next step runs, because other handlers run between    *)
(* two awaits.  A handler that throws changes nothing in the step where it *)
(* throws and ends.  Titles, contents, notes and backgrounds are one       *)
(* payload.                                                                *)
(***************************************************************************)
EXTENDS Integers, FiniteSets, Functions

CONSTANTS
    PlanIds, ItemIds,   \* identifiers of the rows
    Payloads,           \* the text of a plan or of an item
    Handlers,           \* IPC calls that may be in flight together
    AskedDates,         \* the days a plan is asked for
    MaxTries,           \* 3660 in the code: dates tried before giving up
    MaxImport,          \* bound: lines of an imported program
    MayFail,            \* whether a database call may reject
    None                \* no row

VARIABLES
    plans,              \* the table ServicePlan
    items,              \* the table ServiceItem
    job                 \* the handlers in flight

vars == <<plans, items, job>>

\* A row remembers the day it was asked for, which the table does not store.
PlanRow == [date : Nat, deleted : BOOLEAN, title : Payloads, asked : Nat]

ItemRow == [plan : PlanIds, order : Nat \ {0}, payload : Payloads]

Requests == UNION {[1..n -> ItemIds] : n \in 0..Cardinality(ItemIds)}

ASSUME PlansAssumption ==
    /\ IsFiniteSet(PlanIds) /\ IsFiniteSet(ItemIds)
    /\ None \notin PlanRow /\ None \notin ItemRow /\ None \notin Requests
    /\ AskedDates \subseteq Nat
    /\ MaxTries \in Nat \ {0}
    /\ MaxImport \in Nat
    /\ MayFail \in BOOLEAN

Job == [kind : {"idle"}]
       \cup [kind : {"create"}, asked : Nat, tries : Nat, title : Payloads,
             copy : SUBSET [order : Nat \ {0}, payload : Payloads]]
       \cup [kind : {"updateItem"}, item : ItemIds, payload : Payloads]
       \cup [kind : {"removeItem"}, item : ItemIds, plan : PlanIds]
       \cup [kind : {"reorder"}, plan : PlanIds, ids : Requests]
       \cup [kind : {"import"}, plan : PlanIds, left : Nat, payload : Payloads]

Idle == [kind |-> "idle"]

Rows(table) == {r \in DOMAIN table : table[r] # None}

ItemsOf(p) == {i \in Rows(items) : items[i].plan = p}

\* Row identifiers are never reused (cuid): a new row gets one that no row and
\* no call in flight holds.
FreshItems ==
    {i \in ItemIds \ Rows(items) : \A h \in Handlers :
        /\ job[h].kind \in {"updateItem", "removeItem"} => job[h].item # i
        /\ job[h].kind = "reorder" => i \notin Range(job[h].ids)}

Init ==
    /\ plans = [p \in PlanIds |-> None]
    /\ items = [i \in ItemIds |-> None]
    /\ job = [h \in Handlers |-> Idle]

Begin(h, j) == job[h] = Idle /\ job' = [job EXCEPT ![h] = j]

End(h) == job' = [job EXCEPT ![h] = Idle]

-----------------------------------------------------------------------------
(* Plans *)

plansCreate(h, date, title) ==
    /\ Begin(h, [kind |-> "create", asked |-> date, tries |-> 0, title |-> title,
                 copy |-> {}])
    /\ UNCHANGED <<plans, items>>

\* The base plan is read once, items included; a soft-deleted base is accepted.
\* Without a requested date the copy is asked for the date of its base.
plansDuplicate(h, p, date) ==
    /\ p \in Rows(plans)
    /\ date \in AskedDates \cup {plans[p].date}
    /\ Begin(h, [kind |-> "create", asked |-> date, tries |-> 0,
                 title |-> plans[p].title,
                 copy |-> {[order |-> items[i].order, payload |-> items[i].payload]
                             : i \in ItemsOf(p)}])
    /\ UNCHANGED <<plans, items>>

\* The rows that a duplicated plan p gets, with fresh identifiers.
CopiedItems(p, copy) ==
    {[i \in ItemIds |-> IF i \in Range(f)
                        THEN [plan |-> p, order |-> AntiFunction(f)[i].order,
                              payload |-> AntiFunction(f)[i].payload]
                        ELSE items[i]]
        : f \in {g \in [copy -> FreshItems] : IsInjective(g)}}

\* The unique index on the date also covers the soft-deleted plans.
DateTaken(date) == \E q \in Rows(plans) : plans[q].date = date

createAttempt_SkipTwo(h) ==
    LET date == job[h].asked + 2 * job[h].tries
    IN  /\ job[h].kind = "create"
        /\ IF DateTaken(date)
           THEN /\ IF job[h].tries + 1 = MaxTries
                   THEN End(h)
                   ELSE job' = [job EXCEPT ![h].tries = @ + 1]
                /\ UNCHANGED <<plans, items>>
           ELSE \E p \in PlanIds \ Rows(plans) :
                  /\ plans' = [plans EXCEPT ![p] =
                                 [date |-> date, deleted |-> FALSE,
                                  title |-> job[h].title, asked |-> job[h].asked]]
                  /\ items' \in CopiedItems(p, job[h].copy)
                  /\ End(h)

\* One attempt of the loops of plans:create and duplicatePlanWithRetry: P2002
\* moves the candidate to the next day, until the attempts run out.
createAttempt(h) ==
    LET date == job[h].asked + job[h].tries
    IN  /\ job[h].kind = "create"
        /\ IF DateTaken(date)
           THEN /\ IF job[h].tries + 1 = MaxTries
                   THEN End(h)
                   ELSE job' = [job EXCEPT ![h].tries = @ + 1]
                /\ UNCHANGED <<plans, items>>
           ELSE \E p \in PlanIds \ Rows(plans) :
                  /\ plans' = [plans EXCEPT ![p] =
                                 [date |-> date, deleted |-> FALSE,
                                  title |-> job[h].title, asked |-> job[h].asked]]
                  /\ items' \in CopiedItems(p, job[h].copy)
                  /\ End(h)

plansUpdate(p, title) ==
    /\ p \in Rows(plans)
    /\ plans' = [plans EXCEPT ![p].title = title]
    /\ UNCHANGED <<items, job>>

\* A soft delete: the row, its date and its items stay.
plansDelete(p) ==
    /\ p \in Rows(plans)
    /\ plans' = [plans EXCEPT ![p].deleted = TRUE]
    /\ UNCHANGED <<items, job>>

-----------------------------------------------------------------------------
(* Items *)

LastOrder(p) == CHOOSE n \in {0} \cup {items[i].order : i \in ItemsOf(p)} :
                    \A i \in ItemsOf(p) : items[i].order <= n

\* The new row of createPlanItemWithRetry; the foreign key asks for the plan.
\* In one serializable transaction the last order cannot be stale, so the
\* retries on P2002 never happen.
createPlanItem(p, payload) ==
    /\ p \in Rows(plans)
    /\ \E i \in FreshItems :
         items' = [items EXCEPT ![i] = [plan |-> p, order |-> LastOrder(p) + 1,
                                        payload |-> payload]]

plansAddItem(p, payload) == createPlanItem(p, payload) /\ UNCHANGED <<plans, job>>

\* updateItem and removeItem check the owner first, and write later.
plansUpdateItem(h, p, i, payload) ==
    /\ i \in ItemsOf(p)
    /\ Begin(h, [kind |-> "updateItem", item |-> i, payload |-> payload])
    /\ UNCHANGED <<plans, items>>

updateItemWrite(h) ==
    /\ job[h].kind = "updateItem"
    /\ items' = IF job[h].item \in Rows(items)
                THEN [items EXCEPT ![job[h].item].payload = job[h].payload]
                ELSE items
    /\ End(h)
    /\ UNCHANGED plans

plansRemoveItem(h, p, i) ==
    /\ i \in ItemsOf(p)
    /\ Begin(h, [kind |-> "removeItem", item |-> i, plan |-> p])
    /\ UNCHANGED <<plans, items>>

Without_NoRenumber(gone, p) == [i \in ItemIds |-> IF i \in gone THEN None ELSE items[i]]

Without_Descending(gone, p) ==
    LET rest == ItemsOf(p) \ gone
    IN  [i \in ItemIds |->
            CASE i \in gone -> None
              [] i \in rest -> [items[i] EXCEPT !.order =
                    Cardinality({j \in rest : items[j].order >= items[i].order})]
              [] OTHER -> items[i]]

\* The items once the rows of gone are deleted and the rest of plan p numbered
\* 1, 2, ... by ascending order.  Updated in that order, no row ever takes a
\* number that another row still has, so the unique index never objects.
Without(gone, p) ==
    LET rest == ItemsOf(p) \ gone
    IN  [i \in ItemIds |->
            CASE i \in gone -> None
              [] i \in rest -> [items[i] EXCEPT !.order =
                    Cardinality({j \in rest : items[j].order <= items[i].order})]
              [] OTHER -> items[i]]

removeItemWrite(h) ==
    /\ job[h].kind = "removeItem"
    /\ items' = Without({job[h].item}, job[h].plan)
    /\ End(h)
    /\ UNCHANGED plans

\* Identifiers that are gone already are ignored; one of another plan aborts.
plansRemoveItems(p, gone) ==
    /\ gone # {}
    /\ gone \cap Rows(items) \subseteq ItemsOf(p)
    /\ items' = Without(gone, p)
    /\ UNCHANGED <<plans, job>>

validatePlanReorderPayload(current, ids) ==
    /\ Cardinality(DOMAIN ids) = Cardinality(current)
    /\ IsInjective(ids)
    /\ Range(ids) \subseteq current

plansReorder(h, p, ids) ==
    /\ validatePlanReorderPayload(ItemsOf(p), ids)
    /\ Begin(h, [kind |-> "reorder", plan |-> p, ids |-> ids])
    /\ UNCHANGED <<plans, items>>

\* The updates run in the order of the request.  The unique index is checked at
\* each of them: the n-th fails if a row of the plan that the request has not
\* reached yet holds the number n.  One failed update, or one row that is gone,
\* undoes them all.
ReorderAccepted(p, ids) ==
    /\ Range(ids) \subseteq Rows(items)
    /\ \A n \in DOMAIN ids, i \in ItemsOf(p) :
            items[i].order = n => \E m \in 1..n : ids[m] = i

reorderWrite(h) ==
    LET ids == job[h].ids
    IN  /\ job[h].kind = "reorder"
        /\ items' = IF ReorderAccepted(job[h].plan, ids)
                    THEN [i \in ItemIds |->
                            IF i \in Range(ids)
                            THEN [items[i] EXCEPT !.order = AntiFunction(ids)[i]]
                            ELSE items[i]]
                    ELSE items
        /\ End(h)
        /\ UNCHANGED plans

plansImportFromFile(h, p, lines, payload) ==
    /\ p \in Rows(plans)
    /\ Begin(h, [kind |-> "import", plan |-> p, left |-> lines, payload |-> payload])
    /\ UNCHANGED <<plans, items>>

\* One line of the imported program per step; the rows already added stay.
importLine(h) ==
    /\ job[h].kind = "import"
    /\ IF job[h].left = 0
       THEN End(h) /\ UNCHANGED items
       ELSE /\ createPlanItem(job[h].plan, job[h].payload)
            /\ job' = [job EXCEPT ![h].left = @ - 1]
    /\ UNCHANGED plans

\* A Prisma call of the handler rejects (a busy or full database): its
\* transaction is rolled back and the handler throws.
callFails(h) ==
    /\ MayFail
    /\ job[h] # Idle
    /\ End(h)
    /\ UNCHANGED <<plans, items>>

\* A bound of the model, not of the code: the identifiers are used up.
outOfIds(h) ==
    /\ \/ /\ job[h].kind = "create"
          /\ \/ PlanIds \subseteq Rows(plans)
             \/ Cardinality(FreshItems) < Cardinality(job[h].copy)
       \/ job[h].kind = "import" /\ FreshItems = {}
    /\ End(h)
    /\ UNCHANGED <<plans, items>>

-----------------------------------------------------------------------------
JobStep(h) ==
    \/ createAttempt(h)
    \/ updateItemWrite(h)
    \/ removeItemWrite(h)
    \/ reorderWrite(h)
    \/ importLine(h)
    \/ outOfIds(h)

Request(h) ==
    \/ \E d \in AskedDates, t \in Payloads : plansCreate(h, d, t)
    \/ \E p \in PlanIds, d \in AskedDates \cup {plans[q].date : q \in Rows(plans)} :
            plansDuplicate(h, p, d)
    \/ \E p \in PlanIds, i \in ItemIds, v \in Payloads : plansUpdateItem(h, p, i, v)
    \/ \E p \in PlanIds, i \in ItemIds : plansRemoveItem(h, p, i)
    \/ \E p \in PlanIds, ids \in Requests : plansReorder(h, p, ids)
    \/ \E p \in PlanIds, n \in 1..MaxImport, v \in Payloads :
            plansImportFromFile(h, p, n, v)

Direct ==
    \/ \E p \in PlanIds, t \in Payloads : plansUpdate(p, t)
    \/ \E p \in PlanIds : plansDelete(p)
    \/ \E p \in PlanIds, v \in Payloads : plansAddItem(p, v)
    \/ \E p \in PlanIds, gone \in SUBSET ItemIds : plansRemoveItems(p, gone)

Next ==
    \/ \E h \in Handlers : JobStep(h) \/ callFails(h) \/ Request(h)
    \/ Direct

\* An async handler whose awaits settle runs to its end.
Fairness == \A h \in Handlers : WF_vars(JobStep(h))

Spec == Init /\ [][Next]_vars /\ Fairness

-----------------------------------------------------------------------------
(* Properties *)

\* The tables and the handlers in flight have their types.
TypeOK ==
    /\ plans \in [PlanIds -> PlanRow \cup {None}]
    /\ items \in [ItemIds -> ItemRow \cup {None}]
    /\ job \in [Handlers -> Job]

\* The items of a plan are numbered 1 to n without a gap or a repetition, after
\* any interleaving of adds, imports, duplications, removals decided on a stale
\* read and reorders validated against a list that has changed since.
OrdersContiguous ==
    \A p \in PlanIds :
        {items[i].order : i \in ItemsOf(p)} = 1..Cardinality(ItemsOf(p))

\* A plan lands on the first day, from the one it was asked for, that no other
\* plan holds, although plans:create and plans:duplicate probe one day at a
\* time and other calls create plans between two probes.
FirstFreeDate ==
    \A p \in Rows(plans) :
        /\ plans[p].date >= plans[p].asked
        /\ \A d \in plans[p].asked..(plans[p].date - 1) : DateTaken(d)
        /\ \A q \in Rows(plans) : plans[q].date = plans[p].date => q = p

\* The items of plan p by ascending order, which OrdersContiguous numbers.
Sequence(p) ==
    [n \in 1..Cardinality(ItemsOf(p)) |-> CHOOSE i \in ItemsOf(p) : items[i].order = n]

Abstract ==
    INSTANCE PlanSeq WITH NoPlan <- None,
        seqs <- [p \in PlanIds |-> IF p \in Rows(plans) THEN Sequence(p) ELSE None]

\* The rows and their order column implement plans that are sequences: whatever
\* calls are in flight, one step adds one item at the end, removes items without
\* moving the others, permutes one plan or creates one, and an item that a call
\* decided on with a stale list never changes plan.
ImplementsPlanSeq == Abstract!Spec

\* A reorder request that was validated and whose plan has not changed since
\* gives the items the order that was asked for (drag and drop in the plan).
ReorderTakesEffect ==
    [][\A h \in Handlers :
          (/\ job[h].kind = "reorder" /\ job'[h] = Idle
           /\ Range(job[h].ids) = ItemsOf(job[h].plan))
          => \A n \in DOMAIN job[h].ids : items'[job[h].ids[n]].order = n]_vars
=============================================================================
