----------------------------- MODULE PlanContext -----------------------------
(***************************************************************************)
(* The plan that the regie shows and edits (renderer/src/contexts/         *)
(* PlanContext.tsx with its users: the plan editor, its toolbar and        *)
(* dialogs, the panels that add songs, verses and media to the plan).      *)
(*                                                                         *)
(* An operation of the regie is a chain of calls to the main process, each *)
(* sent when the one before is answered; the user starts other operations  *)
(* meanwhile.  A chain keeps the selectedPlanId of the render in which it  *)
(* began.  plans:get and plans:list are read in the main process at one    *)
(* moment (served) and applied in the regie at a later one (answered); the *)
(* answer of a call that changes the database is applied when it is        *)
(* served, since nothing else depends on the time between the two.         *)
(* An item is an identifier and a value that stands for all its fields; the *)
(* items of a plan stay in the order of their identifiers.                 *)
(* The drag handle is never rendered (the cards always get a check box),   *)
(* so that plans:reorder is out of the user's reach and left out.          *)
(***************************************************************************)
EXTENDS Naturals, Sequences, FiniteSets, SequencesExt

CONSTANTS
    AllPlans,    \* identifiers of plans; the database begins with 1 and 2
    Values,      \* what the fields of a plan or of an item may hold
    NoPlan,      \* null
    Unasked,     \* the snapshot of a read that the main process has not served
    Chains,      \* the operations that can be under way together
    MaxEdits,    \* bound on the operations of the user
    MaxFailures  \* bound on the calls that are rejected

\* The fields of a plan begin with 0.
Value == Values \cup {0}

PlanRecord ==
    [id : AllPlans, title : Value, background : Value, items : SUBSET [id : Nat, v : Value]]

ASSUME PlanAssumption ==
    /\ AllPlans \subseteq Nat \ {0}
    /\ {1, 2} \subseteq AllPlans
    /\ 1 \in Chains
    /\ NoPlan \notin AllPlans \cup PlanRecord

VARIABLES
    stored,          \* the plans of the database, the deleted ones included
    deleted,         \* those that have a date of deletion
    nextPlan,        \* the next plan identifier
    nextItem,        \* the next item identifier
    planList,        \* the plans of the header and of the dashboard
    selectedPlanId,
    plan,            \* the plan that is shown
    loadingPlan,     \* the spinner in place of the items
    selectedItemIds, \* the check boxes of the plan editor
    chain,           \* the operations under way
    edits, failures, \* how many operations were begun and calls rejected
    calm             \* history: see ShownIsStored

planVars == <<stored, deleted, nextPlan, nextItem, planList, selectedPlanId, plan, loadingPlan,
              selectedItemIds, chain, edits, failures, calm>>

Idle == [todo |-> <<>>]

Busy == {c \in Chains : chain[c].todo # <<>>}

\* A call of a chain: the channel of the main process and its payload.
call(channel, arg) == [channel |-> channel, arg |-> arg]

get == call("get", 0)

list == call("list", 0)

newChain(op, p, todo) ==
    [op |-> op, planId |-> p, todo |-> todo, snap |-> Unasked, alone |-> Busy = {}]

item(id, v) == [id |-> id, v |-> v]

ids(p) == {it.id : it \in p.items}

newPlan(p, items) == [id |-> p, title |-> 0, background |-> 0, items |-> items]

PlanInit ==
    /\ stored = [p \in AllPlans |->
                   IF p = 1 THEN newPlan(1, {item(1, 0), item(2, 0)})
                   ELSE IF p = 2 THEN newPlan(2, {item(3, 0)}) ELSE NoPlan]
    /\ deleted = {}
    /\ nextPlan = 3 /\ nextItem = 4
    /\ planList = {}
    /\ selectedPlanId = NoPlan /\ plan = NoPlan
    /\ loadingPlan = FALSE
    /\ selectedItemIds = {}
    /\ chain = [c \in Chains |->
                  IF c = 1 THEN [op |-> "mount", planId |-> NoPlan, todo |-> <<list>>,
                                 snap |-> Unasked, alone |-> TRUE]
                  ELSE Idle]
    /\ edits = 0 /\ failures = 0
    /\ calm = [plan |-> TRUE, list |-> TRUE]

-----------------------------------------------------------------------------
(***************************************************************************)
(* The operations of the user.                                             *)
(***************************************************************************)
Disturbed(others) == [d \in Chains |-> IF d \in others /\ d \in Busy
                                       THEN [chain[d] EXCEPT !.alone = FALSE] ELSE chain[d]]

\* The slots are interchangeable: the first free one is used.
BeginFor(p, c, op, todo) ==
    /\ c \notin Busy /\ 1..(c - 1) \subseteq Busy
    /\ edits' = edits + 1
    /\ chain' = [Disturbed(Chains \ {c}) EXCEPT ![c] = newChain(op, p, todo)]
    /\ UNCHANGED <<stored, deleted, nextPlan, nextItem, planList, failures, calm>>

Begin(c, op, todo) == BeginFor(selectedPlanId, c, op, todo)

Quietly == UNCHANGED <<selectedPlanId, plan, loadingPlan, selectedItemIds>>

\* The buttons of the cards need the cards, which the spinner replaces.
CardsShown == plan # NoPlan /\ ~loadingPlan

selectPlan(c, p) ==
    /\ p \in planList /\ p # selectedPlanId
    /\ BeginFor(p, c, "select", <<get>>)
    /\ selectedPlanId' = p
    /\ loadingPlan' = TRUE
    /\ UNCHANGED <<plan, selectedItemIds>>

addItem(c, v) ==
    /\ selectedPlanId # NoPlan
    /\ Begin(c, "add", <<call("add", <<v>>), get>>)
    /\ Quietly

duplicateItem(c) ==
    /\ CardsShown /\ selectedPlanId # NoPlan
    /\ \E it \in plan.items : Begin(c, "add", <<call("add", <<it.v>>), get>>)
    /\ Quietly

\* The blocks of a song: each is an addItem, with its own refresh.
handleAddAll(c, v, w) ==
    /\ selectedPlanId # NoPlan
    /\ Begin(c, "add", <<call("add", <<v>>), get, call("add", <<w>>), get>>)
    /\ Quietly

\* The items of a template: one refresh at the end.
handleApply(c, v, w) ==
    /\ selectedPlanId # NoPlan
    /\ Begin(c, "template", <<call("add", <<v>>), call("add", <<w>>), get>>)
    /\ Quietly

handleImport(c, v, w) ==
    /\ selectedPlanId # NoPlan /\ plan # NoPlan
    /\ Begin(c, "import", <<call("add", <<v, w>>)>>)
    /\ Quietly

updateItem(c, id, v) ==
    /\ CardsShown /\ selectedPlanId # NoPlan /\ id \in ids(plan)
    /\ Begin(c, "update", <<call("update", [ids |-> {id}, v |-> v]), get>>)
    /\ Quietly

\* The dialog of a song's item: its own fields, then the background of every
\* item of the song.  The items of the plan shown stand for those of the song.
handleSave(c, id, v, w) ==
    /\ CardsShown /\ selectedPlanId # NoPlan /\ id \in ids(plan)
    /\ Begin(c, "background", <<call("update", [ids |-> {id}, v |-> v]), get>>
                 \o SetToSeq({call("update", [ids |-> {i}, v |-> w]) : i \in ids(plan)}) \o <<get>>)
    /\ Quietly

Without(p, gone) ==
    IF p = NoPlan THEN p
    ELSE [p EXCEPT !.items = {it \in @ : it.id \notin gone}]

removeItem(c, id) ==
    /\ CardsShown /\ selectedPlanId # NoPlan /\ id \in ids(plan)
    /\ Begin(c, "remove", <<call("remove", {id})>>)
    /\ plan' = Without(plan, {id})
    /\ UNCHANGED <<selectedPlanId, loadingPlan, selectedItemIds>>

toggleItemSelection(id) ==
    /\ CardsShown /\ id \in ids(plan)
    /\ id \notin selectedItemIds
    /\ selectedItemIds' = selectedItemIds \cup {id}
    /\ UNCHANGED <<stored, deleted, nextPlan, nextItem, planList, selectedPlanId, plan, loadingPlan, chain,
                   edits, failures, calm>>

\* The selection is not cleared when another plan is selected.
handleBatchDelete(c) ==
    /\ plan # NoPlan /\ selectedPlanId # NoPlan /\ selectedItemIds # {}
    /\ Begin(c, "remove", <<call("remove", selectedItemIds)>>)
    /\ plan' = Without(plan, selectedItemIds)
    /\ selectedItemIds' = {}
    /\ UNCHANGED <<selectedPlanId, loadingPlan>>

commitTitle(c, title) ==
    /\ plan # NoPlan /\ selectedPlanId # NoPlan /\ title # plan.title
    /\ Begin(c, "rename", <<call("rename", title), list>>)
    /\ Quietly

handleSavePlanBg(c, background) ==
    /\ plan # NoPlan /\ selectedPlanId # NoPlan
    /\ Begin(c, "planBackground", <<call("background", background), get>>)
    /\ Quietly

\* The bound on the plans: one for each creation that is under way.
RoomForPlan ==
    nextPlan + Cardinality({c \in Busy : Head(chain[c].todo).channel = "create"}) \in AllPlans

handleCreate(c) ==
    /\ RoomForPlan
    /\ Begin(c, "create", <<call("create", 0), list>>)
    /\ Quietly

handleDuplicate(c) ==
    /\ selectedPlanId # NoPlan /\ RoomForPlan
    /\ Begin(c, "duplicate", <<call("create", 0), list>>)
    /\ Quietly

handleDelete(c) ==
    /\ plan # NoPlan /\ selectedPlanId # NoPlan
    /\ Begin(c, "delete", <<call("delete", 0), list>>)
    /\ Quietly

-----------------------------------------------------------------------------
(***************************************************************************)
(* The main process serves a call that changes the database.               *)
(***************************************************************************)
Foreign(p, some) ==
    \E q \in AllPlans \ {p} : stored[q] # NoPlan /\ some \cap ids(stored[q]) # {}

\* plans:updateItem throws when the item is not of the plan, plans:removeItems
\* when one of the items is of another plan.
Accepts(p, todo) ==
    CASE todo.channel = "update" -> stored[p] # NoPlan /\ todo.arg.ids \subseteq ids(stored[p])
      [] todo.channel = "remove" -> ~Foreign(p, todo.arg)
      [] OTHER -> TRUE

added(p, values) ==
    [p EXCEPT !.items = @ \cup {item(nextItem + i - 1, values[i]) : i \in 1..Len(values)}]

updated(p, some, v) ==
    [p EXCEPT !.items = {IF it.id \in some THEN item(it.id, v) ELSE it : it \in @}]

\* What the call makes of its plan; a deletion only dates the plan.
Changed(p, todo) ==
    IF p = NoPlan THEN NoPlan
    ELSE CASE todo.channel = "add" -> added(p, todo.arg)
           [] todo.channel = "update" -> updated(p, todo.arg.ids, todo.arg.v)
           [] todo.channel = "remove" -> Without(p, todo.arg)
           [] todo.channel = "rename" -> [p EXCEPT !.title = todo.arg]
           [] todo.channel = "background" -> [p EXCEPT !.background = todo.arg]
           [] todo.channel = "delete" -> p

\* The chain after an answer, and the spinner when it goes on with a read of the plan.
GoOn(c, todo) ==
    /\ chain' = [chain EXCEPT ![c] = IF todo = <<>> THEN Idle
                                     ELSE [@ EXCEPT !.todo = todo, !.snap = Unasked,
                                                    !.alone = Busy = {c}]]
    /\ loadingPlan' = (loadingPlan \/ (todo # <<>> /\ Head(todo) = get))

\* deletePlan clears the selection whatever plan is selected by now; the effect of
\* the selection then takes the plan away.
serveEdit(c) ==
    /\ c \in Busy
    /\ LET todo == Head(chain[c].todo)
           p == chain[c].planId
       IN  /\ todo.channel \in {"add", "update", "remove", "rename", "background", "delete"}
           /\ Accepts(p, todo)
           /\ stored' = [stored EXCEPT ![p] = Changed(@, todo)]
           /\ deleted' = IF todo.channel = "delete" THEN deleted \cup {p} ELSE deleted
           /\ nextItem' = IF todo.channel = "add" THEN nextItem + Len(todo.arg) ELSE nextItem
           /\ plan' = IF todo.channel = "rename" /\ plan # NoPlan
                      THEN [plan EXCEPT !.title = todo.arg]
                      ELSE IF todo.channel = "delete" /\ selectedPlanId # NoPlan THEN NoPlan
                      ELSE plan
           /\ selectedPlanId' = IF todo.channel = "delete" THEN NoPlan ELSE selectedPlanId
           /\ calm' = [calm EXCEPT !.plan = @ /\ chain[c].op # "import"]
           /\ GoOn(c, Tail(chain[c].todo))
    /\ UNCHANGED <<nextPlan, planList, selectedItemIds, edits, failures>>

\* The items of the copy of a plan, in the order of those copied.
copied(source) ==
    {item(nextItem + Cardinality({jt \in source.items : jt.id < it.id}), it.v) : it \in source.items}

\* plans:create and plans:duplicate: the new plan is selected after the list is read.
serveCreate(c) ==
    /\ c \in Busy /\ Head(chain[c].todo).channel = "create"
    /\ nextPlan \in AllPlans /\ nextPlan' = nextPlan + 1
    /\ LET source == IF chain[c].op = "duplicate" THEN stored[chain[c].planId] ELSE NoPlan
           items == IF source = NoPlan THEN {} ELSE copied(source)
       IN  /\ stored' = [stored EXCEPT ![nextPlan] = newPlan(nextPlan, items)]
           /\ nextItem' = nextItem + Cardinality(items)
    /\ GoOn(c, <<call("list", nextPlan)>>)
    /\ UNCHANGED <<deleted, planList, selectedPlanId, plan, selectedItemIds, edits, failures, calm>>

\* The optimistic removals are rolled back by a refresh.  addItem and updateItem
\* catch the error, so that the loop or the dialog that called them goes on; the
\* other updates of Promise.all are on their way, only their refresh is lost.
AfterRejection(ch) ==
    LET answered == ch.op \in {"add", "background"} /\ Len(ch.todo) > 2 /\ ch.todo[2] = get
        refreshes == Last(ch.todo) = get
    IN  CASE ch.op = "remove" -> <<get>>
          [] answered -> Tail(Tail(ch.todo))
          [] ch.op = "background" /\ ~answered /\ refreshes -> Front(Tail(ch.todo))
          [] ch.op = "background" /\ ~answered /\ ~refreshes -> Tail(ch.todo)
          [] OTHER -> <<>>

rejectEdit_NoRollback(c) ==
    /\ c \in Busy /\ Head(chain[c].todo).channel \notin {"get", "list"}
    /\ failures < MaxFailures \/ ~Accepts(chain[c].planId, Head(chain[c].todo))
    /\ failures' = IF failures < MaxFailures THEN failures + 1 ELSE failures
    /\ GoOn(c, IF chain[c].op = "remove" THEN <<>> ELSE AfterRejection(chain[c]))
    /\ calm' = [calm EXCEPT !.plan = @ /\ chain[c].op \notin {"template", "background"}]
    /\ UNCHANGED <<stored, deleted, nextPlan, nextItem, planList, selectedPlanId, plan, selectedItemIds, edits>>

\* A call that throws, because of what it asks for or of the database.
rejectEdit(c) ==
    /\ c \in Busy /\ Head(chain[c].todo).channel \notin {"get", "list"}
    /\ failures < MaxFailures \/ ~Accepts(chain[c].planId, Head(chain[c].todo))
    /\ failures' = IF failures < MaxFailures THEN failures + 1 ELSE failures
    /\ GoOn(c, AfterRejection(chain[c]))
    /\ calm' = [calm EXCEPT !.plan = @ /\ chain[c].op \notin {"template", "background"}]
    /\ UNCHANGED <<stored, deleted, nextPlan, nextItem, planList, selectedPlanId, plan, selectedItemIds, edits>>

-----------------------------------------------------------------------------
(***************************************************************************)
(* The reads of a plan and of the list.                                    *)
(***************************************************************************)
\* plans:list leaves out the deleted plans, plans:get does not.
PlansListed == {p \in AllPlans : stored[p] # NoPlan /\ p \notin deleted}

serveRead(c) ==
    /\ c \in Busy /\ Head(chain[c].todo).channel \in {"get", "list"}
    /\ chain[c].snap = Unasked
    /\ chain' = [chain EXCEPT ![c].snap =
                   IF Head(chain[c].todo) = get THEN stored[chain[c].planId]
                   ELSE PlansListed]
    /\ UNCHANGED <<stored, deleted, nextPlan, nextItem, planList, selectedPlanId, plan, loadingPlan,
                   selectedItemIds, edits, failures, calm>>

\* The answer is shown whatever plan is selected by now.
refreshPlan(c) ==
    /\ c \in Busy /\ Head(chain[c].todo) = get
    /\ chain[c].snap # Unasked
    /\ plan' = chain[c].snap
    /\ calm' = [calm EXCEPT !.plan = chain[c].alone /\ chain[c].planId = selectedPlanId]
    /\ chain' = [chain EXCEPT ![c] =
                   IF Len(chain[c].todo) = 1 THEN Idle
                   ELSE [chain[c] EXCEPT !.todo = Tail(chain[c].todo), !.snap = Unasked]]
    /\ loadingPlan' = FALSE
    /\ UNCHANGED <<stored, deleted, nextPlan, nextItem, planList, selectedPlanId, selectedItemIds, edits, failures>>

refreshFails_NoFinally(c) ==
    /\ c \in Busy /\ Head(chain[c].todo) = get
    /\ failures < MaxFailures
    /\ failures' = failures + 1
    /\ calm' = [calm EXCEPT !.plan = FALSE]
    /\ chain' = [chain EXCEPT ![c] =
                   IF Len(chain[c].todo) > 1 /\ chain[c].op \in {"add", "background"}
                   THEN [chain[c] EXCEPT !.todo = Tail(chain[c].todo), !.snap = Unasked] ELSE Idle]
    /\ UNCHANGED <<stored, deleted, nextPlan, nextItem, planList, selectedPlanId, plan, loadingPlan,
                   selectedItemIds, edits>>

\* A rejected read takes the spinner away too and leaves the plan as it is.
refreshFails(c) ==
    /\ c \in Busy /\ Head(chain[c].todo) = get
    /\ failures < MaxFailures
    /\ failures' = failures + 1
    /\ calm' = [calm EXCEPT !.plan = FALSE]
    /\ chain' = [chain EXCEPT ![c] =
                   IF Len(chain[c].todo) > 1 /\ chain[c].op \in {"add", "background"}
                   THEN [chain[c] EXCEPT !.todo = Tail(chain[c].todo), !.snap = Unasked] ELSE Idle]
    /\ loadingPlan' = FALSE
    /\ UNCHANGED <<stored, deleted, nextPlan, nextItem, planList, selectedPlanId, plan, selectedItemIds, edits>>

\* The answer of plans:list: the plan that was made, or any first plan of the
\* list when none was selected as the chain began, is selected and read.
refreshList(c) ==
    /\ c \in Busy /\ Head(chain[c].todo).channel = "list"
    /\ chain[c].snap # Unasked
    /\ planList' = chain[c].snap
    /\ \E p \in IF Head(chain[c].todo).arg # 0 THEN {Head(chain[c].todo).arg}
                ELSE IF chain[c].planId = NoPlan /\ chain[c].snap # {} THEN chain[c].snap
                ELSE {selectedPlanId} :
          /\ selectedPlanId' = p
          /\ chain' = [chain EXCEPT ![c] = IF p = selectedPlanId THEN Idle
                         ELSE [@ EXCEPT !.op = "select", !.planId = p, !.todo = <<get>>,
                                        !.snap = Unasked, !.alone = Busy = {c}]]
          /\ loadingPlan' = (loadingPlan \/ p # selectedPlanId)
    /\ calm' = [calm EXCEPT !.list = chain[c].alone]
    /\ UNCHANGED <<stored, deleted, nextPlan, nextItem, plan, selectedItemIds, edits, failures>>

\* Then createPlan does not select the plan that it has made.
listFails(c) ==
    /\ c \in Busy /\ Head(chain[c].todo).channel = "list"
    /\ failures < MaxFailures
    /\ failures' = failures + 1
    /\ calm' = [calm EXCEPT !.list = FALSE]
    /\ chain' = [chain EXCEPT ![c] = Idle]
    /\ UNCHANGED <<stored, deleted, nextPlan, nextItem, planList, selectedPlanId, plan, loadingPlan,
                   selectedItemIds, edits>>

-----------------------------------------------------------------------------
UserStep ==
    /\ edits < MaxEdits
    /\ \/ \E id \in 1..(nextItem - 1) : toggleItemSelection(id)
       \/ \E c \in Chains :
             \/ \E p \in AllPlans : selectPlan(c, p)
             \/ \E v \in Values : addItem(c, v) \/ commitTitle(c, v) \/ handleSavePlanBg(c, v)
             \/ duplicateItem(c) \/ handleBatchDelete(c)
             \/ handleCreate(c) \/ handleDuplicate(c) \/ handleDelete(c)
             \/ \E v, w \in Values : handleAddAll(c, v, w) \/ handleApply(c, v, w) \/ handleImport(c, v, w)
             \/ \E id \in 1..(nextItem - 1), v \in Values :
                   updateItem(c, id, v) \/ handleSave(c, id, v, v)
             \/ \E id \in 1..(nextItem - 1) : removeItem(c, id)

Service(c) == serveEdit(c) \/ serveCreate(c) \/ rejectEdit(c) \/ serveRead(c) \/ refreshPlan(c)
                \/ refreshFails(c) \/ refreshList(c) \/ listFails(c)

PlanStep == UserStep \/ \E c \in Chains : Service(c)

-----------------------------------------------------------------------------
(* Properties *)

\* PlanContext.tsx applies some changes before the main process has made them,
\* others by reading the plan again, and undoes a removal that failed by reading
\* it again.  When nothing is under way the plan shown is the one of the database
\* and the list has its plans.  calm says that since the plan was last read the
\* known exceptions did not occur: a read that overlapped another operation or
\* that belongs to an operation begun while another plan was selected, an import
\* from a file (the toolbar does not refresh), a template or a song background
\* that failed half-way, a read that failed.
ShownIsStored ==
    Busy = {} =>
        /\ calm.plan => plan = IF selectedPlanId = NoPlan THEN NoPlan ELSE stored[selectedPlanId]
        /\ calm.list => planList = PlansListed

\* Whatever overlaps or fails, the spinner of the plan editor always goes away
\* again: each refreshPlan ends in its finally.
SpinnerEnds == []<>(~loadingPlan)
=============================================================================
