----------------------------- MODULE PlansProofs -----------------------------
(***************************************************************************)
(* Theorems about Plans, for any sets of plans, items, payloads and calls, *)
(* any days and any number of tries: the numbering of the items, the dates *)
(* of the plans, and the refinement of PlanSeq.                            *)
(***************************************************************************)
EXTENDS Plans, FiniteSetTheorems, FunctionTheorems, SequenceTheorems, TLAPS

-----------------------------------------------------------------------------
(* Numbering a finite set *)

\* ord numbers the elements of S from 1 without a gap.
Numbers(S, ord) == {ord[i] : i \in S} = 1..Cardinality(S)

\* A numbering gives no number twice.
LEMMA NumbersInjective ==
    ASSUME NEW S, IsFiniteSet(S), NEW ord, ord \in [S -> Nat], Numbers(S, ord)
    PROVE  /\ \A i, j \in S : ord[i] = ord[j] => i = j
           /\ ord \in [S -> 1..Cardinality(S)]
<1> DEFINE n == Cardinality(S)
<1>1. n \in Nat
  BY FS_CardinalityType
<1>2. ord \in [S -> 1..n]
  BY DEF Numbers
<1>3. ord \in Surjection(S, 1..n)
  BY <1>2 DEF Numbers, Surjection
<1>4. Cardinality(1..n) = n
  BY <1>1, FS_Interval
<1>5. ord \in Injection(S, 1..n)
  BY <1>3, <1>4, FS_SurjSameCardinalityImpliesInj
<1> QED BY <1>2, <1>5 DEF Injection, IsInjective

\* Conversely, n distinct numbers from 1 to n are all of them.
LEMMA InjectiveNumbers ==
    ASSUME NEW S, IsFiniteSet(S), NEW ord, ord \in [S -> 1..Cardinality(S)],
           \A i, j \in S : ord[i] = ord[j] => i = j
    PROVE  Numbers(S, ord)
<1> DEFINE n == Cardinality(S)
<1>1. n \in Nat
  BY FS_CardinalityType
<1>2. IsFiniteSet(1..n) /\ Cardinality(1..n) = n
  BY <1>1, FS_Interval
<1>3. ord \in Injection(S, 1..n)
  BY DEF Injection, IsInjective
<1>4. ord \in Surjection(S, 1..n)
  BY <1>2, <1>3, FS_Injection
<1> QED BY <1>4 DEF Surjection, Numbers

\* The rank of an element: how many elements have at most its number.
Rank(S, ord) == [i \in S |-> Cardinality({j \in S : ord[j] <= ord[i]})]

LEMMA RankMonotonic ==
    ASSUME NEW S, IsFiniteSet(S), NEW ord, ord \in [S -> Nat],
           NEW i \in S, NEW j \in S, ord[i] < ord[j]
    PROVE  Rank(S, ord)[i] < Rank(S, ord)[j]
<1> DEFINE A == {k \in S : ord[k] <= ord[i]}
           B == {k \in S : ord[k] <= ord[j]}
<1>1. A \in SUBSET B /\ j \in B /\ j \notin A
  OBVIOUS
<1>2. IsFiniteSet(B)
  BY FS_Subset
<1>3. IsFiniteSet(A) /\ Cardinality(A) <= Cardinality(B) /\ Cardinality(A) # Cardinality(B)
  BY <1>1, <1>2, FS_Subset
<1>4. Cardinality(A) \in Nat /\ Cardinality(B) \in Nat
  BY <1>2, <1>3, FS_CardinalityType
<1> HIDE DEF A, B
<1>5. Cardinality(A) < Cardinality(B)
  BY <1>3, <1>4
<1> QED BY <1>5 DEF Rank, A, B

\* Numbering the elements by rank is what the renumbering of a plan does.
LEMMA RankNumbers ==
    ASSUME NEW S, IsFiniteSet(S), NEW ord, ord \in [S -> Nat],
           \A i, j \in S : ord[i] = ord[j] => i = j
    PROVE  Numbers(S, Rank(S, ord))
<1> DEFINE r == Rank(S, ord)
<1>1. r \in [S -> 1..Cardinality(S)]
  <2> SUFFICES ASSUME NEW i \in S
               PROVE  Cardinality({j \in S : ord[j] <= ord[i]}) \in 1..Cardinality(S)
    BY DEF Rank
  <2> DEFINE A == {j \in S : ord[j] <= ord[i]}
  <2>1. IsFiniteSet(A) /\ Cardinality(A) <= Cardinality(S)
    BY FS_Subset
  <2>2. i \in A
    OBVIOUS
  <2>3. Cardinality(A) # 0
    BY <2>1, <2>2, FS_EmptySet
  <2>4. Cardinality(A) \in Nat /\ Cardinality(S) \in Nat
    BY <2>1, FS_CardinalityType
  <2> HIDE DEF A
  <2>5. Cardinality(A) \in 1..Cardinality(S)
    BY <2>1, <2>3, <2>4
  <2> QED BY <2>5 DEF A
<1>2. \A i, j \in S : r[i] = r[j] => i = j
  <2> SUFFICES ASSUME NEW i \in S, NEW j \in S, r[i] = r[j], i # j
               PROVE  FALSE
    OBVIOUS
  <2>1. r[i] \in Int /\ r[j] \in Int
    BY <1>1
  <2>2. ord[i] < ord[j] \/ ord[j] < ord[i]
    OBVIOUS
  <2>3. r[i] < r[j] \/ r[j] < r[i]
    BY <2>2, RankMonotonic
  <2> QED BY <2>1, <2>3
<1> QED BY <1>1, <1>2, InjectiveNumbers

-----------------------------------------------------------------------------
(* Functions *)

LEMMA AntiFunctionInverts ==
    ASSUME NEW S, NEW T, NEW f \in [S -> T], IsInjective(f)
    PROVE  /\ \A x \in S : f[x] \in Range(f) /\ AntiFunction(f)[f[x]] = x
           /\ \A y \in Range(f) : AntiFunction(f)[y] \in S /\ f[AntiFunction(f)[y]] = y
BY DEF AntiFunction, Inverse, IsInjective, Range

-----------------------------------------------------------------------------
(* Typing *)

LEMMA JobFields ==
    ASSUME NEW j \in Job
    PROVE  /\ j.kind = "create" => /\ j.asked \in Nat /\ j.tries \in Nat /\ j.title \in Payloads
                                   /\ j.copy \in SUBSET [order : Nat \ {0}, payload : Payloads]
           /\ j.kind = "updateItem" => j.item \in ItemIds /\ j.payload \in Payloads
           /\ j.kind = "removeItem" => j.item \in ItemIds /\ j.plan \in PlanIds
           /\ j.kind = "reorder" => j.plan \in PlanIds /\ j.ids \in Requests
           /\ j.kind = "import" => /\ j.plan \in PlanIds /\ j.left \in Nat
                                   /\ j.payload \in Payloads
BY DEF Job

LEMMA IdleType == Idle \in Job
BY DEF Idle, Job

\* A row of a table is a record, and what is not a row is None.
LEMMA RowTypes ==
    ASSUME TypeOK
    PROVE  /\ Rows(plans) \in SUBSET PlanIds /\ Rows(items) \in SUBSET ItemIds
           /\ \A p \in Rows(plans) : plans[p] \in PlanRow
           /\ \A i \in Rows(items) : items[i] \in ItemRow
           /\ \A p : ItemsOf(p) \in SUBSET Rows(items)
BY DEF TypeOK, Rows, ItemsOf

LEMMA RequestType ==
    ASSUME NEW ids \in Requests
    PROVE  \E n \in Nat : ids \in [1..n -> ItemIds] /\ n <= Cardinality(ItemIds)
<1>1. Cardinality(ItemIds) \in Nat
  BY PlansAssumption, FS_CardinalityType
<1> QED BY <1>1 DEF Requests

\* What the rows of a copied plan are: f gives each copied line its identifier.
LEMMA CopyWrites ==
    ASSUME TypeOK, NEW p \in PlanIds,
           NEW copy \in SUBSET [order : Nat \ {0}, payload : Payloads],
           NEW t \in CopiedItems(p, copy)
    PROVE  /\ t \in [ItemIds -> ItemRow \cup {None}]
           /\ \E f \in [copy -> FreshItems] :
                /\ IsInjective(f)
                /\ \A c \in copy : t[f[c]] = [plan |-> p, order |-> c.order, payload |-> c.payload]
                /\ \A i \in ItemIds \ Range(f) : t[i] = items[i]
<1>1. PICK f \in [copy -> FreshItems] :
        /\ IsInjective(f)
        /\ t = [i \in ItemIds |-> IF i \in Range(f)
                                  THEN [plan |-> p, order |-> AntiFunction(f)[i].order,
                                        payload |-> AntiFunction(f)[i].payload]
                                  ELSE items[i]]
  BY DEF CopiedItems
<1>2. FreshItems \in SUBSET ItemIds
  BY DEF FreshItems
<1>3. /\ \A c \in copy : f[c] \in Range(f) /\ AntiFunction(f)[f[c]] = c
      /\ \A i \in Range(f) : AntiFunction(f)[i] \in copy
  BY <1>1, AntiFunctionInverts
<1>4. t \in [ItemIds -> ItemRow \cup {None}]
  <2> SUFFICES ASSUME NEW i \in ItemIds PROVE t[i] \in ItemRow \cup {None}
    BY <1>1
  <2>1. CASE i \in Range(f)
    BY <1>1, <1>3, <2>1 DEF ItemRow
  <2>2. CASE i \notin Range(f)
    BY <1>1, <2>2 DEF TypeOK
  <2> QED BY <2>1, <2>2
<1>5. \A c \in copy : t[f[c]] = [plan |-> p, order |-> c.order, payload |-> c.payload]
  BY <1>1, <1>2, <1>3
<1>6. \A i \in ItemIds \ Range(f) : t[i] = items[i]
  BY <1>1
<1> QED BY <1>1, <1>4, <1>5, <1>6

LEMMA InitType == Init => TypeOK
BY IdleType DEF Init, TypeOK

\* The last number of a plan is a natural number when its items are numbered.
LEMMA LastOrderIs ==
    ASSUME TypeOK, NEW p \in PlanIds, NEW n \in Nat,
           {items[i].order : i \in ItemsOf(p)} = 1..n
    PROVE  LastOrder(p) = n
<1> DEFINE N == {0} \cup {items[i].order : i \in ItemsOf(p)}
<1>1. N = 0..n
  OBVIOUS
<1>2. \A i \in ItemsOf(p) : items[i].order \in 1..n
  OBVIOUS
<1>3. \A i \in ItemsOf(p) : items[i].order <= n
  BY <1>2
<1>4. ASSUME NEW m \in N, \A i \in ItemsOf(p) : items[i].order <= m
      PROVE  m = n
  <2>1. CASE n = 0
    BY <1>1, <2>1
  <2>2. CASE n # 0
    <3>1. PICK i \in ItemsOf(p) : items[i].order = n
      BY <2>2
    <3> QED BY <1>1, <1>4, <3>1
  <2> QED BY <2>1, <2>2
<1>5. n \in N
  BY <1>1
<1> HIDE DEF N
<1>6. (CHOOSE m \in N : \A i \in ItemsOf(p) : items[i].order <= m) = n
  BY <1>3, <1>4, <1>5
<1> QED BY <1>6 DEF LastOrder, N

-----------------------------------------------------------------------------
(***************************************************************************)
(* The inductive invariant.  Beside the numbering of each plan it needs    *)
(* that an item belongs to a plan that is there (or a new plan could start *)
(* with items), that the lines held by a duplication are numbered, and     *)
(* that the items a removal or a reorder was validated for, if they are    *)
(* still there, are still of its plan: the list may have changed since.    *)
(***************************************************************************)
ItemsIn(t, p) == {i \in Rows(t) : t[i].plan = p}

PlanNumbered(t, p) == {t[i].order : i \in ItemsIn(t, p)} = 1..Cardinality(ItemsIn(t, p))

\* The lines of a duplication are numbered.
LinesNumbered(copy) == {c.order : c \in copy} = 1..Cardinality(copy)

\* The table t gives plan p the items and the numbers it has.
SameList(t, p) ==
    /\ ItemsIn(t, p) = ItemsOf(p)
    /\ \A i \in ItemsOf(p) : t[i].order = items[i].order

CallOK(j, t) ==
    /\ j.kind = "create" =>
         IsFiniteSet(j.copy) /\ LinesNumbered(j.copy)
    /\ j.kind = "removeItem" => (j.item \in Rows(t) => t[j.item].plan = j.plan)
    /\ j.kind = "reorder" =>
         IsInjective(j.ids) /\ \A i \in Range(j.ids) \cap Rows(t) : t[i].plan = j.plan

ItemsHavePlans == \A i \in Rows(items) : items[i].plan \in Rows(plans)

CallsOK == \A h \in Handlers : CallOK(job[h], items)

IInv == TypeOK /\ OrdersContiguous /\ ItemsHavePlans /\ CallsOK

\* What a step may make of the table of items.
TableOK(t, owners) ==
    /\ t \in [ItemIds -> ItemRow \cup {None}]
    /\ \A p \in PlanIds : PlanNumbered(t, p)
    /\ \A i \in Rows(t) : t[i].plan \in owners
    /\ \A i \in Rows(t) : i \in FreshItems \/ (i \in Rows(items) /\ t[i].plan = items[i].plan)

LEMMA ItemsTableOK == IInv => TableOK(items, Rows(plans))
BY DEF IInv, TypeOK, OrdersContiguous, ItemsHavePlans, TableOK, PlanNumbered, ItemsIn, ItemsOf

\* The calls in flight survive what a step makes of the table.
LEMMA CallsStay ==
    ASSUME IInv, NEW t, NEW owners, TableOK(t, owners)
    PROVE  \A h \in Handlers : CallOK(job[h], t)
<1> SUFFICES ASSUME NEW h \in Handlers PROVE CallOK(job[h], t)
  OBVIOUS
<1>1. job[h] \in Job /\ CallOK(job[h], items)
  BY DEF IInv, TypeOK, CallsOK
<1>2. ASSUME job[h].kind = "removeItem", job[h].item \in Rows(t)
      PROVE  t[job[h].item].plan = job[h].plan
  <2>1. job[h].item \notin FreshItems
    BY <1>2 DEF FreshItems
  <2> QED BY <1>1, <1>2, <2>1 DEF CallOK, TableOK
<1>3. ASSUME job[h].kind = "reorder", NEW i \in Range(job[h].ids) \cap Rows(t)
      PROVE  t[i].plan = job[h].plan
  <2>1. i \notin FreshItems
    BY <1>3 DEF FreshItems
  <2> QED BY <1>1, <1>3, <2>1 DEF CallOK, TableOK
<1> QED BY <1>1, <1>2, <1>3 DEF CallOK

\* A step that leaves good tables, and one call with a good state, is fine.
LEMMA StepInv ==
    ASSUME IInv, TableOK(items', Rows(plans)'), plans' \in [PlanIds -> PlanRow \cup {None}],
           NEW h \in Handlers, NEW j \in Job, CallOK(j, items'), job' = [job EXCEPT ![h] = j]
    PROVE  IInv'
<1>1. \A g \in Handlers : CallOK(job[g], items')
  BY CallsStay
<1>2. CallsOK'
  <2> SUFFICES ASSUME NEW g \in Handlers PROVE CallOK(job'[g], items')
    BY DEF CallsOK
  <2>1. job'[g] = IF g = h THEN j ELSE job[g]
    BY DEF IInv, TypeOK
  <2> QED BY <1>1, <2>1
<1>3. TypeOK'
  BY DEF IInv, TypeOK, TableOK
<1>4. OrdersContiguous' /\ ItemsHavePlans'
  BY DEF TableOK, OrdersContiguous, ItemsHavePlans, PlanNumbered, ItemsIn, ItemsOf
<1> QED BY <1>2, <1>3, <1>4 DEF IInv

LEMMA IdleOK == \A t : CallOK(Idle, t)
BY DEF CallOK, Idle

\* The same for a call that ends, and for a handler with a single step.
LEMMA EndInv ==
    ASSUME IInv, TableOK(items', Rows(plans)'), plans' \in [PlanIds -> PlanRow \cup {None}],
           NEW h \in Handlers, End(h)
    PROVE  IInv'
BY StepInv, IdleOK, IdleType DEF End

LEMMA DirectInv ==
    ASSUME IInv, TableOK(items', Rows(plans)'), plans' \in [PlanIds -> PlanRow \cup {None}],
           UNCHANGED job
    PROVE  IInv'
<1>1. CallsOK'
  BY CallsStay DEF CallsOK
<1>2. TypeOK'
  BY DEF IInv, TypeOK, TableOK
<1>3. OrdersContiguous' /\ ItemsHavePlans'
  BY DEF TableOK, OrdersContiguous, ItemsHavePlans, PlanNumbered, ItemsIn, ItemsOf
<1> QED BY <1>1, <1>2, <1>3 DEF IInv

-----------------------------------------------------------------------------
(* What each step makes of the table of items *)

LEMMA PlanFinite ==
    ASSUME TypeOK
    PROVE  /\ \A p : IsFiniteSet(ItemsOf(p)) /\ Cardinality(ItemsOf(p)) \in Nat
           /\ \A S \in SUBSET ItemIds : IsFiniteSet(S) /\ Cardinality(S) \in Nat
<1>1. \A S \in SUBSET ItemIds : IsFiniteSet(S)
  BY FS_Subset, PlansAssumption
<1>2. \A S \in SUBSET ItemIds : Cardinality(S) \in Nat
  BY <1>1, FS_CardinalityType
<1> QED BY <1>1, <1>2, RowTypes

\* No two items of a plan have the same number.
LEMMA OrdersDistinct ==
    ASSUME IInv, NEW p \in PlanIds
    PROVE  /\ \A i, j \in ItemsOf(p) : items[i].order = items[j].order => i = j
           /\ \A i \in ItemsOf(p) : items[i].order \in 1..Cardinality(ItemsOf(p))
           /\ \A n \in 1..Cardinality(ItemsOf(p)) : \E i \in ItemsOf(p) : items[i].order = n
<1> DEFINE S == ItemsOf(p)
           ord == [i \in S |-> items[i].order]
<1>1. IsFiniteSet(S)
  BY PlanFinite DEF IInv
<1>2. ord \in [S -> Nat]
  BY RowTypes DEF IInv, ItemRow
<1>3. {items[i].order : i \in S} = 1..Cardinality(S)
  BY DEF IInv, OrdersContiguous
<1>4. Numbers(S, ord)
  BY <1>3 DEF Numbers
<1>5. \A i, j \in S : ord[i] = ord[j] => i = j
  BY <1>1, <1>2, <1>4, NumbersInjective
<1> QED BY <1>3, <1>5

\* A plan whose items and numbers a step leaves alone stays numbered.
LEMMA OtherPlans ==
    ASSUME IInv, NEW p \in PlanIds, NEW t, SameList(t, p)
    PROVE  PlanNumbered(t, p)
<1>1. {t[i].order : i \in ItemsOf(p)} = {items[i].order : i \in ItemsOf(p)}
  BY DEF SameList
<1> QED BY <1>1 DEF IInv, OrdersContiguous, PlanNumbered, SameList

LEMMA FreshNotRows ==
    /\ FreshItems \in SUBSET ItemIds
    /\ \A i \in FreshItems : i \notin Rows(items)
BY DEF FreshItems

\* An item that is added gets the next number.
LEMMA AddTable ==
    ASSUME IInv, NEW p \in PlanIds, NEW v \in Payloads, createPlanItem(p, v)
    PROVE  /\ TableOK(items', Rows(plans))
           /\ \A q \in PlanIds \ {p} : SameList(items', q)
           /\ \E i \in FreshItems :
                /\ ItemsIn(items', p) = ItemsOf(p) \cup {i} /\ i \notin Rows(items)
                /\ items'[i].order = Cardinality(ItemsOf(p)) + 1
                /\ \A k \in Rows(items) : items'[k] = items[k]
                /\ Rows(items') = Rows(items) \cup {i}
<1> DEFINE n == Cardinality(ItemsOf(p))
<1>1. n \in Nat /\ IsFiniteSet(ItemsOf(p))
  BY PlanFinite DEF IInv
<1>2. LastOrder(p) = n
  BY <1>1, LastOrderIs DEF IInv, OrdersContiguous
<1>3. PICK i \in FreshItems :
        items' = [items EXCEPT ![i] = [plan |-> p, order |-> n + 1, payload |-> v]]
  BY <1>2 DEF createPlanItem
<1>4. i \in ItemIds /\ i \notin Rows(items)
  BY FreshNotRows
<1>5. items' \in [ItemIds -> ItemRow \cup {None}]
  BY <1>1, <1>3, <1>4 DEF IInv, TypeOK, ItemRow
<1>6. items'[i] = [plan |-> p, order |-> n + 1, payload |-> v] /\ items'[i] # None
  <2>1. items'[i] = [plan |-> p, order |-> n + 1, payload |-> v]
    BY <1>3, <1>4 DEF IInv, TypeOK
  <2>2. items'[i] \in ItemRow
    BY <1>1, <2>1 DEF ItemRow
  <2> QED BY <2>1, <2>2, PlansAssumption
<1>7. \A k \in ItemIds \ {i} : items'[k] = items[k]
  BY <1>3 DEF IInv, TypeOK
<1>8. DOMAIN items' = ItemIds /\ DOMAIN items = ItemIds
  BY <1>5 DEF IInv, TypeOK
<1>9. Rows(items') = Rows(items) \cup {i}
  BY <1>4, <1>6, <1>7, <1>8 DEF Rows
<1>10. ItemsIn(items', p) = ItemsOf(p) \cup {i} /\ i \notin ItemsOf(p)
  BY <1>4, <1>6, <1>7, <1>9, RowTypes DEF IInv, ItemsIn, ItemsOf
<1>11. PlanNumbered(items', p)
  <2>1. Cardinality(ItemsIn(items', p)) = n + 1
    BY <1>1, <1>10, FS_AddElement
  <2>2. \A k \in ItemsOf(p) : items'[k] = items[k]
    BY <1>7, <1>10, RowTypes DEF IInv
  <2>3. {items'[k].order : k \in ItemsIn(items', p)}
          = {items[k].order : k \in ItemsOf(p)} \cup {n + 1}
    BY <1>6, <1>10, <2>2
  <2>4. {items[k].order : k \in ItemsOf(p)} = 1..n
    BY DEF IInv, OrdersContiguous
  <2>5. 1..n \cup {n + 1} = 1..(n + 1)
    BY <1>1
  <2> QED BY <2>1, <2>3, <2>4, <2>5 DEF PlanNumbered
<1>12. ASSUME NEW q \in PlanIds, q # p PROVE SameList(items', q)
  <2>1. ItemsIn(items', q) = ItemsOf(q)
    BY <1>4, <1>6, <1>7, <1>9, <1>12, RowTypes DEF IInv, ItemsIn, ItemsOf
  <2>2. \A k \in ItemsOf(q) : items'[k] = items[k]
    BY <1>4, <1>7, RowTypes DEF IInv
  <2> QED BY <2>1, <2>2 DEF SameList
<1>13. p \in Rows(plans)
  BY DEF createPlanItem
<1>14. \A k \in Rows(items') : items'[k].plan \in Rows(plans)
  BY <1>4, <1>6, <1>7, <1>9, <1>13, RowTypes DEF IInv, ItemsHavePlans
<1>15. \A k \in Rows(items') : k \in FreshItems \/ (k \in Rows(items) /\ items'[k].plan = items[k].plan)
  BY <1>7, <1>9, RowTypes DEF IInv
<1>16. TableOK(items', Rows(plans))
  BY <1>5, <1>11, <1>12, <1>14, <1>15, OtherPlans DEF TableOK
<1>17. items'[i].order = n + 1
  BY <1>6
<1>18. \A k \in Rows(items) : items'[k] = items[k]
  BY <1>4, <1>7, RowTypes DEF IInv
<1> QED BY <1>4, <1>9, <1>12, <1>10, <1>16, <1>17, <1>18

\* A new payload changes neither the plan nor the number of an item.
LEMMA PayloadTable ==
    ASSUME IInv, NEW i \in Rows(items), NEW v \in Payloads
    PROVE  /\ TableOK([items EXCEPT ![i].payload = v], Rows(plans))
           /\ \A p \in PlanIds : SameList([items EXCEPT ![i].payload = v], p)
<1> DEFINE t == [items EXCEPT ![i].payload = v]
<1>1. i \in ItemIds /\ items[i] \in ItemRow
  BY RowTypes DEF IInv
<1>2. t \in [ItemIds -> ItemRow \cup {None}] /\ t[i] \in ItemRow
  BY <1>1 DEF IInv, TypeOK, ItemRow
<1>3. \A k \in ItemIds : k \in Rows(items) => t[k].plan = items[k].plan /\ t[k].order = items[k].order
  BY <1>1, RowTypes DEF IInv, TypeOK, ItemRow
<1>4. Rows(t) = Rows(items)
  <2>1. \A k \in ItemIds \ {i} : t[k] = items[k]
    BY DEF IInv, TypeOK
  <2>2. t[i] # None
    BY <1>2, PlansAssumption
  <2>3. DOMAIN t = ItemIds /\ DOMAIN items = ItemIds
    BY <1>2 DEF IInv, TypeOK
  <2> HIDE DEF t
  <2> QED BY <1>1, <2>1, <2>2, <2>3 DEF Rows
<1> HIDE DEF t
<1>5. \A p \in PlanIds : SameList(t, p)
  BY <1>3, <1>4, RowTypes DEF IInv, ItemsIn, ItemsOf, SameList
<1>6. TableOK(t, Rows(plans))
  BY <1>2, <1>3, <1>4, <1>5, OtherPlans, RowTypes DEF IInv, TableOK, ItemsHavePlans
<1> QED BY <1>5, <1>6 DEF t

\* A removal leaves the others of its plan numbered by rank.
LEMMA WithoutTable ==
    ASSUME IInv, NEW p \in PlanIds, NEW gone, gone \cap Rows(items) \subseteq ItemsOf(p)
    PROVE  /\ TableOK(Without(gone, p), Rows(plans))
           /\ ItemsIn(Without(gone, p), p) = ItemsOf(p) \ gone
           /\ \A q \in PlanIds \ {p} : SameList(Without(gone, p), q)
           /\ Rows(Without(gone, p)) = Rows(items) \ gone
           /\ \A i \in Rows(items) \ ItemsOf(p) : Without(gone, p)[i] = items[i]
           /\ \A i \in ItemsOf(p) \ gone : Without(gone, p)[i].order =
                Rank(ItemsOf(p) \ gone, [k \in ItemsOf(p) \ gone |-> items[k].order])[i]
<1> DEFINE rest == ItemsOf(p) \ gone
           ord == [k \in rest |-> items[k].order]
           t == Without(gone, p)
<1>1. rest \in SUBSET ItemIds /\ IsFiniteSet(rest)
  BY RowTypes, PlanFinite DEF IInv
<1>2. ord \in [rest -> Nat] /\ \A i, j \in rest : ord[i] = ord[j] => i = j
  BY RowTypes, OrdersDistinct DEF IInv, ItemRow
<1>3. Numbers(rest, Rank(rest, ord))
  BY <1>1, <1>2, RankNumbers
<1>4. ASSUME NEW i \in rest
      PROVE  /\ Rank(rest, ord)[i] = Cardinality({j \in rest : items[j].order <= items[i].order})
             /\ Rank(rest, ord)[i] \in Nat \ {0}
  <2>1. {j \in rest : ord[j] <= ord[i]} = {j \in rest : items[j].order <= items[i].order}
    OBVIOUS
  <2>2. Rank(rest, ord)[i] = Cardinality({j \in rest : items[j].order <= items[i].order})
    BY <2>1 DEF Rank
  <2>3. Rank(rest, ord)[i] \in 1..Cardinality(rest)
    BY <1>3 DEF Numbers
  <2> QED BY <1>1, <2>2, <2>3, FS_CardinalityType
<1>5. ASSUME NEW i \in rest
      PROVE  /\ t[i] \in ItemRow /\ t[i].plan = p
             /\ t[i].order = Rank(rest, ord)[i]
  <2>1. i \in ItemIds /\ i \notin gone /\ items[i] \in ItemRow /\ items[i].plan = p
    BY <1>5, RowTypes DEF IInv, ItemsOf
  <2>2. t[i] = [items[i] EXCEPT !.order = Cardinality({j \in rest : items[j].order <= items[i].order})]
    BY <1>5, <2>1 DEF Without
  <2>3. t[i] = [items[i] EXCEPT !.order = Rank(rest, ord)[i]]
    BY <1>4, <1>5, <2>2
  <2> QED BY <1>4, <1>5, <2>1, <2>3 DEF ItemRow
<1>6. \A i \in ItemIds : i \in gone => t[i] = None
  BY DEF Without
<1>7. \A i \in ItemIds : i \notin gone /\ i \notin rest => t[i] = items[i]
  BY DEF Without
<1>8. t \in [ItemIds -> ItemRow \cup {None}]
  <2>1. \A i \in ItemIds : t[i] \in ItemRow \cup {None}
    BY <1>5, <1>6, <1>7 DEF IInv, TypeOK
  <2>2. t = [i \in ItemIds |-> t[i]]
    BY DEF Without
  <2> HIDE DEF t
  <2> QED BY <2>1, <2>2
<1> HIDE DEF t
<1>9. Rows(t) = Rows(items) \ gone
  <2>1. DOMAIN t = ItemIds /\ DOMAIN items = ItemIds
    BY <1>8 DEF IInv, TypeOK
  <2>2. \A i \in rest : t[i] # None /\ items[i] # None
    BY <1>5, PlansAssumption DEF ItemsOf, Rows
  <2> HIDE DEF rest
  <2> QED BY <1>1, <1>6, <1>7, <2>1, <2>2 DEF Rows
<1>10. ItemsIn(t, p) = rest
  BY <1>5, <1>7, <1>9, RowTypes DEF IInv, ItemsIn, ItemsOf
<1>11. PlanNumbered(t, p)
  <2>1. {t[i].order : i \in rest} = {Rank(rest, ord)[i] : i \in rest}
    BY <1>5
  <2> QED BY <1>3, <1>10, <2>1 DEF PlanNumbered, Numbers
<1>12. ASSUME NEW q \in PlanIds, q # p PROVE SameList(t, q)
  <2>1. \A i \in ItemsOf(q) : i \notin rest /\ i \notin gone /\ i \in ItemIds
    BY <1>12, RowTypes DEF IInv, ItemsOf
  <2>2. \A i \in ItemsOf(q) : t[i] = items[i]
    BY <1>7, <2>1
  <2>3. ItemsIn(t, q) = ItemsOf(q)
    <3>1. \A i \in Rows(t) : t[i].plan = q => i \in ItemsOf(q)
      BY <1>5, <1>7, <1>9, <1>12, RowTypes DEF IInv, ItemsOf
    <3>2. \A i \in ItemsOf(q) : i \in Rows(t) /\ t[i].plan = q
      BY <1>9, <2>1, <2>2 DEF ItemsOf
    <3> QED BY <3>1, <3>2 DEF ItemsIn
  <2> QED BY <2>2, <2>3 DEF SameList
<1>13. \A i \in Rows(t) : i \in Rows(items) /\ t[i].plan = items[i].plan
  BY <1>5, <1>7, <1>9, RowTypes DEF IInv, ItemsOf
<1>14. TableOK(t, Rows(plans))
  BY <1>8, <1>11, <1>12, <1>13, OtherPlans DEF TableOK, IInv, ItemsHavePlans
<1>15. \A i \in Rows(items) \ ItemsOf(p) : t[i] = items[i]
  BY <1>7, RowTypes DEF IInv
<1>16. \A i \in rest : t[i].order = Rank(rest, ord)[i]
  BY <1>5
<1> QED BY <1>9, <1>10, <1>12, <1>14, <1>15, <1>16 DEF t

\* The table that an accepted reorder writes.
Reordered(ids) ==
    [i \in ItemIds |-> IF i \in Range(ids) THEN [items[i] EXCEPT !.order = AntiFunction(ids)[i]]
                       ELSE items[i]]

\* A reorder that the unique index accepts leaves a numbering, even when the plan
\* has got items since the request was validated.
LEMMA ReorderTable ==
    ASSUME IInv, NEW p \in PlanIds, NEW ids \in Requests, IsInjective(ids),
           \A i \in Range(ids) \cap Rows(items) : items[i].plan = p,
           ReorderAccepted(p, ids)
    PROVE  /\ TableOK(Reordered(ids), Rows(plans))
           /\ ItemsIn(Reordered(ids), p) = ItemsOf(p)
           /\ \A q \in PlanIds \ {p} : SameList(Reordered(ids), q)
           /\ Rows(Reordered(ids)) = Rows(items)
           /\ \A i \in Rows(items) :
                /\ Reordered(ids)[i].plan = items[i].plan
                /\ i \notin Range(ids) => Reordered(ids)[i] = items[i]
           /\ Range(ids) \in SUBSET ItemsOf(p)
<1> DEFINE t == Reordered(ids)
           R == Range(ids)
           S == ItemsOf(p)
           n == Cardinality(S)
           ord == [i \in S |-> t[i].order]
<1>1. PICK m \in Nat : ids \in [1..m -> ItemIds]
  BY RequestType
<1>2. R \in SUBSET S
  BY DEF ReorderAccepted, ItemsOf
<1>3. IsFiniteSet(S) /\ n \in Nat /\ S \in SUBSET ItemIds /\ S \in SUBSET Rows(items)
  BY PlanFinite, RowTypes DEF IInv
<1>4. m <= n
  <2>1. ids \in Injection(1..m, S)
    BY <1>1, <1>2 DEF Injection, Range
  <2>2. Cardinality(1..m) = m
    BY FS_Interval
  <2> QED BY <1>3, <2>1, <2>2, FS_Injection
<1>5. /\ \A i \in R : AntiFunction(ids)[i] \in 1..m /\ ids[AntiFunction(ids)[i]] = i
      /\ \A i, j \in R : AntiFunction(ids)[i] = AntiFunction(ids)[j] => i = j
  <2>1. \A i \in Range(ids) : AntiFunction(ids)[i] \in 1..m /\ ids[AntiFunction(ids)[i]] = i
    BY <1>1, AntiFunctionInverts
  <2> QED BY <2>1
<1>6. \A i \in R : /\ t[i] \in ItemRow /\ t[i].plan = items[i].plan
                   /\ t[i].order = AntiFunction(ids)[i]
  <2> SUFFICES ASSUME NEW i \in R
               PROVE  /\ t[i] \in ItemRow /\ t[i].plan = items[i].plan
                      /\ t[i].order = AntiFunction(ids)[i]
    OBVIOUS
  <2>1. i \in ItemIds /\ items[i] \in ItemRow
    BY <1>2, <1>3, RowTypes DEF IInv
  <2>2. t[i] = [items[i] EXCEPT !.order = AntiFunction(ids)[i]]
    BY <2>1 DEF Reordered
  <2>3. AntiFunction(ids)[i] \in Nat \ {0}
    BY <1>5
  <2> QED BY <2>1, <2>2, <2>3 DEF ItemRow
<1>7. \A i \in ItemIds \ R : t[i] = items[i]
  BY DEF Reordered
<1>8. t \in [ItemIds -> ItemRow \cup {None}]
  <2>1. \A i \in ItemIds : t[i] \in ItemRow \cup {None}
    BY <1>6, <1>7 DEF IInv, TypeOK
  <2>2. t = [i \in ItemIds |-> t[i]]
    BY DEF Reordered
  <2> HIDE DEF t
  <2> QED BY <2>1, <2>2
<1> HIDE DEF t
<1>9. Rows(t) = Rows(items)
  <2>1. DOMAIN t = ItemIds /\ DOMAIN items = ItemIds
    BY <1>8 DEF IInv, TypeOK
  <2>2. \A i \in R : t[i] # None /\ items[i] # None
    BY <1>2, <1>6, PlansAssumption DEF ItemsOf, Rows
  <2> HIDE DEF R
  <2> QED BY <1>7, <2>1, <2>2 DEF Rows
<1>10. \A i \in Rows(items) : t[i].plan = items[i].plan
  BY <1>6, <1>7, RowTypes DEF IInv
<1>11. \A q \in PlanIds : ItemsIn(t, q) = ItemsOf(q)
  BY <1>9, <1>10 DEF ItemsIn, ItemsOf
<1>12. PlanNumbered(t, p)
  <2>1. \A i \in S \ R : ord[i] = items[i].order
    BY <1>3, <1>7
  <2>2. \A i \in R : ord[i] = AntiFunction(ids)[i]
    BY <1>2, <1>6
  <2>3. \A i \in S : items[i].order \in 1..n
    BY OrdersDistinct
  <2>4. \A i \in S : ord[i] \in 1..n
    <3> SUFFICES ASSUME NEW i \in S PROVE ord[i] \in 1..n
      OBVIOUS
    <3>1. CASE i \in R
      <4>1. ord[i] \in 1..m
        BY <1>5, <2>2, <3>1
      <4> QED BY <1>3, <1>4, <4>1
    <3>2. CASE i \notin R
      BY <2>1, <2>3, <3>2
    <3> QED BY <3>1, <3>2
  <2>5. ord \in [S -> 1..n]
    BY <2>4
  <2>6. ASSUME NEW i \in S, NEW j \in S, ord[i] = ord[j] PROVE i = j
    <3>1. CASE i \in R /\ j \in R
      BY <1>5, <2>2, <2>6, <3>1
    <3>2. CASE i \notin R /\ j \notin R
      BY <2>1, <2>6, <3>2, OrdersDistinct
    <3>3. ASSUME NEW a \in R, NEW b \in S \ R PROVE ord[a] # ord[b]
      <4>1. SUFFICES ASSUME items[b].order = AntiFunction(ids)[a] PROVE b \in R
        BY <2>1, <2>2
      <4>2. AntiFunction(ids)[a] \in DOMAIN ids
        BY <1>1, <1>5
      <4>3. PICK k \in 1..AntiFunction(ids)[a] : ids[k] = b
        BY <4>1, <4>2 DEF ReorderAccepted
      <4>4. k \in DOMAIN ids
        BY <1>1, <1>5
      <4> QED BY <4>3, <4>4 DEF Range
    <3> QED BY <2>6, <3>1, <3>2, <3>3
  <2>7. Numbers(S, ord)
    BY <1>3, <2>5, <2>6, InjectiveNumbers
  <2>8. {t[i].order : i \in S} = {ord[i] : i \in S}
    OBVIOUS
  <2> QED BY <1>11, <2>7, <2>8 DEF PlanNumbered, Numbers
<1>13. ASSUME NEW q \in PlanIds, q # p PROVE SameList(t, q)
  <2>1. \A i \in ItemsOf(q) : i \in ItemIds \ R
    BY <1>2, <1>13, RowTypes DEF IInv, ItemsOf
  <2> QED BY <1>7, <1>11, <2>1 DEF SameList
<1>14. TableOK(t, Rows(plans))
  BY <1>8, <1>9, <1>10, <1>12, <1>13, OtherPlans DEF TableOK, IInv, ItemsHavePlans
<1>15. \A i \in Rows(items) : i \notin Range(ids) => t[i] = items[i]
  BY <1>7, RowTypes DEF IInv
<1> QED BY <1>2, <1>9, <1>10, <1>11, <1>13, <1>14, <1>15 DEF t

\* A plan that is created gets the lines of its base and nothing else.
LEMMA CopyTable ==
    ASSUME IInv, NEW p \in PlanIds \ Rows(plans),
           NEW copy \in SUBSET [order : Nat \ {0}, payload : Payloads],
           IsFiniteSet(copy), LinesNumbered(copy),
           NEW t \in CopiedItems(p, copy)
    PROVE  /\ TableOK(t, Rows(plans) \cup {p})
           /\ \A q \in PlanIds \ {p} : SameList(t, q)
           /\ ItemsIn(t, p) \cap Rows(items) = {}
<1>1. PICK f \in [copy -> FreshItems] :
        /\ IsInjective(f)
        /\ \A c \in copy : t[f[c]] = [plan |-> p, order |-> c.order, payload |-> c.payload]
        /\ \A i \in ItemIds \ Range(f) : t[i] = items[i]
  BY CopyWrites DEF IInv
<1>2. t \in [ItemIds -> ItemRow \cup {None}]
  BY CopyWrites DEF IInv
<1> DEFINE R == Range(f)
<1>3. R \in SUBSET FreshItems /\ \A i \in R : \E c \in copy : i = f[c]
  BY DEF Range
<1>4. \A i \in R : i \in ItemIds /\ i \notin Rows(items)
  BY <1>3, FreshNotRows
<1>5. \A i \in R : t[i].plan = p /\ t[i] \in ItemRow
  <2> SUFFICES ASSUME NEW c \in copy PROVE t[f[c]].plan = p /\ t[f[c]] \in ItemRow
    BY <1>3
  <2>1. t[f[c]] = [plan |-> p, order |-> c.order, payload |-> c.payload]
    BY <1>1
  <2> QED BY <2>1 DEF ItemRow
<1>6. Rows(t) = Rows(items) \cup R
  <2>1. DOMAIN t = ItemIds /\ DOMAIN items = ItemIds
    BY <1>2 DEF IInv, TypeOK
  <2>2. \A i \in R : t[i] # None
    BY <1>5, PlansAssumption
  <2> HIDE DEF R
  <2>3. \A i \in ItemIds \ R : t[i] = items[i]
    BY <1>1 DEF R
  <2> QED BY <1>4, <2>1, <2>2, <2>3 DEF Rows
<1>7. \A i \in Rows(items) : t[i] = items[i]
  BY <1>1, <1>4, RowTypes DEF IInv
<1>8. ItemsOf(p) = {}
  BY DEF IInv, ItemsHavePlans, ItemsOf
<1>9. ItemsIn(t, p) = R
  BY <1>5, <1>6, <1>7, <1>8 DEF ItemsIn, ItemsOf
<1>10. PlanNumbered(t, p)
  <2>1. f \in [copy -> R]
    BY DEF Range
  <2>2. f \in Bijection(copy, R)
    BY <1>1, <2>1 DEF Bijection, Injection, Surjection, Range
  <2>3. Cardinality(R) = Cardinality(copy)
    BY <2>2, FS_Bijection DEF ExistsBijection
  <2>4. {t[i].order : i \in R} = {c.order : c \in copy}
    <3>1. \A c \in copy : t[f[c]].order = c.order
      <4> SUFFICES ASSUME NEW c \in copy PROVE t[f[c]].order = c.order
        OBVIOUS
      <4>1. t[f[c]] = [plan |-> p, order |-> c.order, payload |-> c.payload]
        BY <1>1
      <4> QED BY <4>1
    <3>2. \A i \in R : \E c \in copy : t[i].order = c.order
      BY <1>3, <3>1
    <3>3. \A c \in copy : \E i \in R : t[i].order = c.order
      BY <2>1, <3>1
    <3> QED BY <3>2, <3>3
  <2>5. {c.order : c \in copy} = 1..Cardinality(copy)
    BY DEF LinesNumbered
  <2> QED BY <1>9, <2>3, <2>4, <2>5 DEF PlanNumbered
<1>11. ASSUME NEW q \in PlanIds, q # p PROVE SameList(t, q)
  <2>1. ItemsIn(t, q) = ItemsOf(q)
    BY <1>5, <1>6, <1>7, <1>11 DEF ItemsIn, ItemsOf
  <2>2. \A i \in ItemsOf(q) : t[i] = items[i]
    BY <1>7, RowTypes DEF IInv
  <2> QED BY <2>1, <2>2 DEF SameList
<1>12. \A i \in Rows(t) : t[i].plan \in Rows(plans) \cup {p}
  BY <1>5, <1>6, <1>7 DEF IInv, ItemsHavePlans
<1>13. TableOK(t, Rows(plans) \cup {p})
  BY <1>2, <1>3, <1>6, <1>7, <1>10, <1>11, <1>12, OtherPlans DEF TableOK
<1> QED BY <1>4, <1>9, <1>11, <1>13

-----------------------------------------------------------------------------
(* The steps preserve the invariant *)

\* A step of a call that touches neither table.
LEMMA CallInv ==
    ASSUME IInv, UNCHANGED <<plans, items>>,
           NEW h \in Handlers, NEW j \in Job, CallOK(j, items), job' = [job EXCEPT ![h] = j]
    PROVE  IInv'
<1>1. TableOK(items', Rows(plans)')
  BY ItemsTableOK DEF Rows
<1>2. plans' \in [PlanIds -> PlanRow \cup {None}]
  BY DEF IInv, TypeOK
<1>3. CallOK(j, items')
  OBVIOUS
<1> QED BY <1>1, <1>2, <1>3, StepInv

LEMMA QuietEndInv ==
    ASSUME IInv, UNCHANGED <<plans, items>>, NEW h \in Handlers, End(h)
    PROVE  IInv'
BY CallInv, IdleOK, IdleType DEF End

\* A step of a call that leaves the plans alone.
LEMMA ItemsInv ==
    ASSUME IInv, TableOK(items', Rows(plans)), UNCHANGED plans
    PROVE  /\ TableOK(items', Rows(plans)')
           /\ plans' \in [PlanIds -> PlanRow \cup {None}]
BY DEF IInv, TypeOK, Rows

LEMMA createAttemptInv ==
    ASSUME IInv, NEW h \in Handlers, createAttempt(h)
    PROVE  IInv'
<1> DEFINE j == job[h]
           date == j.asked + j.tries
<1>1. /\ j \in Job /\ j.kind = "create" /\ j.asked \in Nat /\ j.tries \in Nat
      /\ j.title \in Payloads /\ CallOK(j, items)
      /\ j.copy \in SUBSET [order : Nat \ {0}, payload : Payloads]
  BY JobFields DEF createAttempt, IInv, TypeOK, CallsOK
<1>2. CASE DateTaken(date) /\ j.tries + 1 = MaxTries
  BY <1>2, QuietEndInv DEF createAttempt
<1>3. CASE DateTaken(date) /\ j.tries + 1 # MaxTries
  <2> DEFINE next == [j EXCEPT !.tries = j.tries + 1]
  <2>1. job' = [job EXCEPT ![h] = next] /\ UNCHANGED <<plans, items>>
    BY <1>3 DEF createAttempt
  <2>2. next \in Job /\ CallOK(next, items)
    BY <1>1 DEF Job, CallOK
  <2> QED BY <2>1, <2>2, CallInv
<1>4. CASE ~DateTaken(date)
  <2>1. PICK p \in PlanIds \ Rows(plans) :
          /\ plans' = [plans EXCEPT ![p] = [date |-> date, deleted |-> FALSE,
                                            title |-> j.title, asked |-> j.asked]]
          /\ items' \in CopiedItems(p, j.copy)
          /\ End(h)
    BY <1>4 DEF createAttempt
  <2>2. TableOK(items', Rows(plans) \cup {p})
    BY <1>1, <2>1, CopyTable DEF CallOK
  <2>3. plans' \in [PlanIds -> PlanRow \cup {None}] /\ plans'[p] \in PlanRow
    BY <1>1, <2>1 DEF IInv, TypeOK, PlanRow
  <2>4. Rows(plans)' = Rows(plans) \cup {p}
    BY <2>1, <2>3, PlansAssumption DEF IInv, TypeOK, Rows
  <2> QED BY <2>1, <2>2, <2>3, <2>4, EndInv
<1> QED BY <1>2, <1>3, <1>4

LEMMA JobStepInv ==
    ASSUME IInv, NEW h \in Handlers, JobStep(h)
    PROVE  IInv'
<1>1. job[h] \in Job /\ CallOK(job[h], items)
  BY DEF IInv, TypeOK, CallsOK
<1>2. CASE createAttempt(h)
  BY <1>2, createAttemptInv
<1>3. CASE updateItemWrite(h)
  <2>1. TableOK(items', Rows(plans))
    BY <1>1, <1>3, JobFields, PayloadTable, ItemsTableOK DEF updateItemWrite
  <2> QED BY <1>3, <2>1, ItemsInv, EndInv DEF updateItemWrite
<1>4. CASE removeItemWrite(h)
  <2>1. /\ job[h].plan \in PlanIds
        /\ {job[h].item} \cap Rows(items) \subseteq ItemsOf(job[h].plan)
    BY <1>1, <1>4, JobFields DEF removeItemWrite, CallOK, ItemsOf
  <2>2. TableOK(items', Rows(plans))
    BY <1>4, <2>1, WithoutTable DEF removeItemWrite
  <2> QED BY <1>4, <2>2, ItemsInv, EndInv DEF removeItemWrite
<1>5. CASE reorderWrite(h)
  <2>1. /\ job[h].plan \in PlanIds /\ job[h].ids \in Requests /\ IsInjective(job[h].ids)
        /\ \A i \in Range(job[h].ids) \cap Rows(items) : items[i].plan = job[h].plan
    BY <1>1, <1>5, JobFields DEF reorderWrite, CallOK
  <2>2. items' = IF ReorderAccepted(job[h].plan, job[h].ids) THEN Reordered(job[h].ids) ELSE items
    BY <1>5 DEF reorderWrite, Reordered
  <2>3. TableOK(items', Rows(plans))
    BY <2>1, <2>2, ReorderTable, ItemsTableOK
  <2> QED BY <1>5, <2>3, ItemsInv, EndInv DEF reorderWrite
<1>6. CASE importLine(h)
  <2>1. job[h].plan \in PlanIds /\ job[h].left \in Nat /\ job[h].payload \in Payloads
    BY <1>1, <1>6, JobFields DEF importLine
  <2>2. CASE job[h].left = 0
    BY <1>6, <2>2, QuietEndInv DEF importLine
  <2>3. CASE job[h].left # 0
    <3> DEFINE next == [job[h] EXCEPT !.left = job[h].left - 1]
    <3>1. TableOK(items', Rows(plans))
      BY <1>6, <2>1, <2>3, AddTable DEF importLine
    <3>2. job' = [job EXCEPT ![h] = next]
      BY <1>6, <2>3 DEF importLine
    <3>3. next \in Job /\ next.kind = "import"
      BY <1>1, <1>6, <2>1, <2>3 DEF importLine, Job
    <3>4. CallOK(next, items')
      BY <3>3 DEF CallOK
    <3>5. UNCHANGED plans
      BY <1>6 DEF importLine
    <3> HIDE DEF next
    <3> QED BY <3>1, <3>2, <3>3, <3>4, <3>5, ItemsInv, StepInv
  <2> QED BY <2>2, <2>3
<1>7. CASE outOfIds(h)
  BY <1>7, QuietEndInv DEF outOfIds
<1> QED BY <1>2, <1>3, <1>4, <1>5, <1>6, <1>7 DEF JobStep

\* The lines that a duplication reads are numbered like the items of its base.
LEMMA CopiedLines ==
    ASSUME IInv, NEW p \in PlanIds,
           NEW copy, copy = {[order |-> items[i].order, payload |-> items[i].payload] : i \in ItemsOf(p)}
    PROVE  /\ copy \in SUBSET [order : Nat \ {0}, payload : Payloads]
           /\ IsFiniteSet(copy) /\ LinesNumbered(copy)
<1> DEFINE S == ItemsOf(p)
           line == [i \in S |-> [order |-> items[i].order, payload |-> items[i].payload]]
<1>1. \A i \in S : items[i] \in ItemRow
  BY RowTypes DEF IInv
<1>2. copy \in SUBSET [order : Nat \ {0}, payload : Payloads]
  BY <1>1 DEF ItemRow
<1>3. line \in [S -> copy] /\ \A c \in copy : \E i \in S : line[i] = c
  OBVIOUS
<1>4. \A i, j \in S : line[i] = line[j] => i = j
  BY OrdersDistinct
<1>5. line \in Bijection(S, copy)
  BY <1>3, <1>4, Fun_IsBij
<1>6. IsFiniteSet(S)
  BY PlanFinite DEF IInv
<1>7. IsFiniteSet(copy) /\ Cardinality(copy) = Cardinality(S)
  BY <1>5, <1>6, FS_Bijection DEF ExistsBijection
<1>8. {c.order : c \in copy} = {items[i].order : i \in S}
  <2>1. \A i \in S : line[i].order = items[i].order
    OBVIOUS
  <2> HIDE DEF line
  <2> QED BY <1>3, <2>1
<1>9. {c.order : c \in copy} = 1..Cardinality(copy)
  BY <1>7, <1>8 DEF IInv, OrdersContiguous
<1>10. LinesNumbered(copy)
  BY <1>9 DEF LinesNumbered
<1> QED BY <1>2, <1>7, <1>10

LEMMA RequestInv ==
    ASSUME IInv, NEW h \in Handlers, Request(h)
    PROVE  IInv'
<1>1. ASSUME NEW d \in AskedDates, NEW t \in Payloads, plansCreate(h, d, t)
      PROVE  IInv'
  <2> DEFINE j == [kind |-> "create", asked |-> d, tries |-> 0, title |-> t, copy |-> {}]
  <2>1. j \in Job
    BY PlansAssumption DEF Job
  <2>2. LinesNumbered({})
    BY FS_EmptySet DEF LinesNumbered
  <2>3. CallOK(j, items)
    BY <2>2, FS_EmptySet DEF CallOK
  <2>4. job' = [job EXCEPT ![h] = j] /\ UNCHANGED <<plans, items>>
    BY <1>1 DEF plansCreate, Begin
  <2> HIDE DEF j
  <2> QED BY <2>1, <2>3, <2>4, CallInv
<1>2. ASSUME NEW p \in PlanIds, NEW d \in AskedDates \cup {plans[q].date : q \in Rows(plans)},
             plansDuplicate(h, p, d)
      PROVE  IInv'
  <2> DEFINE copy == {[order |-> items[i].order, payload |-> items[i].payload] : i \in ItemsOf(p)}
             j == [kind |-> "create", asked |-> d, tries |-> 0, title |-> plans[p].title,
                   copy |-> copy]
  <2>1. /\ copy \in SUBSET [order : Nat \ {0}, payload : Payloads]
        /\ IsFiniteSet(copy) /\ LinesNumbered(copy)
    BY CopiedLines
  <2>2. job' = [job EXCEPT ![h] = j] /\ UNCHANGED <<plans, items>>
    BY <1>2 DEF plansDuplicate, Begin
  <2> HIDE DEF copy
  <2>3. d \in Nat /\ plans[p].title \in Payloads
    BY <1>2, PlansAssumption, RowTypes DEF IInv, PlanRow, plansDuplicate
  <2>4. j \in Job
    BY <2>1, <2>3 DEF Job
  <2>5. CallOK(j, items)
    BY <2>1 DEF CallOK
  <2> HIDE DEF j
  <2> QED BY <2>2, <2>4, <2>5, CallInv
<1>3. ASSUME NEW p \in PlanIds, NEW i \in ItemIds, NEW v \in Payloads, plansUpdateItem(h, p, i, v)
      PROVE  IInv'
  <2> DEFINE j == [kind |-> "updateItem", item |-> i, payload |-> v]
  <2>1. j \in Job /\ CallOK(j, items)
    BY DEF Job, CallOK
  <2>2. job' = [job EXCEPT ![h] = j] /\ UNCHANGED <<plans, items>>
    BY <1>3 DEF plansUpdateItem, Begin
  <2> HIDE DEF j
  <2> QED BY <2>1, <2>2, CallInv
<1>4. ASSUME NEW p \in PlanIds, NEW i \in ItemIds, plansRemoveItem(h, p, i)
      PROVE  IInv'
  <2> DEFINE j == [kind |-> "removeItem", item |-> i, plan |-> p]
  <2>1. j \in Job /\ CallOK(j, items)
    BY <1>4 DEF Job, CallOK, plansRemoveItem, ItemsOf
  <2>2. job' = [job EXCEPT ![h] = j] /\ UNCHANGED <<plans, items>>
    BY <1>4 DEF plansRemoveItem, Begin
  <2> HIDE DEF j
  <2> QED BY <2>1, <2>2, CallInv
<1>5. ASSUME NEW p \in PlanIds, NEW ids \in Requests, plansReorder(h, p, ids)
      PROVE  IInv'
  <2> DEFINE j == [kind |-> "reorder", plan |-> p, ids |-> ids]
  <2>1. IsInjective(ids) /\ Range(ids) \in SUBSET ItemsOf(p)
    BY <1>5 DEF plansReorder, validatePlanReorderPayload
  <2>2. j \in Job
    BY DEF Job
  <2>3. CallOK(j, items)
    BY <2>1 DEF CallOK, ItemsOf
  <2>4. job' = [job EXCEPT ![h] = j] /\ UNCHANGED <<plans, items>>
    BY <1>5 DEF plansReorder, Begin
  <2> HIDE DEF j
  <2> QED BY <2>2, <2>3, <2>4, CallInv
<1>6. ASSUME NEW p \in PlanIds, NEW n \in 1..MaxImport, NEW v \in Payloads,
             plansImportFromFile(h, p, n, v)
      PROVE  IInv'
  <2> DEFINE j == [kind |-> "import", plan |-> p, left |-> n, payload |-> v]
  <2>1. j \in Job /\ CallOK(j, items)
    BY PlansAssumption DEF Job, CallOK
  <2>2. job' = [job EXCEPT ![h] = j] /\ UNCHANGED <<plans, items>>
    BY <1>6 DEF plansImportFromFile, Begin
  <2> HIDE DEF j
  <2> QED BY <2>1, <2>2, CallInv
<1> QED BY <1>1, <1>2, <1>3, <1>4, <1>5, <1>6 DEF Request

\* A new title or a soft delete leaves the same rows.
LEMMA PlanRowInv ==
    ASSUME IInv, NEW p \in Rows(plans), NEW r \in PlanRow, plans' = [plans EXCEPT ![p] = r],
           UNCHANGED <<items, job>>
    PROVE  IInv'
<1>1. plans' \in [PlanIds -> PlanRow \cup {None}]
  BY DEF IInv, TypeOK
<1>2. Rows(plans)' = Rows(plans)
  BY PlansAssumption DEF IInv, TypeOK, Rows
<1>3. TableOK(items', Rows(plans)')
  BY <1>2, ItemsTableOK
<1> QED BY <1>1, <1>3, DirectInv

LEMMA DirectStepInv == ASSUME IInv, Direct PROVE IInv'
<1>1. ASSUME NEW p \in PlanIds, NEW t \in Payloads, plansUpdate(p, t) PROVE IInv'
  <2>1. p \in Rows(plans) /\ plans[p] \in PlanRow
    BY <1>1, RowTypes DEF IInv, plansUpdate
  <2>2. [plans[p] EXCEPT !.title = t] \in PlanRow
    BY <2>1 DEF PlanRow
  <2>3. plans' = [plans EXCEPT ![p] = [plans[p] EXCEPT !.title = t]] /\ UNCHANGED <<items, job>>
    BY <1>1 DEF plansUpdate
  <2> QED BY <2>1, <2>2, <2>3, PlanRowInv
<1>2. ASSUME NEW p \in PlanIds, plansDelete(p) PROVE IInv'
  <2>1. p \in Rows(plans) /\ plans[p] \in PlanRow
    BY <1>2, RowTypes DEF IInv, plansDelete
  <2>2. [plans[p] EXCEPT !.deleted = TRUE] \in PlanRow
    BY <2>1 DEF PlanRow
  <2>3. plans' = [plans EXCEPT ![p] = [plans[p] EXCEPT !.deleted = TRUE]] /\ UNCHANGED <<items, job>>
    BY <1>2 DEF plansDelete
  <2> QED BY <2>1, <2>2, <2>3, PlanRowInv
<1>3. ASSUME NEW p \in PlanIds, NEW v \in Payloads, plansAddItem(p, v) PROVE IInv'
  BY <1>3, AddTable, ItemsInv, DirectInv DEF plansAddItem
<1>4. ASSUME NEW p \in PlanIds, NEW gone \in SUBSET ItemIds, plansRemoveItems(p, gone) PROVE IInv'
  BY <1>4, WithoutTable, ItemsInv, DirectInv DEF plansRemoveItems
<1> QED BY <1>1, <1>2, <1>3, <1>4 DEF Direct

LEMMA InitInv == Init => IInv
<1> SUFFICES ASSUME Init PROVE IInv
  OBVIOUS
<1>1. TypeOK
  BY InitType
<1>2. Rows(items) = {}
  BY DEF Init, Rows
<1>3. \A p : ItemsOf(p) = {}
  BY <1>2 DEF ItemsOf
<1>4. OrdersContiguous /\ ItemsHavePlans
  BY <1>2, <1>3, FS_EmptySet DEF OrdersContiguous, ItemsHavePlans
<1>5. CallsOK
  BY IdleOK DEF Init, CallsOK
<1> QED BY <1>1, <1>4, <1>5 DEF IInv

LEMMA NextInv == IInv /\ [Next]_vars => IInv'
<1> SUFFICES ASSUME IInv, [Next]_vars PROVE IInv'
  OBVIOUS
<1>1. ASSUME NEW h \in Handlers, JobStep(h) PROVE IInv'
  BY <1>1, JobStepInv
<1>2. ASSUME NEW h \in Handlers, callFails(h) PROVE IInv'
  BY <1>2, QuietEndInv DEF callFails
<1>3. ASSUME NEW h \in Handlers, Request(h) PROVE IInv'
  BY <1>3, RequestInv
<1>4. CASE Direct
  BY <1>4, DirectStepInv
<1>5. CASE UNCHANGED vars
  <2>1. plans' \in [PlanIds -> PlanRow \cup {None}]
    BY <1>5 DEF IInv, TypeOK, vars
  <2>2. TableOK(items', Rows(plans)')
    BY <1>5, ItemsTableOK DEF vars, Rows
  <2> QED BY <1>5, <2>1, <2>2, DirectInv DEF vars
<1> QED BY <1>1, <1>2, <1>3, <1>4, <1>5 DEF Next

\* The tables and the calls keep their types.
THEOREM TypeCorrect == Spec => []TypeOK
<1>1. IInv => TypeOK
  BY DEF IInv
<1> QED BY <1>1, InitInv, NextInv, PTL DEF Spec

\* The items of every plan are numbered from 1 without a gap or a repetition,
\* whichever adds, imports, duplications, removals and reorders of plans.ts
\* overlap and however old the lists are that they decided on.
THEOREM NumberingTheorem == Spec => []OrdersContiguous
<1>1. IInv => OrdersContiguous
  BY DEF IInv
<1> QED BY <1>1, InitInv, NextInv, PTL DEF Spec

-----------------------------------------------------------------------------
(***************************************************************************)
(* The dates.  A call that has probed some days and found them taken may   *)
(* rely on it later, because a plan never leaves its day, deleted or not.  *)
(***************************************************************************)
DatesProbed ==
    \A h \in Handlers : job[h].kind = "create" =>
        \A d \in Nat : job[h].asked <= d /\ d < job[h].asked + job[h].tries => DateTaken(d)

DInv == FirstFreeDate /\ DatesProbed

\* A step that keeps the days of the plans and lets no call probe.
LEMMA DatesStay ==
    ASSUME IInv, DInv, Rows(plans)' = Rows(plans),
           \A p \in Rows(plans) : plans'[p].date = plans[p].date /\ plans'[p].asked = plans[p].asked,
           \A h \in Handlers : job'[h].kind = "create" => job'[h] = job[h] \/ job'[h].tries = 0,
           TypeOK'
    PROVE  DInv'
<1>1. \A d : DateTaken(d)' <=> DateTaken(d)
  BY DEF DateTaken
<1>2. FirstFreeDate'
  BY <1>1, RowTypes DEF IInv, DInv, FirstFreeDate, PlanRow
<1>3. DatesProbed'
  <2> SUFFICES ASSUME NEW h \in Handlers, job'[h].kind = "create", NEW d \in Nat,
                      job'[h].asked <= d, d < job'[h].asked + job'[h].tries
               PROVE  DateTaken(d)'
    BY DEF DatesProbed
  <2>1. job'[h] \in Job /\ job'[h].asked \in Nat /\ job'[h].tries \in Nat
    BY JobFields DEF TypeOK
  <2>2. job'[h].tries # 0
    BY <2>1
  <2>3. job'[h] = job[h]
    BY <2>2
  <2> QED BY <1>1, <2>3 DEF DInv, DatesProbed
<1> QED BY <1>2, <1>3 DEF DInv

LEMMA createAttemptDates ==
    ASSUME IInv, DInv, TypeOK', NEW h \in Handlers, createAttempt(h)
    PROVE  DInv'
<1> DEFINE j == job[h]
           date == j.asked + j.tries
<1>1. j.kind = "create" /\ j.asked \in Nat /\ j.tries \in Nat /\ j.title \in Payloads
  BY JobFields DEF createAttempt, IInv, TypeOK
<1>2. \A d \in Nat : j.asked <= d /\ d < date => DateTaken(d)
  BY <1>1 DEF DInv, DatesProbed
<1>3. CASE DateTaken(date) /\ j.tries + 1 = MaxTries
  BY <1>3, DatesStay DEF createAttempt, End, Idle, Rows, IInv, TypeOK
<1>4. CASE DateTaken(date) /\ j.tries + 1 # MaxTries
  <2>1. /\ job' = [job EXCEPT ![h] = [j EXCEPT !.tries = j.tries + 1]]
        /\ UNCHANGED <<plans, items>>
    BY <1>4 DEF createAttempt
  <2>2. \A d : DateTaken(d)' <=> DateTaken(d)
    BY <2>1 DEF DateTaken, Rows
  <2>3. FirstFreeDate'
    BY <2>1, <2>2 DEF DInv, FirstFreeDate, Rows
  <2>4. ASSUME NEW g \in Handlers, job'[g].kind = "create", NEW d \in Nat,
               job'[g].asked <= d, d < job'[g].asked + job'[g].tries
        PROVE  DateTaken(d)
    <3>1. CASE g # h
      <4>1. job'[g] = job[g]
        BY <2>1, <3>1 DEF IInv, TypeOK
      <4> QED BY <2>4, <4>1 DEF DInv, DatesProbed
    <3>2. CASE g = h
      <4>1. job'[g] = [j EXCEPT !.tries = j.tries + 1] /\ j \in Job
        BY <2>1, <3>2 DEF IInv, TypeOK
      <4>2. job'[g].asked = j.asked /\ job'[g].tries = j.tries + 1
        BY <1>1, <4>1 DEF Job
      <4>3. d < date \/ d = date
        BY <1>1, <2>4, <4>2
      <4> QED BY <1>2, <1>4, <2>4, <4>2, <4>3
    <3> QED BY <3>1, <3>2
  <2>5. DatesProbed'
    BY <2>2, <2>4 DEF DatesProbed
  <2> QED BY <2>3, <2>5 DEF DInv
<1>5. CASE ~DateTaken(date)
  <2> DEFINE r == [date |-> date, deleted |-> FALSE, title |-> j.title, asked |-> j.asked]
  <2>1. PICK p \in PlanIds \ Rows(plans) : plans' = [plans EXCEPT ![p] = r] /\ End(h)
    BY <1>5 DEF createAttempt
  <2>2. plans'[p] = r /\ r \in PlanRow
    BY <1>1, <2>1 DEF IInv, TypeOK, PlanRow
  <2>3. \A q \in PlanIds \ {p} : plans'[q] = plans[q]
    BY <2>1 DEF IInv, TypeOK
  <2>4. Rows(plans)' = Rows(plans) \cup {p}
    BY <2>1, <2>2, <2>3, PlansAssumption DEF IInv, TypeOK, Rows
  <2>5. \A q \in Rows(plans) : q # p /\ plans'[q] = plans[q] /\ plans[q] \in PlanRow
    BY <2>1, <2>3, RowTypes DEF IInv
  <2>6. \A d : DateTaken(d)' <=> (DateTaken(d) \/ d = date)
    BY <2>2, <2>4, <2>5 DEF DateTaken
  <2>7. \A q \in Rows(plans) : plans[q].date # date
    BY <1>5 DEF DateTaken
  <2>8. ASSUME NEW q \in Rows(plans)'
        PROVE  /\ plans'[q].date >= plans'[q].asked
               /\ \A d \in plans'[q].asked..(plans'[q].date - 1) : DateTaken(d)'
               /\ \A s \in Rows(plans)' : plans'[s].date = plans'[q].date => s = q
    <3>1. CASE q = p
      <4>1. plans'[q].date = date /\ plans'[q].asked = j.asked
        BY <2>2, <3>1
      <4>2. \A d \in j.asked..(date - 1) : DateTaken(d)
        BY <1>1, <1>2
      <4>3. \A s \in Rows(plans)' : plans'[s].date = date => s = q
        BY <2>4, <2>5, <2>7, <3>1
      <4> QED BY <1>1, <2>6, <4>1, <4>2, <4>3
    <3>2. CASE q \in Rows(plans)
      <4>1. /\ plans[q].date >= plans[q].asked
            /\ \A d \in plans[q].asked..(plans[q].date - 1) : DateTaken(d)
            /\ \A s \in Rows(plans) : plans[s].date = plans[q].date => s = q
        BY <3>2 DEF DInv, FirstFreeDate
      <4>2. plans'[q] = plans[q]
        BY <2>5, <3>2
      <4>3. \A s \in Rows(plans)' : plans'[s].date = plans[q].date => s = q
        BY <2>2, <2>4, <2>5, <2>7, <3>2, <4>1
      <4> QED BY <2>6, <4>1, <4>2, <4>3
    <3> QED BY <2>4, <2>8, <3>1, <3>2
  <2>9. FirstFreeDate'
    BY <2>8 DEF FirstFreeDate
  <2>10. DatesProbed'
    BY <2>1, <2>6 DEF DInv, DatesProbed, End, Idle, IInv, TypeOK
  <2> QED BY <2>9, <2>10 DEF DInv
<1> QED BY <1>3, <1>4, <1>5

LEMMA NextDates == IInv /\ DInv /\ TypeOK' /\ [Next]_vars => DInv'
<1> SUFFICES ASSUME IInv, DInv, TypeOK', [Next]_vars PROVE DInv'
  OBVIOUS
<1> DEFINE Settled == \A h \in Handlers :
                 job'[h].kind = "create" => job'[h] = job[h] \/ job'[h].tries = 0
<1>1. ASSUME UNCHANGED plans, Settled PROVE DInv'
  BY <1>1, DatesStay DEF Rows
<1>2. ASSUME NEW h \in Handlers, JobStep(h) PROVE DInv'
  <2>1. CASE createAttempt(h)
    BY <2>1, createAttemptDates
  <2>2. CASE importLine(h)
    <3>1. job[h].kind = "import" /\ job[h] \in Job
      BY <2>2 DEF importLine, IInv, TypeOK
    <3>2. job' = [job EXCEPT ![h] = Idle] \/ job' = [job EXCEPT ![h] = [job[h] EXCEPT !.left = @ - 1]]
      BY <2>2 DEF importLine, End
    <3>3. job'[h].kind # "create"
      BY <3>1, <3>2 DEF Idle, Job, IInv, TypeOK
    <3>4. Settled /\ UNCHANGED plans
      BY <2>2, <3>2, <3>3 DEF IInv, TypeOK, importLine
    <3> QED BY <1>1, <3>4
  <2>3. CASE updateItemWrite(h) \/ removeItemWrite(h) \/ reorderWrite(h) \/ outOfIds(h)
    <3>1. UNCHANGED plans /\ End(h)
      BY <2>3 DEF updateItemWrite, removeItemWrite, reorderWrite, outOfIds
    <3>2. Settled
      BY <3>1 DEF End, Idle, IInv, TypeOK
    <3> QED BY <1>1, <3>1, <3>2
  <2> QED BY <1>2, <2>1, <2>2, <2>3 DEF JobStep
<1>3. ASSUME NEW h \in Handlers, callFails(h) PROVE DInv'
  BY <1>1, <1>3 DEF callFails, End, Idle, IInv, TypeOK
<1>4. ASSUME NEW h \in Handlers, Request(h) PROVE DInv'
  <2>1. UNCHANGED plans /\ Settled
    BY <1>4 DEF Request, plansCreate, plansDuplicate, plansUpdateItem, plansRemoveItem,
                plansReorder, plansImportFromFile, Begin, IInv, TypeOK
  <2> QED BY <1>1, <2>1
<1>5. CASE Direct
  <2>1. UNCHANGED job
    BY <1>5 DEF Direct, plansUpdate, plansDelete, plansAddItem, plansRemoveItems
  <2>2. ASSUME NEW p \in PlanIds, NEW t \in Payloads, plansUpdate(p, t) PROVE DInv'
    <3>1. Rows(plans)' = Rows(plans)
      BY <2>2, RowTypes, PlansAssumption DEF plansUpdate, Rows, IInv, TypeOK, PlanRow
    <3>2. \A q \in Rows(plans) : plans'[q].date = plans[q].date /\ plans'[q].asked = plans[q].asked
      BY <2>2, RowTypes DEF plansUpdate, IInv, TypeOK, PlanRow
    <3> QED BY <2>1, <3>1, <3>2, DatesStay
  <2>3. ASSUME NEW p \in PlanIds, plansDelete(p) PROVE DInv'
    <3>1. Rows(plans)' = Rows(plans)
      BY <2>3, RowTypes, PlansAssumption DEF plansDelete, Rows, IInv, TypeOK, PlanRow
    <3>2. \A q \in Rows(plans) : plans'[q].date = plans[q].date /\ plans'[q].asked = plans[q].asked
      BY <2>3, RowTypes DEF plansDelete, IInv, TypeOK, PlanRow
    <3> QED BY <2>1, <3>1, <3>2, DatesStay
  <2> QED BY <1>1, <1>5, <2>1, <2>2, <2>3 DEF Direct, plansAddItem, plansRemoveItems
<1>6. CASE UNCHANGED vars
  BY <1>1, <1>6 DEF vars
<1> QED BY <1>2, <1>3, <1>4, <1>5, <1>6 DEF Next

\* A plan lands on the first day, from the one that was asked for, that no plan
\* holds, and two plans never share a day: the probes of createAttempt, one day per
\* step, cannot be overtaken by the other calls of plans.ts.
THEOREM DatesTheorem == Spec => []FirstFreeDate
<1>1. Init => DInv
  BY DEF Init, DInv, FirstFreeDate, DatesProbed, Rows, Idle
<1>2. IInv /\ DInv /\ [Next]_vars => (IInv /\ DInv)'
  <2>1. IInv' => TypeOK'
    BY DEF IInv
  <2> QED BY <2>1, NextInv, NextDates
<1>3. DInv => FirstFreeDate
  BY DEF DInv
<1> QED BY <1>1, <1>2, <1>3, InitInv, PTL DEF Spec

-----------------------------------------------------------------------------
(***************************************************************************)
(* The refinement.  SeqOf reads a plan off a table of items; the step of   *)
(* PlanSeq that a step of Plans makes is found on the two tables.          *)
(***************************************************************************)
SeqOf(t, p) ==
    [n \in 1..Cardinality(ItemsIn(t, p)) |-> CHOOSE i \in ItemsIn(t, p) : t[i].order = n]

\* In a numbered table the sequence of a plan is the inverse of its numbers.
LEMMA SequenceIs ==
    ASSUME NEW t, t \in [ItemIds -> ItemRow \cup {None}], NEW p \in PlanIds, PlanNumbered(t, p)
    PROVE  LET n == Cardinality(ItemsIn(t, p))
               s == SeqOf(t, p)
           IN  /\ n \in Nat /\ ItemsIn(t, p) \in SUBSET ItemIds /\ IsFiniteSet(ItemsIn(t, p))
               /\ s \in [1..n -> ItemsIn(t, p)] /\ s \in Seq(ItemIds) /\ Len(s) = n
               /\ \A k \in 1..n : t[s[k]].order = k
               /\ \A i \in ItemsIn(t, p) : t[i].order \in 1..n /\ s[t[i].order] = i
               /\ IsInjective(s) /\ Range(s) = ItemsIn(t, p)
               /\ s # None
<1> DEFINE S == ItemsIn(t, p)
           n == Cardinality(S)
           s == SeqOf(t, p)
           ord == [i \in S |-> t[i].order]
<1>1. S \in SUBSET ItemIds
  BY DEF ItemsIn, Rows
<1>2. IsFiniteSet(S) /\ n \in Nat /\ n <= Cardinality(ItemIds) /\ Cardinality(ItemIds) \in Nat
  BY <1>1, FS_Subset, FS_CardinalityType, PlansAssumption
<1>3. \A i \in S : t[i] \in ItemRow
  BY <1>1 DEF ItemsIn, Rows
<1>4. {t[i].order : i \in S} = 1..n
  BY DEF PlanNumbered
<1>5. ord \in [S -> Nat] /\ Numbers(S, ord)
  BY <1>3, <1>4 DEF ItemRow, Numbers
<1>6. \A i, j \in S : t[i].order = t[j].order => i = j
  <2>1. \A i, j \in S : ord[i] = ord[j] => i = j
    BY <1>2, <1>5, NumbersInjective
  <2> QED BY <2>1
<1>7. \A k \in 1..n : s[k] \in S /\ t[s[k]].order = k
  <2> SUFFICES ASSUME NEW k \in 1..n PROVE s[k] \in S /\ t[s[k]].order = k
    OBVIOUS
  <2>1. \E i \in S : t[i].order = k
    BY <1>4
  <2>2. s[k] = CHOOSE i \in S : t[i].order = k
    BY DEF SeqOf
  <2> QED BY <2>1, <2>2
<1>8. s = [k \in 1..n |-> s[k]]
  BY DEF SeqOf
<1> HIDE DEF s
<1>9. s \in [1..n -> S]
  BY <1>7, <1>8
<1>10. s \in Seq(ItemIds) /\ Len(s) = n
  BY <1>1, <1>2, <1>9
<1>11. \A i \in S : t[i].order \in 1..n /\ s[t[i].order] = i
  BY <1>4, <1>6, <1>7
<1>12. IsInjective(s)
  BY <1>7, <1>9 DEF IsInjective
<1>13. Range(s) = S
  BY <1>9, <1>11 DEF Range
<1>14. s \in [1..n -> ItemIds] /\ n \in 0..Cardinality(ItemIds)
  BY <1>1, <1>2, <1>9
<1>15. s \in Requests
  BY <1>14 DEF Requests
<1>16. s # None
  BY <1>15, PlansAssumption
<1> QED BY <1>1, <1>2, <1>7, <1>9, <1>10, <1>11, <1>12, <1>13, <1>16 DEF s

\* The sequence of a plan is determined by its items and their numbers.
LEMMA SequenceStays ==
    ASSUME IInv, NEW t, t \in [ItemIds -> ItemRow \cup {None}],
           NEW p \in PlanIds, SameList(t, p)
    PROVE  SeqOf(t, p) = SeqOf(items, p)
<1> DEFINE S == ItemsIn(items, p)
           n == Cardinality(S)
           s == SeqOf(items, p)
           u == SeqOf(t, p)
<1>1. ItemsIn(t, p) = S /\ \A i \in S : t[i].order = items[i].order
  BY DEF SameList, ItemsIn, ItemsOf
<1>2. items \in [ItemIds -> ItemRow \cup {None}] /\ PlanNumbered(items, p)
  BY ItemsTableOK DEF TableOK
<1>3. PlanNumbered(t, p)
  BY OtherPlans
<1>4. s \in [1..n -> S] /\ \A k \in 1..n : items[s[k]].order = k
  BY <1>2, SequenceIs
<1>5. u \in [1..n -> S] /\ \A i \in S : u[t[i].order] = i
  BY <1>1, <1>3, SequenceIs
<1> HIDE DEF s, u
<1>6. \A k \in 1..n : u[k] = s[k]
  BY <1>1, <1>4, <1>5
<1>7. u = s
  <2>1. u = [k \in 1..n |-> u[k]] /\ s = [k \in 1..n |-> s[k]]
    BY <1>4, <1>5
  <2> QED BY <1>6, <2>1
<1> QED BY <1>7 DEF s, u

Bar(pl, t) == [p \in PlanIds |-> IF p \in Rows(pl) THEN SeqOf(t, p) ELSE None]

LEMMA BarIs ==
    /\ [p \in PlanIds |-> IF p \in Rows(plans) THEN Sequence(p) ELSE None] = Bar(plans, items)
    /\ ([p \in PlanIds |-> IF p \in Rows(plans) THEN Sequence(p) ELSE None])'
         = Bar(plans', items')
BY DEF Bar, Sequence, SeqOf, ItemsIn, ItemsOf, Rows

\* The plans that exist and the items that are used, abstractly.
LEMMA BarState ==
    ASSUME IInv
    PROVE  /\ Abstract!Existing = Rows(plans) /\ Rows(plans) \in SUBSET PlanIds
           /\ \A q \in PlanIds : PlanNumbered(items, q) /\ ItemsIn(items, q) = ItemsOf(q)
           /\ \A q \in Rows(plans) : Bar(plans, items)[q] = SeqOf(items, q)
           /\ Abstract!UsedItems = Rows(items)
<1> DEFINE s == Bar(plans, items)
<1>1. Rows(plans) \in SUBSET PlanIds
  BY RowTypes DEF IInv
<1>2. \A q \in PlanIds : PlanNumbered(items, q) /\ ItemsIn(items, q) = ItemsOf(q)
  BY ItemsTableOK DEF TableOK, ItemsIn, ItemsOf
<1>3. items \in [ItemIds -> ItemRow \cup {None}]
  BY DEF IInv, TypeOK
<1>4. \A q \in PlanIds : s[q] = IF q \in Rows(plans) THEN SeqOf(items, q) ELSE None
  BY DEF Bar
<1>5. \A q \in PlanIds : SeqOf(items, q) # None /\ Range(SeqOf(items, q)) = ItemsOf(q)
  BY <1>2, <1>3, SequenceIs
<1>6. Abstract!Existing = {q \in PlanIds : s[q] # None}
  BY BarIs DEF Abstract!Existing
<1>7. Abstract!Existing = Rows(plans)
  BY <1>1, <1>4, <1>5, <1>6
<1>8. Abstract!UsedItems = UNION {Range(s[q]) : q \in Rows(plans)}
  BY <1>7, BarIs DEF Abstract!UsedItems, Abstract!Range, Range
<1>9. \A q \in Rows(plans) : s[q] = SeqOf(items, q)
  BY <1>1, <1>4
<1>10. \A q \in Rows(plans) : Range(s[q]) = ItemsOf(q)
  BY <1>1, <1>5, <1>9
<1> HIDE DEF s
<1>11. Abstract!UsedItems = UNION {ItemsOf(q) : q \in Rows(plans)}
  BY <1>8, <1>10
<1>12. Abstract!UsedItems = Rows(items)
  BY <1>11, RowTypes DEF IInv, ItemsHavePlans, ItemsOf
<1> QED BY <1>1, <1>2, <1>7, <1>9, <1>12 DEF s

\* The other plans of a step that touches the list of one plan.
LEMMA BarOthers ==
    ASSUME IInv, IInv', NEW p \in PlanIds, \A q \in PlanIds \ {p} : SameList(items', q),
           \A q \in PlanIds \ {p} : q \in Rows(plans') <=> q \in Rows(plans)
    PROVE  /\ Abstract!OnlyPlan(p)
           /\ \A q \in PlanIds \ {p} : Bar(plans', items')[q] = Bar(plans, items)[q]
           /\ PlanNumbered(items', p) /\ items' \in [ItemIds -> ItemRow \cup {None}]
           /\ items \in [ItemIds -> ItemRow \cup {None}]
<1>1. /\ items' \in [ItemIds -> ItemRow \cup {None}] /\ items \in [ItemIds -> ItemRow \cup {None}]
      /\ \A q \in PlanIds : PlanNumbered(items', q)
  BY DEF IInv, TypeOK, OrdersContiguous, PlanNumbered, ItemsIn, ItemsOf, Rows
<1>2. \A q \in PlanIds \ {p} : SeqOf(items', q) = SeqOf(items, q)
  BY <1>1, SequenceStays
<1>3. \A q \in PlanIds \ {p} : Bar(plans', items')[q] = Bar(plans, items)[q]
  BY <1>2 DEF Bar
<1>4. Abstract!OnlyPlan(p)
  BY <1>3, BarIs DEF Abstract!OnlyPlan
<1> QED BY <1>1, <1>3, <1>4

LEMMA CreateMaps ==
    ASSUME IInv, IInv', NEW p \in PlanIds \ Rows(plans), Rows(plans') = Rows(plans) \cup {p},
           ItemsIn(items', p) \cap Rows(items) = {},
           \A q \in PlanIds \ {p} : SameList(items', q)
    PROVE  Abstract!Next
<1> DEFINE s == Bar(plans, items)
           u == Bar(plans', items')
<1>1. /\ Abstract!OnlyPlan(p) /\ PlanNumbered(items', p)
      /\ items' \in [ItemIds -> ItemRow \cup {None}]
  BY BarOthers
<1>2. /\ u[p] = SeqOf(items', p) /\ u[p] # None
      /\ IsInjective(u[p]) /\ Range(u[p]) = ItemsIn(items', p)
  BY <1>1, SequenceIs DEF Bar
<1>3. s[p] = None
  BY DEF Bar
<1>4. Abstract!Create(p)
  BY <1>1, <1>2, BarIs, BarState
     DEF Abstract!Create, Abstract!IsInjective, IsInjective, Abstract!Range, Range
<1> QED BY <1>2, <1>3, <1>4, BarIs DEF Abstract!Next

LEMMA AddMaps ==
    ASSUME IInv, IInv', NEW p \in Rows(plans), UNCHANGED plans, NEW i \in FreshItems,
           ItemsIn(items', p) = ItemsOf(p) \cup {i},
           items'[i].order = Cardinality(ItemsOf(p)) + 1,
           \A k \in Rows(items) : items'[k] = items[k],
           \A q \in PlanIds \ {p} : SameList(items', q)
    PROVE  Abstract!Next
<1> DEFINE s == Bar(plans, items)
           u == Bar(plans', items')
           n == Cardinality(ItemsOf(p))
           a == SeqOf(items, p)
           b == SeqOf(items', p)
<1>1. p \in PlanIds /\ ItemsOf(p) \in SUBSET Rows(items)
  BY RowTypes DEF IInv
<1>2. /\ \A q \in PlanIds \ {p} : u[q] = s[q]
      /\ PlanNumbered(items', p) /\ items' \in [ItemIds -> ItemRow \cup {None}]
      /\ items \in [ItemIds -> ItemRow \cup {None}]
  BY <1>1, BarOthers
<1>3. u[p] = b /\ s[p] = a /\ ItemsIn(items, p) = ItemsOf(p) /\ PlanNumbered(items, p)
  BY <1>1, BarState DEF Bar, Rows
<1>4. i \in ItemIds /\ i \notin Rows(items)
  BY FreshNotRows
<1>5. /\ n \in Nat /\ IsFiniteSet(ItemsOf(p)) /\ a \in [1..n -> ItemsOf(p)] /\ a \in Seq(ItemIds)
      /\ Len(a) = n /\ \A k \in 1..n : items[a[k]].order = k
  BY <1>1, <1>2, <1>3, SequenceIs
<1>6. Cardinality(ItemsIn(items', p)) = n + 1
  BY <1>1, <1>4, <1>5, FS_AddElement
<1>7. /\ b \in [1..(n + 1) -> ItemsIn(items', p)] /\ b \in Seq(ItemIds) /\ Len(b) = n + 1
      /\ \A k \in ItemsIn(items', p) : b[items'[k].order] = k
  <2> DEFINE t == items'
  <2>1. t \in [ItemIds -> ItemRow \cup {None}] /\ PlanNumbered(t, p)
    BY <1>2
  <2>2. Cardinality(ItemsIn(t, p)) = n + 1
    BY <1>6
  <2> HIDE DEF t, n
  <2>3. /\ SeqOf(t, p) \in [1..(n + 1) -> ItemsIn(t, p)] /\ SeqOf(t, p) \in Seq(ItemIds)
        /\ Len(SeqOf(t, p)) = n + 1
        /\ \A k \in ItemsIn(t, p) : SeqOf(t, p)[t[k].order] = k
    BY <1>1, <2>1, <2>2, SequenceIs
  <2> QED BY <2>3 DEF t
<1> HIDE DEF a, b, n
<1>8. b[n + 1] = i
  BY <1>7 DEF n
<1>9. \A k \in 1..n : b[k] = a[k]
  <2> SUFFICES ASSUME NEW k \in 1..n PROVE b[k] = a[k]
    OBVIOUS
  <2>1. a[k] \in ItemsOf(p) /\ items[a[k]].order = k
    BY <1>5
  <2>2. items'[a[k]].order = k /\ a[k] \in ItemsIn(items', p)
    BY <1>1, <2>1
  <2> QED BY <1>7, <2>2
<1>10. b = Append(a, i)
  <2>1. Append(a, i) \in Seq(ItemIds) /\ Len(Append(a, i)) = n + 1
    BY <1>4, <1>5
  <2>2. \A k \in 1..(n + 1) : Append(a, i)[k] = b[k]
    BY <1>4, <1>5, <1>8, <1>9
  <2> QED BY <1>7, <2>1, <2>2, SeqEqual
<1>11. u = [s EXCEPT ![p] = Append(s[p], i)]
  <2>1. u = [q \in PlanIds |-> u[q]] /\ s = [q \in PlanIds |-> s[q]]
    BY DEF Bar
  <2> HIDE DEF u, s
  <2> QED BY <1>1, <1>2, <1>3, <1>10, <2>1
<1>12. u[p] # s[p]
  BY <1>3, <1>5, <1>7
<1>13. Abstract!Add(p)
  <2>1. p \in Abstract!Existing /\ i \in ItemIds \ Abstract!UsedItems
    BY <1>4, BarState
  <2> HIDE DEF u, s
  <2>2. \E k \in ItemIds \ Abstract!UsedItems : u = [s EXCEPT ![p] = Append(s[p], k)]
    BY <1>11, <2>1
  <2> QED BY <2>1, <2>2, BarIs DEF Abstract!Add, u, s
<1> HIDE DEF u, s
<1>14. \E q \in PlanIds : u[q] # s[q] /\ Abstract!Add(q)
  BY <1>1, <1>12, <1>13
<1> QED BY <1>14, BarIs DEF Abstract!Next, u, s

\* A step of PlanSeq or none.
Maps == Abstract!Next \/ Bar(plans', items') = Bar(plans, items)

\* A step that may only change the sequence of p is none or one of Remove or Reorder.
LEMMA OnePlanMaps ==
    ASSUME IInv, IInv', NEW p \in PlanIds, Abstract!Remove(p) \/ Abstract!Reorder(p)
    PROVE  Maps
<1> DEFINE s == Bar(plans, items)
           u == Bar(plans', items')
<1>1. \A q \in PlanIds \ {p} : u[q] = s[q]
  BY BarIs DEF Abstract!Remove, Abstract!Reorder, Abstract!OnlyPlan
<1>2. CASE u[p] = s[p]
  <2>1. u = [q \in PlanIds |-> u[q]] /\ s = [q \in PlanIds |-> s[q]]
    BY DEF Bar
  <2> HIDE DEF u, s
  <2>2. u = s
    BY <1>1, <1>2, <2>1
  <2> QED BY <2>2 DEF Maps, u, s
<1>3. CASE u[p] # s[p]
  BY <1>3, BarIs DEF Maps, Abstract!Next
<1> QED BY <1>2, <1>3

LEMMA RemoveMaps ==
    ASSUME IInv, IInv', NEW p \in Rows(plans), UNCHANGED plans,
           NEW gone, gone \cap Rows(items) \subseteq ItemsOf(p), items' = Without(gone, p)
    PROVE  Maps
<1> DEFINE t == items'
           a == SeqOf(items, p)
           b == SeqOf(t, p)
           rest == ItemsOf(p) \ gone
           ord == [k \in rest |-> items[k].order]
           n == Cardinality(ItemsOf(p))
           m == Cardinality(rest)
           at == [k \in 1..m |-> items[b[k]].order]
<1>1. p \in PlanIds /\ ItemsOf(p) \in SUBSET Rows(items)
  BY RowTypes DEF IInv
<1>2. /\ ItemsIn(t, p) = rest
      /\ \A q \in PlanIds \ {p} : SameList(t, q)
      /\ \A i \in rest : t[i].order = Rank(rest, ord)[i]
  <2> DEFINE w == Without(gone, p)
  <2>1. /\ ItemsIn(w, p) = rest
        /\ \A q \in PlanIds \ {p} : SameList(w, q)
    BY <1>1, WithoutTable
  <2>2. \A i \in rest : w[i].order = Rank(rest, ord)[i]
    BY <1>1, WithoutTable
  <2>3. t = w
    OBVIOUS
  <2> HIDE DEF t, w, rest, ord
  <2> QED BY <2>1, <2>2, <2>3
<1>3. /\ Abstract!OnlyPlan(p)
      /\ PlanNumbered(t, p) /\ t \in [ItemIds -> ItemRow \cup {None}]
      /\ items \in [ItemIds -> ItemRow \cup {None}]
  BY <1>1, <1>2, BarOthers
<1>4. ItemsIn(items, p) = ItemsOf(p) /\ PlanNumbered(items, p) /\ p \in Rows(plans')
  BY <1>1, BarState
<1>5. Bar(plans', items')[p] = b /\ Bar(plans, items)[p] = a
  BY <1>1, <1>4 DEF Bar
<1>6. /\ IsFiniteSet(ItemsOf(p)) /\ n \in Nat /\ a \in [1..n -> ItemsOf(p)]
      /\ \A i \in ItemsOf(p) : items[i].order \in 1..n /\ a[items[i].order] = i
  BY <1>1, <1>3, <1>4, SequenceIs
<1> HIDE DEF t
<1>7. /\ m \in Nat /\ b \in [1..m -> rest] /\ \A k \in 1..m : t[b[k]].order = k
  BY <1>1, <1>2, <1>3, SequenceIs
<1>8. rest \in SUBSET ItemsOf(p) /\ IsFiniteSet(rest) /\ ord \in [rest -> Nat]
  BY <1>6, FS_Subset
<1> HIDE DEF a, b, n, m, rest
<1>9. at \in [1..m -> 1..n]
  BY <1>6, <1>7, <1>8
<1>10. \A k, l \in 1..m : k < l => at[k] < at[l]
  <2> SUFFICES ASSUME NEW k \in 1..m, NEW l \in 1..m, k < l PROVE at[k] < at[l]
    OBVIOUS
  <2>1. b[k] \in rest /\ b[l] \in rest /\ at[k] = ord[b[k]] /\ at[l] = ord[b[l]]
    BY <1>7
  <2>2. Rank(rest, ord)[b[k]] = k /\ Rank(rest, ord)[b[l]] = l
    BY <1>2, <1>7, <2>1
  <2>3. at[k] \in Nat /\ at[l] \in Nat
    BY <1>9
  <2> HIDE DEF at, ord
  <2>4. CASE at[k] = at[l]
    <3>1. {j \in rest : ord[j] <= ord[b[k]]} = {j \in rest : ord[j] <= ord[b[l]]}
      BY <2>1, <2>4
    <3>2. Rank(rest, ord)[b[k]] = Rank(rest, ord)[b[l]]
      BY <2>1, <3>1 DEF Rank
    <3> QED BY <2>2, <3>2
  <2>5. CASE at[l] < at[k]
    <3>1. Rank(rest, ord)[b[l]] < Rank(rest, ord)[b[k]]
      BY <1>8, <2>1, <2>5, RankMonotonic
    <3> QED BY <2>2, <3>1
  <2> QED BY <2>3, <2>4, <2>5
<1>11. b = [k \in 1..m |-> a[at[k]]]
  <2>1. \A k \in 1..m : a[at[k]] = b[k]
    BY <1>6, <1>7, <1>8
  <2>2. b = [k \in 1..m |-> b[k]]
    BY <1>7
  <2> QED BY <2>1, <2>2
<1>12. DOMAIN b = 1..m /\ DOMAIN a = 1..n
  BY <1>6, <1>7
<1>13. \E f \in [DOMAIN b -> DOMAIN a] :
          /\ \A k, l \in DOMAIN b : k < l => f[k] < f[l]
          /\ b = [k \in DOMAIN b |-> a[f[k]]]
  BY <1>9, <1>10, <1>11, <1>12
<1>14. p \in Abstract!Existing
  BY BarState
<1>15. Abstract!Remove(p)
  <2> DEFINE S == [q \in PlanIds |-> IF q \in Rows(plans) THEN Sequence(q) ELSE None]
             U == [q \in PlanIds |-> IF q \in Rows(plans) THEN Sequence(q) ELSE None]'
  <2>1. S[p] = a /\ U[p] = b
    BY <1>5, BarIs
  <2> HIDE DEF S, U
  <2>2. \E f \in [DOMAIN U[p] -> DOMAIN S[p]] :
          /\ \A k, l \in DOMAIN U[p] : k < l => f[k] < f[l]
          /\ U[p] = [k \in DOMAIN U[p] |-> S[p][f[k]]]
    BY <1>13, <2>1
  <2> QED BY <1>3, <1>14, <2>2 DEF Abstract!Remove, S, U
<1> QED BY <1>1, <1>15, OnePlanMaps

LEMMA ReorderMaps ==
    ASSUME IInv, IInv', NEW p \in PlanIds, UNCHANGED plans, NEW ids \in Requests, IsInjective(ids),
           \A i \in Range(ids) \cap Rows(items) : items[i].plan = p,
           ReorderAccepted(p, ids), items' = Reordered(ids)
    PROVE  Maps
<1> DEFINE a == SeqOf(items, p)
           b == SeqOf(items', p)
<1>1. ItemsIn(items', p) = ItemsOf(p) /\ \A q \in PlanIds \ {p} : SameList(items', q)
  BY ReorderTable
<1>2. /\ Abstract!OnlyPlan(p)
      /\ PlanNumbered(items', p) /\ items' \in [ItemIds -> ItemRow \cup {None}]
      /\ items \in [ItemIds -> ItemRow \cup {None}]
  BY <1>1, BarOthers
<1>3. PlanNumbered(items, p) /\ ItemsIn(items, p) = ItemsOf(p)
  BY BarState
<1>4. Len(a) = Cardinality(ItemsOf(p)) /\ Range(a) = ItemsOf(p)
  BY <1>2, <1>3, SequenceIs
<1>5. Len(b) = Cardinality(ItemsOf(p)) /\ Range(b) = ItemsOf(p)
  BY <1>1, <1>2, SequenceIs
<1>6. CASE p \in Rows(plans)
  <2>1. Bar(plans', items')[p] = b /\ Bar(plans, items)[p] = a
    BY <1>6 DEF Bar
  <2>2. p \in Abstract!Existing
    BY <1>6, BarState
  <2>3. Abstract!Reorder(p)
    <3> DEFINE S == [q \in PlanIds |-> IF q \in Rows(plans) THEN Sequence(q) ELSE None]
               U == [q \in PlanIds |-> IF q \in Rows(plans) THEN Sequence(q) ELSE None]'
    <3>1. S[p] = a /\ U[p] = b
      BY <2>1, BarIs
    <3> HIDE DEF S, U
    <3>2. Abstract!Range(a) = Range(a) /\ Abstract!Range(b) = Range(b)
      BY DEF Abstract!Range, Range
    <3>3. Len(U[p]) = Len(S[p]) /\ Abstract!Range(U[p]) = Abstract!Range(S[p])
      BY <1>4, <1>5, <3>1, <3>2
    <3> QED BY <1>2, <2>2, <3>3 DEF Abstract!Reorder, S, U
  <2> QED BY <2>3, OnePlanMaps
<1>7. CASE p \notin Rows(plans)
  <2>1. Bar(plans', items') = Bar(plans, items)
    BY <1>1, <1>2, <1>7, SequenceStays DEF Bar
  <2> QED BY <2>1 DEF Maps
<1> QED BY <1>6, <1>7

\* A step that keeps the lists of all plans is no step of PlanSeq.
LEMMA QuietMaps ==
    ASSUME IInv, IInv', Rows(plans') = Rows(plans), \A p \in PlanIds : SameList(items', p)
    PROVE  Maps
<1>1. items' \in [ItemIds -> ItemRow \cup {None}]
  BY DEF IInv, TypeOK
<1>2. \A p \in PlanIds : SeqOf(items', p) = SeqOf(items, p)
  BY <1>1, SequenceStays
<1> QED BY <1>2 DEF Maps, Bar

LEMMA QuietItemsMaps == ASSUME IInv, IInv', UNCHANGED <<plans, items>> PROVE Maps
BY QuietMaps DEF SameList, ItemsIn, ItemsOf, Rows

LEMMA AddItemMaps ==
    ASSUME IInv, IInv', NEW p \in PlanIds, NEW v \in Payloads, createPlanItem(p, v), UNCHANGED plans
    PROVE  Maps
BY AddTable, AddMaps DEF createPlanItem, Maps

LEMMA WithoutMaps ==
    ASSUME IInv, IInv', NEW p \in PlanIds, UNCHANGED plans,
           NEW gone, gone \cap Rows(items) \subseteq ItemsOf(p), items' = Without(gone, p)
    PROVE  Maps
<1>1. CASE p \in Rows(plans)
  BY <1>1, RemoveMaps
<1>2. CASE p \notin Rows(plans)
  <2>1. ItemsOf(p) = {}
    BY <1>2 DEF IInv, ItemsHavePlans, ItemsOf
  <2>2. /\ ItemsIn(items', p) = ItemsOf(p) \ gone
        /\ \A q \in PlanIds \ {p} : SameList(items', q)
    BY WithoutTable
  <2>3. SameList(items', p)
    BY <2>1, <2>2 DEF SameList
  <2> QED BY <2>2, <2>3, QuietMaps DEF Rows
<1> QED BY <1>1, <1>2

\* Only createAttempt creates a plan.
LEMMA createAttemptMaps ==
    ASSUME IInv, IInv', NEW h \in Handlers, createAttempt(h)
    PROVE  Maps
<1> DEFINE j == job[h]
           date == j.asked + j.tries
<1>1. /\ j.kind = "create" /\ j.asked \in Nat /\ j.tries \in Nat /\ j.title \in Payloads
      /\ CallOK(j, items)
      /\ j.copy \in SUBSET [order : Nat \ {0}, payload : Payloads]
  BY JobFields DEF createAttempt, IInv, TypeOK, CallsOK
<1>2. CASE DateTaken(date)
  BY <1>2, QuietItemsMaps DEF createAttempt
<1>3. CASE ~DateTaken(date)
  <2>1. PICK p \in PlanIds \ Rows(plans) :
          /\ plans' = [plans EXCEPT ![p] = [date |-> date, deleted |-> FALSE,
                                            title |-> j.title, asked |-> j.asked]]
          /\ items' \in CopiedItems(p, j.copy)
    BY <1>3 DEF createAttempt
  <2>2. /\ \A q \in PlanIds \ {p} : SameList(items', q)
        /\ ItemsIn(items', p) \cap Rows(items) = {}
    BY <1>1, <2>1, CopyTable DEF CallOK
  <2>3. plans'[p] \in PlanRow
    BY <1>1, <2>1 DEF IInv, TypeOK, PlanRow
  <2>4. Rows(plans') = Rows(plans) \cup {p}
    BY <2>1, <2>3, PlansAssumption DEF IInv, TypeOK, Rows
  <2> QED BY <2>1, <2>2, <2>4, CreateMaps DEF Maps
<1> QED BY <1>2, <1>3

LEMMA JobStepMaps ==
    ASSUME IInv, IInv', NEW h \in Handlers, JobStep(h)
    PROVE  Maps
<1>1. job[h] \in Job /\ CallOK(job[h], items)
  BY DEF IInv, TypeOK, CallsOK
<1>2. CASE createAttempt(h)
  BY <1>2, createAttemptMaps
<1>3. CASE updateItemWrite(h)
  <2>1. \A p \in PlanIds : SameList(items', p)
    <3>1. CASE job[h].item \in Rows(items)
      BY <1>1, <1>3, <3>1, JobFields, PayloadTable DEF updateItemWrite
    <3>2. CASE job[h].item \notin Rows(items)
      BY <1>3, <3>2 DEF updateItemWrite, SameList, ItemsIn, ItemsOf
    <3> QED BY <3>1, <3>2
  <2> QED BY <1>3, <2>1, QuietMaps DEF updateItemWrite
<1>4. CASE removeItemWrite(h)
  <2>1. /\ job[h].plan \in PlanIds
        /\ {job[h].item} \cap Rows(items) \subseteq ItemsOf(job[h].plan)
    BY <1>1, <1>4, JobFields DEF removeItemWrite, CallOK, ItemsOf
  <2> QED BY <1>4, <2>1, WithoutMaps DEF removeItemWrite
<1>5. CASE reorderWrite(h)
  <2>1. /\ job[h].plan \in PlanIds /\ job[h].ids \in Requests /\ IsInjective(job[h].ids)
        /\ \A i \in Range(job[h].ids) \cap Rows(items) : items[i].plan = job[h].plan
    BY <1>1, <1>5, JobFields DEF reorderWrite, CallOK
  <2>2. items' = IF ReorderAccepted(job[h].plan, job[h].ids) THEN Reordered(job[h].ids) ELSE items
    BY <1>5 DEF reorderWrite, Reordered
  <2>3. UNCHANGED plans
    BY <1>5 DEF reorderWrite
  <2> QED BY <2>1, <2>2, <2>3, ReorderMaps, QuietItemsMaps
<1>6. CASE importLine(h)
  <2>1. job[h].plan \in PlanIds /\ job[h].payload \in Payloads
    BY <1>1, <1>6, JobFields DEF importLine
  <2> QED BY <1>6, <2>1, AddItemMaps, QuietItemsMaps DEF importLine
<1>7. CASE outOfIds(h)
  BY <1>7, QuietItemsMaps DEF outOfIds
<1> QED BY <1>2, <1>3, <1>4, <1>5, <1>6, <1>7 DEF JobStep

LEMMA DirectMaps == ASSUME IInv, IInv', Direct PROVE Maps
<1>1. ASSUME NEW p \in Rows(plans), NEW r \in PlanRow, plans' = [plans EXCEPT ![p] = r],
             UNCHANGED items
      PROVE  Maps
  <2>1. Rows(plans') = Rows(plans)
    BY <1>1, PlansAssumption DEF IInv, TypeOK, Rows
  <2>2. \A q \in PlanIds : SameList(items', q)
    BY <1>1 DEF SameList, ItemsIn, ItemsOf
  <2> QED BY <2>1, <2>2, QuietMaps
<1>2. ASSUME NEW p \in PlanIds, NEW t \in Payloads, plansUpdate(p, t) PROVE Maps
  <2>1. p \in Rows(plans) /\ plans[p] \in PlanRow
    BY <1>2, RowTypes DEF IInv, plansUpdate
  <2>2. [plans[p] EXCEPT !.title = t] \in PlanRow
    BY <2>1 DEF PlanRow
  <2>3. plans' = [plans EXCEPT ![p] = [plans[p] EXCEPT !.title = t]] /\ UNCHANGED items
    BY <1>2 DEF plansUpdate
  <2> QED BY <1>1, <2>1, <2>2, <2>3
<1>3. ASSUME NEW p \in PlanIds, plansDelete(p) PROVE Maps
  <2>1. p \in Rows(plans) /\ plans[p] \in PlanRow
    BY <1>3, RowTypes DEF IInv, plansDelete
  <2>2. [plans[p] EXCEPT !.deleted = TRUE] \in PlanRow
    BY <2>1 DEF PlanRow
  <2>3. plans' = [plans EXCEPT ![p] = [plans[p] EXCEPT !.deleted = TRUE]] /\ UNCHANGED items
    BY <1>3 DEF plansDelete
  <2> QED BY <1>1, <2>1, <2>2, <2>3
<1>4. ASSUME NEW p \in PlanIds, NEW v \in Payloads, plansAddItem(p, v) PROVE Maps
  BY <1>4, AddItemMaps DEF plansAddItem
<1>5. ASSUME NEW p \in PlanIds, NEW gone \in SUBSET ItemIds, plansRemoveItems(p, gone) PROVE Maps
  BY <1>5, WithoutMaps DEF plansRemoveItems
<1> QED BY <1>2, <1>3, <1>4, <1>5 DEF Direct

\* A call that is only begun or that fails has written nothing.
LEMMA NextMaps == ASSUME IInv, IInv', [Next]_vars PROVE Maps
<1>1. ASSUME NEW h \in Handlers, JobStep(h) PROVE Maps
  BY <1>1, JobStepMaps
<1>2. ASSUME NEW h \in Handlers, callFails(h) \/ Request(h) PROVE Maps
  <2>1. UNCHANGED <<plans, items>>
    BY <1>2 DEF callFails, Request, plansCreate, plansDuplicate, plansUpdateItem, plansRemoveItem,
                plansReorder, plansImportFromFile
  <2> QED BY <2>1, QuietItemsMaps
<1>3. CASE Direct
  BY <1>3, DirectMaps
<1>4. CASE UNCHANGED vars
  BY <1>4, QuietItemsMaps DEF vars
<1> QED BY <1>1, <1>2, <1>3, <1>4 DEF Next

\* The plans:* handlers implement plans that are sequences of items, for any
\* number of calls in flight: a step adds one item at the end, removes items and
\* keeps the order of the others, permutes one plan or creates one.
THEOREM RefinementTheorem == Spec => ImplementsPlanSeq
<1>1. Init => Abstract!Init
  <2> SUFFICES ASSUME Init PROVE Abstract!Init
    OBVIOUS
  <2>1. Rows(plans) = {}
    BY DEF Init, Rows
  <2> QED BY <2>1 DEF Abstract!Init
<1>2. IInv /\ IInv' /\ [Next]_vars =>
        [Abstract!Next]_([p \in PlanIds |-> IF p \in Rows(plans) THEN Sequence(p) ELSE None])
  BY NextMaps, BarIs DEF Maps
<1> QED BY <1>1, <1>2, InitInv, NextInv, PTL DEF Spec, ImplementsPlanSeq, Abstract!Spec

=============================================================================
